----------------------------- MODULE RunManifest -----------------------------
(***************************************************************************)
(* The version contract of a run's artifacts (src/runtime/run_manifest.py):*)
(* a manifest remembers, for each committed artifact, the version of the   *)
(* file and the versions its dependencies had in the manifest at that      *)
(* moment; validation compares both with the files.                        *)
(*                                                                         *)
(* "file" maps the artifacts whose file exists to its content, and         *)
(* "entries" the committed artifacts to their entries.  A version is the   *)
(* content itself: the digest is taken to be injective.                    *)
(***************************************************************************)
EXTENDS Naturals, Sequences

CONSTANT Missing  \* the version of an artifact that is not there or not known

Artifacts == {"evidence", "canonical_metrics", "claims", "section_evidence_packs",
              "citations", "report", "section_verification"}

\* ARTIFACT_DEPENDENCIES
DependsOn(a) ==
  CASE a = "evidence"               -> {}
    [] a = "canonical_metrics"      -> {"evidence"}
    [] a = "claims"                 -> {"evidence", "canonical_metrics"}
    [] a = "section_evidence_packs" -> {"evidence", "canonical_metrics", "claims"}
    [] a = "citations"              -> {"evidence", "claims"}
    [] a = "report"                 -> {"evidence", "canonical_metrics", "claims",
                                        "section_evidence_packs", "citations"}
    [] a = "section_verification"   -> {"report", "section_evidence_packs"}

NoEntries == [a \in {} |-> Missing]

VersionIn(entries, a) == IF a \in DOMAIN entries THEN entries[a].version ELSE Missing

\* One turn of the loop of commit_run_artifacts: an artifact without a file is
\* skipped and keeps its old entry.
CommitOne(file, entries, a) ==
  IF a \notin DOMAIN file THEN entries
  ELSE [b \in DOMAIN entries \cup {a} |->
          IF b # a THEN entries[b]
          ELSE [version |-> file[a],
                deps    |-> [d \in DependsOn(a) |-> VersionIn(entries, d)]]]

\* The names are committed in the order of the call, each seeing the versions
\* of the ones before it; every call of the static path names two.
Commit(file, entries, names) ==
  CommitOne(file, CommitOne(file, entries, names[1]), names[2])

\* validate_run_manifest: the version of an artifact the manifest does not
\* name counts as missing, even when the file is there.
Current(file, entries, a) ==
  IF a \in DOMAIN entries /\ a \in DOMAIN file THEN file[a] ELSE Missing

StaleArtifacts(file, entries) ==
  {a \in DOMAIN entries :
     \/ Current(file, entries, a) # entries[a].version
     \/ \E d \in DOMAIN entries[a].deps : Current(file, entries, d) # entries[a].deps[d]}

MissingArtifacts(file, entries) == DOMAIN entries \ DOMAIN file

StatusOfMissing(file, entries) ==
  IF MissingArtifacts(file, entries) = {} THEN "ready" ELSE "stale"

Status(file, entries) ==
  IF StaleArtifacts(file, entries) = {} /\ MissingArtifacts(file, entries) = {}
  THEN "ready" ELSE "stale"
=============================================================================
