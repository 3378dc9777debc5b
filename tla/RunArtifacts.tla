----------------------------- MODULE RunArtifacts -----------------------------
(***************************************************************************)
(* The files one task's runs leave behind and the manifest that vouches    *)
(* for them, on the static production path.  Which node runs next is       *)
(* ReportTask's subject; here the nodes follow one another and the         *)
(* question is what each file was made from when the quality node          *)
(* validates the manifest, after checkpoint retries and whole new runs.    *)
(*                                                                         *)
(*   src/services/report_task_service.py     which node writes and commits *)
(*   src/agents/multi_agent_orchestrator.py  phases, skipped when the file *)
(*                                           of an earlier one is there    *)
(*   src/runtime/run_manifest.py             RunManifest                   *)
(*                                                                         *)
(* The content of a file is the record of what was read to make it.        *)
(***************************************************************************)
EXTENDS RunManifest

CONSTANTS
  Batches,   \* sets of evidence records a source may return
  Drafts,    \* texts the writing model may return
  MaxRuns    \* bound: run_task calls on the task

ASSUME BatchesAssumption == Batches # {}
ASSUME DraftsAssumption == Drafts # {}
ASSUME MaxRunsAssumption == MaxRuns \in Nat \ {0}

VARIABLES
  file,      \* the seven artifacts
  dossiers,  \* what prepare_write persisted; not in the manifest
  memo,      \* the phases whose phase file exists, and what research found
  manifest,  \* run_manifest.json: its status and its entries
  node,      \* the node the task's graph is at
  phase,     \* before the node's work, or between its files and its commit
  runs       \* run_task calls so far

vars == <<file, dossiers, memo, manifest, node, phase, runs>>

NodeOrder == <<"official_evidence_backfill", "evidence", "research", "normalize_evidence",
               "analyze", "build_canonical_metrics", "prepare_write",
               "build_section_evidence_packs", "write_report", "verify_sections",
               "repair_failed_sections", "quality", "done">>

FirstNode == NodeOrder[1]

After(n) == NodeOrder[1 + CHOOSE i \in 1..Len(NodeOrder) : NodeOrder[i] = n]

\* File a is written with content c.
Put(f, a, c) == [b \in DOMAIN f \cup {a} |-> IF b = a THEN c ELSE f[b]]

\* The records of evidence.json; the peer rows that the metric refresh adds are
\* kept apart.
Records == IF "evidence" \in DOMAIN file THEN file["evidence"].records ELSE {}
Peers == IF "evidence" \in DOMAIN file THEN file["evidence"].peers ELSE FALSE

Evidence(records, peers) == [records |-> records, peers |-> peers]

NoFiles == [a \in {} |-> Missing]

Init ==
  /\ file = NoFiles
  /\ dossiers = Missing
  /\ memo = [done |-> {}, found |-> {}]
  /\ manifest = [status |-> "none", entries |-> NoEntries]
  /\ node = FirstNode /\ phase = "work" /\ runs = 1

-----------------------------------------------------------------------------
\* The node's work ends: with the node, unless the process dies before its
\* checkpoint is written, or with a commit to follow.
Step(n) == node = n /\ phase = "work"
Done == node' \in {node, After(node)} /\ UNCHANGED <<phase, runs>>
ThenCommit == phase' = "commit" /\ UNCHANGED <<node, runs>>

\* A phase file is written, and never removed.
Remember(p) == memo' = [memo EXCEPT !.done = @ \cup {p}]

\* Every phase from normalize_evidence on passes through the attach_ functions
\* with a fresh state: they fetch filings and PDFs again, merge what they can
\* extract this time into the records, and the phase rewrites evidence.json.
Enriched(attached) == Evidence(Records \cup attached, Peers)

\* Official sources may return records that were not available before.
Backfill ==
  /\ Step("official_evidence_backfill")
  /\ \E new \in SUBSET Batches :
       file' = IF new = {} THEN file ELSE Put(file, "evidence", Evidence(Records \cup new, Peers))
  /\ Done
  /\ UNCHANGED <<dossiers, memo, manifest>>

\* A blocked gate ends the graph; the task can be run again.
EvidenceGate ==
  /\ Step("evidence")
  /\ Done \/ (node' = "blocked" /\ UNCHANGED <<phase, runs>>)
  /\ UNCHANGED <<file, dossiers, memo, manifest>>

Research ==
  /\ Step("research")
  /\ \/ "research" \in memo.done /\ UNCHANGED memo
     \/ /\ "research" \notin memo.done
        /\ \E found \in SUBSET Batches :
             memo' = [done |-> memo.done \cup {"research"}, found |-> found]
  /\ Done
  /\ UNCHANGED <<file, dossiers, manifest>>

NormalizeEvidence ==
  /\ Step("normalize_evidence")
  /\ \E attached \in SUBSET Batches :
       LET found == IF "normalize_evidence" \in memo.done THEN {} ELSE memo.found
       IN file' = Put(file, "evidence", Enriched(found \cup attached))
  /\ Remember("normalize_evidence")
  /\ Done
  /\ UNCHANGED <<dossiers, manifest>>

\* The claims record which evidence they were drawn from.  With its phase file
\* on disk the phase rewrites the claims and metrics it finds there.
Analyze ==
  /\ Step("analyze")
  /\ \E attached \in SUBSET Batches :
       LET evidence == Enriched(attached)
           read == evidence.records
           enriched == Put(file, "evidence", evidence)
       IN file' = IF "analyze" \in memo.done THEN enriched
                  ELSE Put(Put(enriched, "claims", [drawnFrom |-> read, alignedWith |-> {}]),
                           "canonical_metrics", [analysis |-> read, evidence |-> read])
  /\ Remember("analyze")
  /\ Done
  /\ UNCHANGED <<dossiers, manifest>>

\* _refresh_canonical_metrics: arbitrate again from the analysis and the
\* evidence, align the claims with the result, add peer rows to the evidence.
BuildCanonicalMetrics ==
  /\ Step("build_canonical_metrics")
  /\ \E peers \in {Peers, TRUE} :
       LET metrics == [analysis |-> file["canonical_metrics"].analysis, evidence |-> Records]
           claims == [file["claims"] EXCEPT !.alignedWith = Records]
       IN file' = Put(Put(Put(file, "canonical_metrics", metrics), "claims", claims),
                      "evidence", Evidence(Records, peers))
  /\ ThenCommit
  /\ UNCHANGED <<dossiers, memo, manifest>>

PrepareWrite ==
  /\ Step("prepare_write")
  /\ \E attached \in SUBSET Batches :
       /\ file' = Put(file, "evidence", Enriched(attached))
       /\ dossiers' = IF "prepare_write" \in memo.done THEN dossiers
                      ELSE [claims |-> file["claims"], evidence |-> Enriched(attached).records]
  /\ Remember("prepare_write")
  /\ Done
  /\ UNCHANGED manifest

BuildSectionEvidencePacks ==
  /\ Step("build_section_evidence_packs")
  /\ file' = Put(file, "section_evidence_packs",
                 [evidence |-> file["evidence"], claims |-> file["claims"],
                  canonical_metrics |-> file["canonical_metrics"], dossiers |-> dossiers])
  /\ ThenCommit
  /\ UNCHANGED <<dossiers, memo, manifest>>

\* The writer's phase is executed every time; the phases before it are
\* answered from their files, and the section packs read from theirs.
Written(evidence, draft) ==
  [evidence |-> evidence, canonical_metrics |-> file["canonical_metrics"],
   claims |-> file["claims"], section_evidence_packs |-> file["section_evidence_packs"],
   draft |-> draft]

Cited(evidence, draft) == [evidence |-> evidence, claims |-> file["claims"], draft |-> draft]

WriteFiles(evidence, draft) ==
  file' = Put(Put(Put(file, "evidence", evidence), "citations", Cited(evidence, draft)),
              "report", Written(evidence, draft))

WriteReportOnce ==
  /\ Step("write_report")
  /\ IF "report" \in DOMAIN file THEN UNCHANGED file
     ELSE \E attached \in SUBSET Batches, draft \in Drafts : WriteFiles(Enriched(attached), draft)
  /\ ThenCommit
  /\ UNCHANGED <<dossiers, memo, manifest>>

WriteReport ==
  /\ Step("write_report")
  /\ \E attached \in SUBSET Batches, draft \in Drafts : WriteFiles(Enriched(attached), draft)
  /\ ThenCommit
  /\ UNCHANGED <<dossiers, memo, manifest>>

\* A phase dies after it has rewritten the evidence and before anything else.
PhaseDies ==
  /\ phase = "work"
  /\ node \in {"normalize_evidence", "analyze", "prepare_write", "write_report"}
  /\ \E attached \in SUBSET Batches : file' = Put(file, "evidence", Enriched(attached))
  /\ UNCHANGED <<dossiers, memo, manifest, node, phase, runs>>

VerifiedOn(report) ==
  [report |-> report, section_evidence_packs |-> file["section_evidence_packs"]]

\* The sections are checked, and the outcome is written but not committed.
VerifySections ==
  /\ Step("verify_sections")
  /\ file' = Put(file, "section_verification", VerifiedOn(file["report"]))
  /\ Done
  /\ UNCHANGED <<dossiers, memo, manifest>>

\* Failed sections are rewritten into the report; the section verification is
\* computed on the outcome either way.
RepairFailedSections ==
  /\ Step("repair_failed_sections")
  /\ \E draft \in Drafts \cup {file["report"].draft} :
       LET report == [file["report"] EXCEPT !.draft = draft] IN
         file' = Put(Put(file, "report", report), "section_verification", VerifiedOn(report))
  /\ ThenCommit
  /\ UNCHANGED <<dossiers, memo, manifest>>

Quality ==
  /\ Step("quality")
  /\ manifest' = [manifest EXCEPT !.status = Status(file, manifest.entries)]
  /\ Done
  /\ UNCHANGED <<file, dossiers, memo>>

-----------------------------------------------------------------------------
CommitsUnordered(n) ==
  CASE n = "build_canonical_metrics"      -> <<"canonical_metrics", "evidence">>
    [] n = "build_section_evidence_packs" -> <<"section_evidence_packs", "claims">>
    [] n = "write_report"                 -> <<"report", "citations">>
    [] n = "repair_failed_sections"       -> <<"section_verification", "report">>

\* What each node commits, in the order of the call.
CommitsOf(n) ==
  CASE n = "build_canonical_metrics"      -> <<"evidence", "canonical_metrics">>
    [] n = "build_section_evidence_packs" -> <<"claims", "section_evidence_packs">>
    [] n = "write_report"                 -> <<"citations", "report">>
    [] n = "repair_failed_sections"       -> <<"report", "section_verification">>

\* commit_run_artifacts writes "ready" without validating anything.  Without
\* metrics, and there are none without evidence, build_canonical_metrics raises
\* after its commit and stays the pending node.
CommitArtifacts ==
  /\ phase = "commit"
  /\ manifest' = [status  |-> "ready",
                  entries |-> Commit(file, manifest.entries, CommitsOf(node))]
  /\ phase' = "work"
  /\ node' \in IF node = "build_canonical_metrics" /\ Records = {} THEN {node}
               ELSE {node, After(node)}
  /\ UNCHANGED <<file, dossiers, memo, runs>>

\* An exception or a crash between a node's files and its commit.
DieBeforeCommit ==
  /\ phase = "commit" /\ phase' = "work"
  /\ UNCHANGED <<file, dossiers, memo, manifest, node, runs>>

RunAgainWithoutFiles ==
  /\ runs < MaxRuns
  /\ runs' = runs + 1
  /\ node' = FirstNode /\ phase' = "work"
  /\ file' = NoFiles
  /\ UNCHANGED <<dossiers, memo, manifest>>

\* run_task again, on the same output directory: every phase file stays.
RunAgain ==
  /\ runs < MaxRuns
  /\ runs' = runs + 1
  /\ node' = FirstNode /\ phase' = "work"
  /\ UNCHANGED <<file, dossiers, memo, manifest>>

Next ==
  \/ Backfill \/ EvidenceGate \/ Research \/ NormalizeEvidence \/ Analyze
  \/ BuildCanonicalMetrics \/ PrepareWrite \/ BuildSectionEvidencePacks
  \/ WriteReport \/ VerifySections \/ RepairFailedSections \/ Quality
  \/ CommitArtifacts \/ PhaseDies \/ DieBeforeCommit \/ RunAgain

Spec == Init /\ [][Next]_vars

-----------------------------------------------------------------------------
(***************************************************************************)
(* Properties.                                                             *)
(***************************************************************************)
Entries == manifest.entries

\* Every variable has its type; no artifact is committed without its file.
TypeOK ==
  /\ DOMAIN Entries \subseteq DOMAIN file /\ DOMAIN file \subseteq Artifacts
  /\ memo \in [done  : SUBSET {"research", "normalize_evidence", "analyze", "prepare_write"},
               found : SUBSET Batches]
  /\ manifest.status \in {"none", "ready", "stale"}
  /\ node \in {NodeOrder[i] : i \in 1..Len(NodeOrder)} \cup {"blocked"}
  /\ phase \in {"work", "commit"} /\ runs \in 1..MaxRuns

\* The graph has run to its end through the quality node.
Validated == node = "done"

\* What the manifest says the evidence is.
Committed == Entries["evidence"].version

\* No crash, retry or new run makes the validation at the end cry wolf: as long
\* as the evidence is the committed one, every artifact was committed after the
\* ones it depends on and written before its commit only.
NoFalseAlarm == Validated /\ file["evidence"] = Committed => manifest.status = "ready"

\* At the end of every run the report is the one written from the evidence,
\* metrics, claims and section packs that are on disk, whichever run made them.
ReportReadItsInputs ==
  Validated => \A a \in {"evidence", "canonical_metrics", "claims", "section_evidence_packs"} :
                 file["report"][a] = file[a]

\* A manifest that says ready vouches for metrics arbitrated from the evidence
\* on disk and section packs cut from that evidence, those metrics and the claims
\* on disk, although evidence.json may change after any of them was made and
\* the entries of the packs name the committed evidence, not the one they read.
ReadyIsConsistent ==
  Validated /\ manifest.status = "ready" =>
    /\ file["canonical_metrics"].evidence = Records
    /\ \A a \in {"evidence", "canonical_metrics", "claims"} :
         file["section_evidence_packs"][a] = file[a]

\* "Upstream artifact changes invalidate dependent report versions": a manifest
\* that says ready vouches for claims drawn from the evidence on disk.
ReadyClaimsAreCurrent ==
  Validated /\ manifest.status = "ready" => file["claims"].drawnFrom = Records

\* The writer "must not rebuild or mutate evidence, canonical metrics, claims,
\* dossiers, contracts, or section packs".
WriterLeavesItsInputs ==
  [][WriteReport =>
       \A a \in {"evidence", "canonical_metrics", "claims", "section_evidence_packs"} :
         file'[a] = file[a]]_vars

(***************************************************************************)
(* What has to be added to the first three to make them inductive: which   *)
(* entries the manifest holds when the graph reaches a node, and between   *)
(* which bounds the evidence has moved since.                              *)
(***************************************************************************)
\* An entry of the manifest that was made after those it depends on, of a file
\* that has not changed since; evidence.json may.
Holds(f, entries, a) ==
  /\ {a} \cup DependsOn(a) \subseteq DOMAIN entries \cap DOMAIN f
  /\ a # "evidence" => entries[a].version = f[a]
  /\ DOMAIN entries[a].deps = DependsOn(a)
  /\ \A d \in DependsOn(a) : entries[a].deps[d] = entries[d].version

InStep(a) == Holds(file, Entries, a)

MetricsDone == {"prepare_write", "build_section_evidence_packs", "write_report",
                "verify_sections", "repair_failed_sections", "quality", "done"}
PacksDone == {"write_report", "verify_sections", "repair_failed_sections", "quality", "done"}
ReportDone == {"verify_sections", "repair_failed_sections", "quality", "done"}

\* What has been committed when the graph reaches a node.
EntriesInStep ==
  /\ node \in MetricsDone => InStep("evidence") /\ InStep("canonical_metrics")
  /\ node \in PacksDone => InStep("claims") /\ InStep("section_evidence_packs")
  /\ node \in ReportDone => InStep("citations")
  /\ node \in {"quality", "done"} => InStep("report") /\ InStep("section_verification")

At(n) == node = n /\ phase = "commit"

\* The files a commit is about to name are there.
FilesToCommit ==
  /\ At("build_canonical_metrics") =>
       {"evidence", "canonical_metrics", "claims"} \subseteq DOMAIN file
  /\ node \in MetricsDone => "claims" \in DOMAIN file
  /\ At("repair_failed_sections") => "section_verification" \in DOMAIN file

\* The evidence has only grown since it was committed with the metrics.
EvidenceGrows ==
  /\ At("build_canonical_metrics") \/ node \in MetricsDone => file["evidence"] = Evidence(Records, Peers)
  /\ At("build_canonical_metrics") => file["canonical_metrics"].evidence = Records
  /\ node \in MetricsDone =>
       \E records \in SUBSET Records :
         /\ Committed = Evidence(records, Peers)
         /\ file["canonical_metrics"].evidence = records

\* The packs were cut from the evidence as it was at some moment since.
PacksAreCurrent ==
  At("build_section_evidence_packs") \/ node \in PacksDone =>
    /\ "section_evidence_packs" \in DOMAIN file
    /\ \A a \in {"canonical_metrics", "claims"} : file["section_evidence_packs"][a] = file[a]
    /\ \E records \in SUBSET Records :
         /\ Committed.records \subseteq records
         /\ file["section_evidence_packs"].evidence = Evidence(records, Peers)

\* The report was written from the files as they are, up to the draft.
ReportIsCurrent ==
  At("write_report") \/ node \in ReportDone =>
    /\ {"report", "citations"} \subseteq DOMAIN file
    /\ \E draft \in Drafts : file["report"] = Written(file["evidence"], draft)

\* The status at the end was computed on the files and entries as they are.
ValidatedNow == Validated => manifest.status = Status(file, Entries)

Inductive ==
  /\ manifest = [status |-> manifest.status, entries |-> Entries]
  /\ DOMAIN Entries \subseteq Artifacts /\ phase \in {"work", "commit"}
  /\ phase = "commit" => node \in {"build_canonical_metrics", "build_section_evidence_packs",
                                  "write_report", "repair_failed_sections"}
  /\ EntriesInStep /\ FilesToCommit /\ EvidenceGrows /\ PacksAreCurrent /\ ReportIsCurrent
  /\ ValidatedNow
=============================================================================
