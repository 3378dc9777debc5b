------------------------- MODULE RunArtifacts_proofs -------------------------
(***************************************************************************)
(* What RunArtifacts says of every set of evidence records, every set of   *)
(* drafts and every number of runs: what the validation at the end of a    *)
(* run reports, and that the report was written from the files there are.  *)
(*                                                                         *)
(* The argument follows the graph: Inductive says which artifacts are in   *)
(* step with the manifest when the graph reaches a node, and that the      *)
(* evidence has only grown since it was committed with the metrics.  A     *)
(* node that rewrites another file lies before the point where that file   *)
(* has to be in step, and a retry never moves the graph, so no action has  *)
(* to repair anything: it keeps what is in step (PutKeeps, CommitOneKeeps) *)
(* or adds to it (CommitOneAdds).                                          *)
(***************************************************************************)
EXTENDS RunArtifacts, TLAPS

(***************************************************************************)
(* Files and entries.                                                      *)
(***************************************************************************)

\* No artifact depends on itself, and all dependencies are artifacts.
LEMMA Dependencies ==
  ASSUME NEW a \in Artifacts
  PROVE  a \notin DependsOn(a) /\ DependsOn(a) \subseteq Artifacts
BY DEF Artifacts, DependsOn

\* An entry holds on when another file is written, or evidence.json.
LEMMA PutKeeps ==
  ASSUME NEW f, NEW e, NEW a, NEW c, NEW b,
         Holds(f, e, b), a # b \/ a = "evidence"
  PROVE  Holds(Put(f, a, c), e, b)
BY DEF Put, Holds

\* A commit makes an entry that holds when the manifest already names the
\* dependencies.
LEMMA CommitOneAdds ==
  ASSUME NEW f, NEW e, NEW a \in Artifacts, a \in DOMAIN f,
         DependsOn(a) \subseteq DOMAIN e \cap DOMAIN f
  PROVE  Holds(f, CommitOne(f, e, a), a)
BY Dependencies DEF Holds, CommitOne, VersionIn

\* It takes away no entry that does not depend on it.
LEMMA CommitOneKeeps ==
  ASSUME NEW f, NEW e, NEW a \in Artifacts, NEW b,
         Holds(f, e, b), a # b, a \notin DependsOn(b)
  PROVE  Holds(f, CommitOne(f, e, a), b)
BY DEF Holds, CommitOne

\* Entries are only ever artifacts.
LEMMA CommitOneDomain ==
  ASSUME NEW f, NEW e, NEW a \in Artifacts, DOMAIN e \subseteq Artifacts
  PROVE  /\ DOMAIN CommitOne(f, e, a) \subseteq Artifacts
         /\ DOMAIN e \subseteq DOMAIN CommitOne(f, e, a)
BY DEF CommitOne

\* When every entry holds and the evidence is the committed one, the
\* validation finds nothing.
LEMMA HoldsIsReady ==
  ASSUME NEW f, NEW e, DOMAIN e \subseteq Artifacts,
         \A a \in Artifacts : Holds(f, e, a),
         f["evidence"] = e["evidence"].version
  PROVE  Status(f, e) = "ready"
<1>1. MissingArtifacts(f, e) = {}
  BY DEF MissingArtifacts, Holds
<1>2. \A a \in Artifacts : Current(f, e, a) = f[a] /\ e[a].version = f[a]
  BY DEF Current, Holds
<1>3. ASSUME NEW a \in DOMAIN e
      PROVE  /\ Current(f, e, a) = e[a].version
             /\ \A d \in DOMAIN e[a].deps : Current(f, e, d) = e[a].deps[d]
  BY <1>2, Dependencies DEF Holds
<1>4. StaleArtifacts(f, e) = {}
  BY <1>3 DEF StaleArtifacts
<1> QED BY <1>1, <1>4 DEF Status

\* The validation compares the evidence with its entry.
LEMMA ReadyIsCommitted ==
  ASSUME NEW f, NEW e, "evidence" \in DOMAIN e, "evidence" \in DOMAIN f,
         Status(f, e) = "ready"
  PROVE  f["evidence"] = e["evidence"].version
BY DEF Status, StaleArtifacts, Current

(***************************************************************************)
(* The order of the nodes.                                                 *)
(***************************************************************************)

\* The successor of each node.
LEMMA AfterIs ==
  /\ After("official_evidence_backfill") = "evidence"
  /\ After("evidence") = "research"
  /\ After("research") = "normalize_evidence"
  /\ After("normalize_evidence") = "analyze"
  /\ After("analyze") = "build_canonical_metrics"
  /\ After("build_canonical_metrics") = "prepare_write"
  /\ After("prepare_write") = "build_section_evidence_packs"
  /\ After("build_section_evidence_packs") = "write_report"
  /\ After("write_report") = "verify_sections"
  /\ After("verify_sections") = "repair_failed_sections"
  /\ After("repair_failed_sections") = "quality"
  /\ After("quality") = "done"
<1>1. Len(NodeOrder) = 13
  BY DEF NodeOrder
<1>2. ASSUME NEW k \in 1..12
      PROVE  After(NodeOrder[k]) = NodeOrder[1 + k]
  <2>1. \A i \in 1..13 : NodeOrder[i] = NodeOrder[k] => i = k
    BY DEF NodeOrder
  <2> QED BY <1>1, <2>1 DEF After
<1>3. /\ After(NodeOrder[1]) = NodeOrder[2] /\ After(NodeOrder[2]) = NodeOrder[3]
      /\ After(NodeOrder[3]) = NodeOrder[4] /\ After(NodeOrder[4]) = NodeOrder[5]
      /\ After(NodeOrder[5]) = NodeOrder[6] /\ After(NodeOrder[6]) = NodeOrder[7]
      /\ After(NodeOrder[7]) = NodeOrder[8] /\ After(NodeOrder[8]) = NodeOrder[9]
      /\ After(NodeOrder[9]) = NodeOrder[10] /\ After(NodeOrder[10]) = NodeOrder[11]
      /\ After(NodeOrder[11]) = NodeOrder[12] /\ After(NodeOrder[12]) = NodeOrder[13]
  BY <1>2
<1> QED BY <1>3 DEF NodeOrder

(***************************************************************************)
(* The invariant.                                                          *)
(***************************************************************************)
\* A task without files has nothing out of step.
LEMMA InitInductive == Init => Inductive
BY DEF Init, Inductive, EntriesInStep, FilesToCommit, EvidenceGrows, PacksAreCurrent,
       ReportIsCurrent, ValidatedNow, Validated, Entries, NoEntries, At, MetricsDone, PacksDone,
       ReportDone, FirstNode, NodeOrder

\* A node up to build_canonical_metrics, before its commit: nothing has to
\* hold yet.
LEMMA EarlyNodes ==
  ASSUME Inductive,
         UNCHANGED manifest, phase' = "work",
         node' \notin MetricsDone
  PROVE  Inductive'
BY DEF Inductive, EntriesInStep, FilesToCommit, EvidenceGrows, PacksAreCurrent, ReportIsCurrent,
       ValidatedNow, Validated, Entries, At, MetricsDone, PacksDone, ReportDone

\* The evidence is read from its file.
LEMMA PutEvidence ==
  ASSUME NEW records, NEW peers, file' = Put(file, "evidence", Evidence(records, peers))
  PROVE  Records' = records /\ Peers' = peers
BY DEF Records, Peers, Put, Evidence

\* Past the commit of the metrics, evidence that grows leaves them committed
\* for what they were arbitrated from.
LEMMA EvidenceGrowsOn ==
  ASSUME EvidenceGrows, node \in MetricsDone, node' \in MetricsDone,
         UNCHANGED manifest, Records \subseteq Records', Peers' = Peers,
         file'["evidence"] = Evidence(Records', Peers'),
         file'["canonical_metrics"] = file["canonical_metrics"]
  PROVE  EvidenceGrows'
<1>1. PICK records \in SUBSET Records :
        /\ Committed = Evidence(records, Peers)
        /\ file["canonical_metrics"].evidence = records
  BY DEF EvidenceGrows
<1>2. Committed' = Committed /\ ~At("build_canonical_metrics")'
  BY DEF Committed, Entries, At, MetricsDone
<1>3. \E r \in SUBSET Records' :
        /\ Committed' = Evidence(r, Peers')
        /\ file'["canonical_metrics"].evidence = r
  BY <1>1, <1>2
<1> QED BY <1>2, <1>3 DEF EvidenceGrows

\* Packs stay current while the evidence grows.
LEMMA PacksStayCurrent ==
  ASSUME PacksAreCurrent, At("build_section_evidence_packs") \/ node \in PacksDone,
         UNCHANGED manifest, Records \subseteq Records', Peers' = Peers,
         "section_evidence_packs" \in DOMAIN file',
         \A a \in {"canonical_metrics", "claims", "section_evidence_packs"} : file'[a] = file[a]
  PROVE  PacksAreCurrent'
<1>1. PICK records \in SUBSET Records :
        /\ Committed.records \subseteq records
        /\ file["section_evidence_packs"].evidence = Evidence(records, Peers)
  BY DEF PacksAreCurrent
<1>2. Committed' = Committed
  BY DEF Committed, Entries
<1>3. \E r \in SUBSET Records' :
        /\ Committed'.records \subseteq r
        /\ file'["section_evidence_packs"].evidence = Evidence(r, Peers')
  BY <1>1, <1>2
<1>4. \A a \in {"canonical_metrics", "claims"} :
        file'["section_evidence_packs"][a] = file'[a]
  BY DEF PacksAreCurrent
<1> QED BY <1>3, <1>4 DEF PacksAreCurrent

\* A step past the commit of the metrics that leaves the inputs of the report.
InputsKept ==
  \A a \in {"evidence", "canonical_metrics", "claims", "section_evidence_packs"} :
    a \in DOMAIN file /\ a \in DOMAIN file' /\ file'[a] = file[a]

\* Such a step keeps what is known of the evidence and of the packs.
LEMMA InputsKeptIsEnough ==
  ASSUME EvidenceGrows, PacksAreCurrent, InputsKept, UNCHANGED Committed,
         node \in PacksDone, node' \in PacksDone
  PROVE  EvidenceGrows' /\ PacksAreCurrent'
<1>1. Records' = Records /\ Peers' = Peers
  BY DEF InputsKept, Records, Peers
<1>2. node \in MetricsDone /\ node' \in MetricsDone
  BY DEF MetricsDone, PacksDone
<1>3. ~At("build_canonical_metrics")'
  BY <1>2 DEF At, MetricsDone
<1> QED BY <1>1, <1>2, <1>3 DEF InputsKept, EvidenceGrows, PacksAreCurrent

\* A phase that does nothing but rewrite evidence.json keeps what the nodes
\* before it have established.
LEMMA GrowthKeeps ==
  ASSUME Inductive, node \in MetricsDone, node' \in {node, "build_section_evidence_packs"},
         node' = node \/ node = "prepare_write", phase' = "work", UNCHANGED manifest,
         NEW attached, file' = Put(file, "evidence", Enriched(attached)),
         node \notin ReportDone
  PROVE  EntriesInStep' /\ FilesToCommit' /\ EvidenceGrows' /\ PacksAreCurrent'
<1>1. Records' = Records \cup attached /\ Peers' = Peers
  BY PutEvidence DEF Enriched
<1>2. /\ DOMAIN file \subseteq DOMAIN file'
      /\ \A a \in DOMAIN file \ {"evidence"} : file'[a] = file[a]
      /\ file'["evidence"] = Evidence(Records', Peers')
  BY <1>1 DEF Put, Enriched
<1>3. InStep("evidence") /\ InStep("canonical_metrics") /\ "claims" \in DOMAIN file
  BY DEF Inductive, EntriesInStep, FilesToCommit
<1>4. \A a : InStep(a) => InStep(a)'
  BY PutKeeps DEF InStep, Entries
<1>5. EntriesInStep'
  BY <1>4 DEF Inductive, EntriesInStep, MetricsDone, PacksDone, ReportDone
<1>6. FilesToCommit'
  BY <1>2, <1>3 DEF FilesToCommit, At
<1>7. EvidenceGrows'
  <2>1. "canonical_metrics" \in DOMAIN file
    BY <1>3 DEF InStep, Holds
  <2> QED BY <1>1, <1>2, <2>1, EvidenceGrowsOn DEF Inductive, MetricsDone
<1>8. PacksAreCurrent'
  <2>1. CASE node \in PacksDone
    <3>1. {"canonical_metrics", "claims", "section_evidence_packs"} \subseteq DOMAIN file
      BY <1>3, <2>1 DEF Inductive, PacksAreCurrent, InStep, Holds
    <3> QED BY <1>1, <1>2, <2>1, <3>1, PacksStayCurrent DEF Inductive
  <2>2. CASE node \notin PacksDone
    BY <2>2 DEF PacksAreCurrent, At, PacksDone
  <2> QED BY <2>1, <2>2
<1> QED BY <1>5, <1>6, <1>7, <1>8

\* A new section verification leaves the report, and what it was made from.
LEMMA JudgedKeeps ==
  ASSUME Inductive, node = "verify_sections", node' \in {node, "repair_failed_sections"},
         phase' = "work", UNCHANGED manifest,
         NEW c, file' = Put(file, "section_verification", c)
  PROVE  Inductive'
<1> DEFINE Inputs == {"evidence", "canonical_metrics", "claims", "section_evidence_packs", "citations"}
<1>1. /\ \A a \in Inputs : InStep(a)
      /\ "report" \in DOMAIN file
  BY DEF Inductive, EntriesInStep, ReportIsCurrent, MetricsDone, PacksDone, ReportDone
<1>2. /\ {"report"} \cup Inputs \subseteq DOMAIN file'
      /\ \A a \in {"report"} \cup Inputs : file'[a] = file[a]
  BY <1>1 DEF Put, InStep, Holds
<1>3. \A a \in Inputs : InStep(a)'
  BY <1>1, PutKeeps DEF InStep, Entries
<1>4. InputsKept
  BY <1>1, <1>2 DEF InputsKept, InStep, Holds
<1>5. EvidenceGrows' /\ PacksAreCurrent'
  BY <1>4, InputsKeptIsEnough DEF PacksDone, Inductive, Committed, Entries
<1>6. \A draft : Written(file["evidence"], draft)' = Written(file["evidence"], draft)
  BY <1>2 DEF Written
<1> QED BY <1>2, <1>3, <1>5, <1>6 DEF Inductive, EntriesInStep, FilesToCommit,
      ReportIsCurrent, ValidatedNow, Validated, Entries, At, MetricsDone, PacksDone, ReportDone

\* A repaired report is made from the same inputs.
LEMMA RepairKeeps ==
  ASSUME Inductive, node = "repair_failed_sections", node' = node,
         phase' = "commit", UNCHANGED manifest,
         NEW draft \in Drafts, NEW c,
         file' = Put(Put(file, "report", Written(file["evidence"], draft)),
                     "section_verification", c)
  PROVE  Inductive'
<1> DEFINE Inputs == {"evidence", "canonical_metrics", "claims", "section_evidence_packs", "citations"}
           repaired == Put(file, "report", Written(file["evidence"], draft))
<1>1. \A a \in Inputs : InStep(a)
  BY DEF Inductive, EntriesInStep, MetricsDone, PacksDone, ReportDone
<1>2. /\ {"report", "section_verification"} \cup Inputs \subseteq DOMAIN file'
      /\ \A a \in Inputs : file'[a] = file[a]
      /\ file'["report"] = Written(file["evidence"], draft)
  BY <1>1 DEF Put, InStep, Holds
<1>3. \A a \in Inputs : InStep(a)'
  <2>1. \A a \in Inputs : Holds(repaired, Entries, a)
    BY <1>1, PutKeeps DEF InStep
  <2> QED BY <2>1, PutKeeps DEF InStep, Entries
<1>4. InputsKept
  BY <1>1, <1>2 DEF InputsKept, InStep, Holds
<1>5. EvidenceGrows' /\ PacksAreCurrent'
  BY <1>4, InputsKeptIsEnough DEF PacksDone, Inductive, Committed, Entries
<1>6. Written(file["evidence"], draft)' = Written(file["evidence"], draft)
  BY <1>2 DEF Written
<1>7. file'["report"] = Written(file["evidence"], draft)'
  BY <1>2, <1>6
<1> QED BY <1>2, <1>3, <1>5, <1>7 DEF Inductive, EntriesInStep, FilesToCommit,
      ReportIsCurrent, ValidatedNow, Validated, Entries, At, MetricsDone, PacksDone, ReportDone

\* A commit of two names makes both entries hold and keeps the others.
LEMMA CommitTwo ==
  ASSUME NEW f, NEW e, NEW a \in Artifacts, NEW b \in Artifacts,
         NEW committed, committed = Commit(f, e, <<a, b>>),
         {a, b} \subseteq DOMAIN f, a # b, b \notin DependsOn(a), DOMAIN e \subseteq Artifacts,
         DependsOn(a) \subseteq DOMAIN e \cap DOMAIN f,
         DependsOn(b) \subseteq {a} \cup (DOMAIN e \cap DOMAIN f)
  PROVE  /\ DOMAIN committed \subseteq Artifacts
         /\ Holds(f, committed, a) /\ Holds(f, committed, b)
         /\ committed[a].version = f[a]
         /\ \A d : Holds(f, e, d) /\ d \notin {a, b} /\ {a, b} \cap DependsOn(d) = {}
                     => Holds(f, committed, d) /\ committed[d] = e[d]
<1> DEFINE once == CommitOne(f, e, a)
           twice == CommitOne(f, once, b)
<1>1. Commit(f, e, <<a, b>>) = twice
  BY DEF Commit
<1>2. DOMAIN once = DOMAIN e \cup {a}
  BY DEF CommitOne
<1>3. DOMAIN twice \subseteq Artifacts
  BY <1>2, CommitOneDomain
<1>4. Holds(f, twice, a)
  <2>1. Holds(f, once, a)
    BY CommitOneAdds
  <2> QED BY <2>1, CommitOneKeeps
<1>5. Holds(f, twice, b)
  <2>1. DependsOn(b) \subseteq DOMAIN once \cap DOMAIN f
    BY <1>2
  <2> QED BY <2>1, CommitOneAdds
<1>6. ASSUME NEW d, Holds(f, e, d), d \notin {a, b}, {a, b} \cap DependsOn(d) = {}
      PROVE  Holds(f, twice, d) /\ twice[d] = e[d]
  <2>1. Holds(f, once, d)
    BY <1>6, CommitOneKeeps
  <2>2. Holds(f, twice, d)
    BY <1>6, <2>1, CommitOneKeeps
  <2>3. twice[d] = e[d]
    BY <1>6 DEF CommitOne, Holds
  <2> QED BY <2>2, <2>3
<1>7. twice[a].version = f[a]
  BY DEF CommitOne
<1> QED BY <1>1, <1>3, <1>4, <1>5, <1>6, <1>7

\* Each commit names what its node has made, after what that was made from.
LEMMA CommitInductive ==
  ASSUME Inductive, CommitArtifacts
  PROVE  Inductive'
<1>1. /\ phase = "commit" /\ phase' = "work" /\ UNCHANGED file
      /\ manifest' = [status |-> "ready", entries |-> Commit(file, Entries, CommitsOf(node))]
      /\ node' \in {node, After(node)}
      /\ DOMAIN Entries \subseteq Artifacts
  BY DEF CommitArtifacts, Entries, Inductive
<1>2. /\ manifest' = [status |-> manifest'.status, entries |-> Entries']
      /\ Entries' = Commit(file, Entries, CommitsOf(node))
      /\ Records' = Records /\ Peers' = Peers
      /\ \A draft : Written(file["evidence"], draft)' = Written(file["evidence"], draft)
      /\ \A a : InStep(a)' = Holds(file, Entries', a)
  BY <1>1 DEF Entries, Records, Peers, Written, InStep
<1>3. CASE node = "build_canonical_metrics"
  <2>1. CommitsOf(node) = <<"evidence", "canonical_metrics">> /\ node' \in {node, "prepare_write"}
    BY <1>1, <1>3, AfterIs DEF CommitsOf
  <2>2. /\ {"evidence", "canonical_metrics", "claims"} \subseteq DOMAIN file
        /\ file["evidence"] = Evidence(Records, Peers)
        /\ file["canonical_metrics"].evidence = Records
    BY <1>1, <1>3 DEF Inductive, FilesToCommit, EvidenceGrows, At
  <2>3. /\ DOMAIN Entries' \subseteq Artifacts
        /\ InStep("evidence")' /\ InStep("canonical_metrics")'
        /\ Committed' = file["evidence"]
    <3>1. /\ "evidence" \in Artifacts /\ "canonical_metrics" \in Artifacts
          /\ {"evidence", "canonical_metrics"} \subseteq DOMAIN file
          /\ "evidence" # "canonical_metrics" /\ DOMAIN Entries \subseteq Artifacts
      BY <1>1, <2>2 DEF Artifacts
    <3>2. /\ "canonical_metrics" \notin DependsOn("evidence")
          /\ DependsOn("evidence") \subseteq DOMAIN Entries \cap DOMAIN file
          /\ DependsOn("canonical_metrics") \subseteq {"evidence"} \cup (DOMAIN Entries \cap DOMAIN file)
      BY DEF DependsOn
    <3>3. Entries' = Commit(file, Entries, <<"evidence", "canonical_metrics">>)
      BY <1>2, <2>1
    <3>4. /\ DOMAIN Entries' \subseteq Artifacts
          /\ Holds(file, Entries', "evidence") /\ Holds(file, Entries', "canonical_metrics")
          /\ Entries'["evidence"].version = file["evidence"]
      BY ONLY <3>1, <3>2, <3>3, CommitTwo
    <3> QED BY <1>2, <3>4 DEF Committed
  <2>4. EvidenceGrows'
    BY <1>1, <1>2, <2>2, <2>3 DEF EvidenceGrows, At
  <2> QED BY <1>1, <1>2, <1>3, <2>1, <2>2, <2>3, <2>4 DEF Inductive, EntriesInStep, FilesToCommit,
        PacksAreCurrent, ReportIsCurrent, ValidatedNow, Validated, At, MetricsDone, PacksDone,
        ReportDone
<1>4. CASE node = "build_section_evidence_packs"
  <2>1. /\ CommitsOf(node) = <<"claims", "section_evidence_packs">>
        /\ node' \in {node, "write_report"}
    BY <1>1, <1>4, AfterIs DEF CommitsOf
  <2>2. /\ InStep("evidence") /\ InStep("canonical_metrics")
        /\ {"claims", "section_evidence_packs"} \subseteq DOMAIN file
    BY <1>1, <1>4 DEF Inductive, EntriesInStep, FilesToCommit, PacksAreCurrent, At, MetricsDone
  <2>3. {"evidence", "canonical_metrics"} \subseteq DOMAIN Entries \cap DOMAIN file
    BY <2>2 DEF InStep, Holds
  <2>4. /\ DOMAIN Entries' \subseteq Artifacts
        /\ InStep("evidence")' /\ InStep("canonical_metrics")'
        /\ InStep("claims")' /\ InStep("section_evidence_packs")'
        /\ Committed' = Committed
    <3>1. /\ "claims" \in Artifacts /\ "section_evidence_packs" \in Artifacts /\ "claims" # "section_evidence_packs"
          /\ {"claims", "section_evidence_packs"} \subseteq DOMAIN file
      BY <2>2 DEF Artifacts
    <3>2. /\ "section_evidence_packs" \notin DependsOn("claims")
          /\ DependsOn("claims") \subseteq DOMAIN Entries \cap DOMAIN file
          /\ DependsOn("section_evidence_packs") \subseteq {"claims"} \cup (DOMAIN Entries \cap DOMAIN file)
      BY <2>3 DEF DependsOn
    <3>3. \A d \in {"evidence", "canonical_metrics"} :
            d \notin {"claims", "section_evidence_packs"} /\ {"claims", "section_evidence_packs"} \cap DependsOn(d) = {}
      BY DEF DependsOn
    <3>c. Entries' = Commit(file, Entries, <<"claims", "section_evidence_packs">>)
      BY <1>2, <2>1
    <3>4. /\ DOMAIN Entries' \subseteq Artifacts
          /\ Holds(file, Entries', "claims") /\ Holds(file, Entries', "section_evidence_packs")
          /\ \A d : /\ Holds(file, Entries, d) /\ d \notin {"claims", "section_evidence_packs"}
                    /\ {"claims", "section_evidence_packs"} \cap DependsOn(d) = {}
                   => Holds(file, Entries', d) /\ Entries'[d] = Entries[d]
      <4>1. DOMAIN Entries \subseteq Artifacts
        BY <1>1
      <4> QED BY ONLY <3>1, <3>2, <4>1, <3>c, CommitTwo, SMTT(40)
    <3>5. \A d \in {"evidence", "canonical_metrics"} : InStep(d)' /\ Entries'[d] = Entries[d]
      BY <1>2, <2>2, <3>3, <3>4 DEF InStep
    <3> QED BY <1>2, <3>4, <3>5 DEF Committed
  <2>5. EvidenceGrows' /\ PacksAreCurrent'
    BY <1>1, <1>2, <1>4, <2>1, <2>4 DEF Inductive, EvidenceGrows, PacksAreCurrent, At, MetricsDone
  <2> QED BY <1>1, <1>2, <1>4, <2>1, <2>2, <2>4, <2>5 DEF Inductive, EntriesInStep, FilesToCommit,
        ReportIsCurrent, ValidatedNow, Validated, At, MetricsDone, PacksDone, ReportDone
<1>5. CASE node = "write_report"
  <2>1. CommitsOf(node) = <<"citations", "report">> /\ node' \in {node, "verify_sections"}
    BY <1>1, <1>5, AfterIs DEF CommitsOf
  <2>2. /\ InStep("evidence") /\ InStep("canonical_metrics")
        /\ InStep("claims") /\ InStep("section_evidence_packs")
        /\ {"citations", "report"} \subseteq DOMAIN file
    BY <1>1, <1>5 DEF Inductive, EntriesInStep, ReportIsCurrent, At, MetricsDone, PacksDone
  <2>3. {"evidence", "canonical_metrics", "claims", "section_evidence_packs"}
          \subseteq DOMAIN Entries \cap DOMAIN file
    BY <2>2 DEF InStep, Holds
  <2>4. /\ DOMAIN Entries' \subseteq Artifacts
        /\ InStep("evidence")' /\ InStep("canonical_metrics")'
        /\ InStep("claims")' /\ InStep("section_evidence_packs")' /\ InStep("citations")'
        /\ Committed' = Committed
    <3>1. /\ "citations" \in Artifacts /\ "report" \in Artifacts /\ "citations" # "report"
          /\ {"citations", "report"} \subseteq DOMAIN file
      BY <2>2 DEF Artifacts
    <3>2. /\ "report" \notin DependsOn("citations")
          /\ DependsOn("citations") \subseteq DOMAIN Entries \cap DOMAIN file
          /\ DependsOn("report") \subseteq {"citations"} \cup (DOMAIN Entries \cap DOMAIN file)
      BY <2>3 DEF DependsOn
    <3>3. \A d \in {"evidence", "canonical_metrics", "claims", "section_evidence_packs"} :
            d \notin {"citations", "report"} /\ {"citations", "report"} \cap DependsOn(d) = {}
      BY DEF DependsOn
    <3>c. Entries' = Commit(file, Entries, <<"citations", "report">>)
      BY <1>2, <2>1
    <3>4. /\ DOMAIN Entries' \subseteq Artifacts
          /\ Holds(file, Entries', "citations") /\ Holds(file, Entries', "report")
          /\ \A d : /\ Holds(file, Entries, d) /\ d \notin {"citations", "report"}
                    /\ {"citations", "report"} \cap DependsOn(d) = {}
                   => Holds(file, Entries', d) /\ Entries'[d] = Entries[d]
      <4>1. DOMAIN Entries \subseteq Artifacts
        BY <1>1
      <4> QED BY ONLY <3>1, <3>2, <4>1, <3>c, CommitTwo, SMTT(40)
    <3>5. \A d \in {"evidence", "canonical_metrics", "claims", "section_evidence_packs"} : InStep(d)' /\ Entries'[d] = Entries[d]
      BY <1>2, <2>2, <3>3, <3>4 DEF InStep
    <3> QED BY <1>2, <3>4, <3>5 DEF Committed
  <2>5. EvidenceGrows' /\ PacksAreCurrent'
    BY <1>1, <1>2, <1>5, <2>1, <2>4
    DEF Inductive, EvidenceGrows, PacksAreCurrent, At, MetricsDone, PacksDone
  <2>6. ReportIsCurrent'
    BY <1>1, <1>2, <1>5 DEF Inductive, ReportIsCurrent, At
  <2> QED BY <1>1, <1>2, <1>5, <2>1, <2>3, <2>4, <2>5, <2>6 DEF Inductive, EntriesInStep,
        FilesToCommit, ValidatedNow, Validated, At, MetricsDone, PacksDone, ReportDone
<1>6. CASE node = "repair_failed_sections"
  <2>1. CommitsOf(node) = <<"report", "section_verification">> /\ node' \in {node, "quality"}
    BY <1>1, <1>6, AfterIs DEF CommitsOf
  <2>2. /\ InStep("evidence") /\ InStep("canonical_metrics")
        /\ InStep("claims") /\ InStep("section_evidence_packs") /\ InStep("citations")
        /\ {"report", "section_verification"} \subseteq DOMAIN file
    BY <1>1, <1>6 DEF Inductive, EntriesInStep, FilesToCommit, ReportIsCurrent, At, MetricsDone,
       PacksDone, ReportDone
  <2>3. {"evidence", "canonical_metrics", "claims", "section_evidence_packs", "citations"}
          \subseteq DOMAIN Entries \cap DOMAIN file
    BY <2>2 DEF InStep, Holds
  <2>4. /\ DOMAIN Entries' \subseteq Artifacts
        /\ InStep("evidence")' /\ InStep("canonical_metrics")'
        /\ InStep("claims")' /\ InStep("section_evidence_packs")' /\ InStep("citations")'
        /\ InStep("report")' /\ InStep("section_verification")'
        /\ Committed' = Committed
    <3>1. /\ "report" \in Artifacts /\ "section_verification" \in Artifacts /\ "report" # "section_verification"
          /\ {"report", "section_verification"} \subseteq DOMAIN file
      BY <2>2 DEF Artifacts
    <3>2. /\ "section_verification" \notin DependsOn("report")
          /\ DependsOn("report") \subseteq DOMAIN Entries \cap DOMAIN file
          /\ DependsOn("section_verification") \subseteq {"report"} \cup (DOMAIN Entries \cap DOMAIN file)
      BY <2>3 DEF DependsOn
    <3>3. \A d \in {"evidence", "canonical_metrics", "claims", "section_evidence_packs", "citations"} :
            d \notin {"report", "section_verification"} /\ {"report", "section_verification"} \cap DependsOn(d) = {}
      BY DEF DependsOn
    <3>c. Entries' = Commit(file, Entries, <<"report", "section_verification">>)
      BY <1>2, <2>1
    <3>4. /\ DOMAIN Entries' \subseteq Artifacts
          /\ Holds(file, Entries', "report") /\ Holds(file, Entries', "section_verification")
          /\ \A d : /\ Holds(file, Entries, d) /\ d \notin {"report", "section_verification"}
                    /\ {"report", "section_verification"} \cap DependsOn(d) = {}
                   => Holds(file, Entries', d) /\ Entries'[d] = Entries[d]
      <4>1. DOMAIN Entries \subseteq Artifacts
        BY <1>1
      <4> QED BY ONLY <3>1, <3>2, <4>1, <3>c, CommitTwo, SMTT(40)
    <3>5. \A d \in {"evidence", "canonical_metrics", "claims", "section_evidence_packs", "citations"} : InStep(d)' /\ Entries'[d] = Entries[d]
      BY <1>2, <2>2, <3>3, <3>4 DEF InStep
    <3> QED BY <1>2, <3>4, <3>5 DEF Committed
  <2>5. EvidenceGrows' /\ PacksAreCurrent'
    BY <1>1, <1>2, <1>6, <2>1, <2>4
    DEF Inductive, EvidenceGrows, PacksAreCurrent, At, MetricsDone, PacksDone
  <2>6. ReportIsCurrent'
    BY <1>1, <1>2, <1>6 DEF Inductive, ReportIsCurrent, At, ReportDone
  <2> QED BY <1>1, <1>2, <1>6, <2>1, <2>3, <2>4, <2>5, <2>6 DEF Inductive, EntriesInStep,
        FilesToCommit, ValidatedNow, Validated, At, MetricsDone, PacksDone, ReportDone
<1> QED BY <1>1, <1>3, <1>4, <1>5, <1>6 DEF Inductive

\* Every action keeps in step what its node has to find in step.
LEMMA NextInductive == Inductive /\ [Next]_vars => Inductive'
<1> SUFFICES ASSUME Inductive, [Next]_vars PROVE Inductive'
  OBVIOUS
<1> USE DEF Step, Done, ThenCommit
<1>0. /\ manifest = [status |-> manifest.status, entries |-> Entries]
      /\ DOMAIN Entries \subseteq Artifacts
  BY DEF Inductive
<1>1. CASE Backfill
  BY <1>1, AfterIs, EarlyNodes DEF Backfill, MetricsDone
<1>2. CASE EvidenceGate
  BY <1>2, AfterIs, EarlyNodes DEF EvidenceGate, MetricsDone
<1>3. CASE Research
  BY <1>3, AfterIs, EarlyNodes DEF Research, MetricsDone
<1>4. CASE NormalizeEvidence
  BY <1>4, AfterIs, EarlyNodes DEF NormalizeEvidence, MetricsDone
<1>5. CASE Analyze
  BY <1>5, AfterIs, EarlyNodes DEF Analyze, MetricsDone
<1>6. CASE BuildCanonicalMetrics
  <2>1. /\ node = "build_canonical_metrics" /\ node' = node /\ phase' = "commit"
        /\ UNCHANGED manifest
    BY <1>6 DEF BuildCanonicalMetrics
  <2>2. PICK peers, analysis, claims :
          file' = Put(Put(Put(file, "canonical_metrics",
                              [analysis |-> analysis, evidence |-> Records]), "claims", claims),
                      "evidence", Evidence(Records, peers))
    BY <1>6 DEF BuildCanonicalMetrics
  <2>3. /\ {"evidence", "canonical_metrics", "claims"} \subseteq DOMAIN file'
        /\ file'["evidence"] = Evidence(Records, peers)
        /\ file'["canonical_metrics"].evidence = Records
    BY <2>2 DEF Put
  <2>4. Records' = Records /\ Peers' = peers
    BY <2>3 DEF Records, Peers, Evidence
  <2> QED BY <1>0, <2>1, <2>3, <2>4 DEF Inductive, EntriesInStep, FilesToCommit, EvidenceGrows, PacksAreCurrent, ReportIsCurrent,
        ValidatedNow, Validated, Entries, At, MetricsDone, PacksDone, ReportDone
<1>7. CASE PrepareWrite
  <2>1. /\ node = "prepare_write" /\ node' \in {node, "build_section_evidence_packs"}
        /\ phase = "work" /\ phase' = phase /\ UNCHANGED manifest
    BY <1>7, AfterIs DEF PrepareWrite, Inductive
  <2>2. PICK attached \in SUBSET Batches : file' = Put(file, "evidence", Enriched(attached))
    BY <1>7 DEF PrepareWrite
  <2>3. EntriesInStep' /\ FilesToCommit' /\ EvidenceGrows'
    BY <2>1, <2>2, GrowthKeeps DEF Inductive, MetricsDone, PacksDone, ReportDone
  <2> QED BY <1>0, <2>1, <2>3 DEF Inductive, PacksAreCurrent, ReportIsCurrent, ValidatedNow,
        Validated, Entries, At, PacksDone, ReportDone
<1>8. CASE BuildSectionEvidencePacks
  <2>1. /\ node = "build_section_evidence_packs" /\ node' = node
        /\ phase' = "commit" /\ UNCHANGED manifest
    BY <1>8 DEF BuildSectionEvidencePacks
  <2>2. InStep("evidence") /\ InStep("canonical_metrics") /\ "claims" \in DOMAIN file
    BY <2>1 DEF Inductive, EntriesInStep, FilesToCommit, MetricsDone
  <2>3. PICK pack : /\ file' = Put(file, "section_evidence_packs", pack)
                    /\ \A a \in {"evidence", "canonical_metrics", "claims"} : pack[a] = file[a]
    BY <1>8 DEF BuildSectionEvidencePacks
  <2>4. /\ {"evidence", "canonical_metrics", "claims", "section_evidence_packs"} \subseteq DOMAIN file'
        /\ file'["section_evidence_packs"] = pack
        /\ \A a \in {"evidence", "canonical_metrics", "claims"} : file'[a] = file[a]
    BY <2>2, <2>3 DEF Put, InStep, Holds
  <2>5. InStep("evidence")' /\ InStep("canonical_metrics")'
    BY <2>1, <2>2, <2>3, PutKeeps DEF InStep, Entries
  <2>6. Records' = Records /\ Peers' = Peers /\ Committed' = Committed
    BY <2>1, <2>2, <2>4 DEF Records, Peers, Committed, Entries, InStep, Holds
  <2>7. file["evidence"] = Evidence(Records, Peers) /\ Committed.records \subseteq Records
    BY <2>1 DEF Inductive, EvidenceGrows, MetricsDone, Evidence
  <2>8. EvidenceGrows'
    BY <2>1, <2>4, <2>6, <2>7, EvidenceGrowsOn DEF Inductive, MetricsDone
  <2>9. PacksAreCurrent'
    BY <2>3, <2>4, <2>6, <2>7 DEF PacksAreCurrent
  <2> QED BY <1>0, <2>1, <2>4, <2>5, <2>8, <2>9 DEF Inductive, EntriesInStep, FilesToCommit,
        ReportIsCurrent, ValidatedNow, Validated, Entries, At, MetricsDone, PacksDone, ReportDone
<1>9. CASE WriteReport
  <2>1. /\ node = "write_report" /\ node' = node
        /\ phase' = "commit" /\ UNCHANGED manifest
    BY <1>9 DEF WriteReport
  <2>2. PICK attached \in SUBSET Batches, draft \in Drafts :
          WriteFiles(Enriched(attached), draft)
    BY <1>9 DEF WriteReport
  <2>3. /\ \A a \in {"evidence", "canonical_metrics", "claims", "section_evidence_packs"} :
             InStep(a)
        /\ "claims" \in DOMAIN file
    BY <2>1 DEF Inductive, EntriesInStep, FilesToCommit, MetricsDone, PacksDone
  <2> DEFINE evidence == Enriched(attached)
             grown == Put(file, "evidence", evidence)
             cited == Put(grown, "citations", Cited(evidence, draft))
  <2>4. file' = Put(cited, "report", Written(evidence, draft))
    BY <2>2 DEF WriteFiles
  <2>5. /\ {"report", "citations", "evidence"} \cup DOMAIN file \subseteq DOMAIN file'
        /\ \A a \in {"canonical_metrics", "claims", "section_evidence_packs"} : file'[a] = file[a]
        /\ file'["evidence"] = evidence
        /\ file'["report"] = Written(evidence, draft)
    BY <2>3, <2>4 DEF Put, InStep, Holds
  <2>6. Records' = Records \cup attached /\ Peers' = Peers
    <3>1. /\ file'["evidence"].records = Records \cup attached
          /\ file'["evidence"].peers = Peers
      BY <2>5 DEF Enriched, Evidence
    <3>2. "evidence" \in DOMAIN file'
      BY <2>5
    <3>3. Records' = file'["evidence"].records /\ Peers' = file'["evidence"].peers
      BY <3>2 DEF Records, Peers
    <3> QED BY <3>1, <3>3
  <2>7. \A a \in {"evidence", "canonical_metrics", "claims", "section_evidence_packs"} :
          InStep(a)'
    <3> SUFFICES ASSUME NEW a \in {"evidence", "canonical_metrics", "claims", "section_evidence_packs"}
                 PROVE  InStep(a)'
      OBVIOUS
    <3>1. Holds(grown, Entries, a)
      BY <2>3, PutKeeps DEF InStep
    <3>2. Holds(cited, Entries, a)
      BY <3>1, PutKeeps
    <3> QED BY <2>1, <2>4, <3>2, PutKeeps DEF InStep, Entries
  <2>8. file'["report"] = Written(file["evidence"], draft)'
    BY <2>5 DEF Written
  <2>9. EvidenceGrows' /\ PacksAreCurrent'
    <3>1. file'["evidence"] = Evidence(Records', Peers')
      BY <2>5, <2>6 DEF Enriched
    <3>2. "section_evidence_packs" \in DOMAIN file'
      BY <2>3, <2>5 DEF InStep, Holds
    <3>3. Inductive
      OBVIOUS
    <3>4. EvidenceGrows'
      BY <2>1, <2>5, <2>6, <3>1, EvidenceGrowsOn DEF Inductive, MetricsDone
    <3>5. PacksAreCurrent'
      BY <2>1, <2>5, <2>6, <3>2, PacksStayCurrent DEF Inductive, PacksDone
    <3> QED BY <3>4, <3>5
  <2> QED BY <1>0, <2>1, <2>3, <2>5, <2>7, <2>8, <2>9 DEF Inductive, EntriesInStep, FilesToCommit,
        ReportIsCurrent, ValidatedNow, Validated, Entries, At, MetricsDone, PacksDone, ReportDone
<1>10. CASE VerifySections
  <2>1. /\ node = "verify_sections" /\ node' \in {node, "repair_failed_sections"}
        /\ phase = "work" /\ phase' = phase /\ UNCHANGED manifest
    BY <1>10, AfterIs DEF VerifySections
  <2>2. file' = Put(file, "section_verification", VerifiedOn(file["report"]))
    BY <1>10 DEF VerifySections
  <2> QED BY <2>1, <2>2, JudgedKeeps
<1>11. CASE RepairFailedSections
  <2>1. /\ node = "repair_failed_sections" /\ node' = node
        /\ phase' = "commit" /\ UNCHANGED manifest
    BY <1>11 DEF RepairFailedSections
  <2>2. PICK old \in Drafts : file["report"] = Written(file["evidence"], old)
    BY <2>1 DEF Inductive, ReportIsCurrent, ReportDone
  <2>3. PICK draft \in Drafts :
          file' = Put(Put(file, "report", [file["report"] EXCEPT !.draft = draft]),
                      "section_verification", VerifiedOn([file["report"] EXCEPT !.draft = draft]))
    BY <1>11, <2>2 DEF RepairFailedSections, Written
  <2>4. [file["report"] EXCEPT !.draft = draft] = Written(file["evidence"], draft)
    BY <2>2 DEF Written
  <2>5. PICK c : file' = Put(Put(file, "report", Written(file["evidence"], draft)),
                             "section_verification", c)
    BY <2>3, <2>4
  <2> QED BY <2>1, <2>5, RepairKeeps
<1>12. CASE Quality
  <2>1. /\ node = "quality" /\ node' \in {node, "done"} /\ phase = "work" /\ phase' = phase
        /\ UNCHANGED file /\ Entries' = Entries /\ manifest'.status = Status(file, Entries)
        /\ manifest' = [status |-> manifest'.status, entries |-> Entries']
    BY <1>12, <1>0, AfterIs DEF Quality, Entries
  <2>2. /\ Records' = Records /\ Peers' = Peers /\ Committed' = Committed
        /\ \A a : InStep(a)' = InStep(a)
        /\ \A draft : Written(file["evidence"], draft)' = Written(file["evidence"], draft)
    BY <2>1 DEF Records, Peers, Committed, InStep, Written
  <2> QED BY <1>0, <2>1, <2>2 DEF Inductive, EntriesInStep, FilesToCommit, EvidenceGrows,
        PacksAreCurrent, ReportIsCurrent, ValidatedNow, Validated, Entries, At, MetricsDone, PacksDone,
        ReportDone
<1>13. CASE CommitArtifacts
  BY <1>13, CommitInductive
<1>14. CASE PhaseDies
  <2>1. CASE node \in {"normalize_evidence", "analyze"}
    BY <1>14, <2>1, EarlyNodes DEF PhaseDies, MetricsDone
  <2>2. CASE node \in {"prepare_write", "write_report"}
    <3>1. /\ node' = node /\ phase = "work" /\ phase' = phase /\ UNCHANGED manifest
          /\ node \in MetricsDone /\ node \notin ReportDone
      BY <1>14, <2>2 DEF PhaseDies, MetricsDone, ReportDone
    <3>2. PICK attached \in SUBSET Batches : file' = Put(file, "evidence", Enriched(attached))
      BY <1>14 DEF PhaseDies
    <3>3. EntriesInStep' /\ FilesToCommit' /\ EvidenceGrows' /\ PacksAreCurrent'
      BY <3>1, <3>2, GrowthKeeps
    <3> QED BY <1>0, <2>2, <3>1, <3>3 DEF Inductive, ReportIsCurrent, ValidatedNow, Validated,
          Entries, At, ReportDone
  <2> QED BY <1>14, <2>1, <2>2 DEF PhaseDies
<1>15. CASE DieBeforeCommit
  <2>1. /\ Records' = Records /\ Peers' = Peers /\ Committed' = Committed
        /\ \A a : InStep(a)' = InStep(a) /\ Entries' = Entries
        /\ \A draft : Written(file["evidence"], draft)' = Written(file["evidence"], draft)
    BY <1>15 DEF DieBeforeCommit, Records, Peers, Committed, Entries, InStep, Written
  <2> QED BY <1>0, <1>15, <2>1 DEF DieBeforeCommit, Inductive, EntriesInStep, FilesToCommit, EvidenceGrows,
        PacksAreCurrent, ReportIsCurrent, ValidatedNow, Validated, Entries, At, MetricsDone, PacksDone,
        ReportDone
<1>16. CASE RunAgain
  BY <1>16, EarlyNodes DEF RunAgain, FirstNode, NodeOrder, MetricsDone
<1>17. CASE UNCHANGED vars
  <2>1. /\ Records' = Records /\ Peers' = Peers /\ Committed' = Committed
        /\ \A a : InStep(a)' = InStep(a) /\ Entries' = Entries
        /\ \A draft : Written(file["evidence"], draft)' = Written(file["evidence"], draft)
    BY <1>17 DEF vars, Records, Peers, Committed, Entries, InStep, Written
  <2> QED BY <1>0, <1>17, <2>1 DEF vars, Inductive, EntriesInStep, FilesToCommit, EvidenceGrows,
        PacksAreCurrent, ReportIsCurrent, ValidatedNow, Validated, Entries, At, MetricsDone, PacksDone,
        ReportDone
<1> QED BY <1>1, <1>2, <1>3, <1>4, <1>5, <1>6, <1>7, <1>8, <1>9, <1>10, <1>11, <1>12, <1>13,
      <1>14, <1>15, <1>16, <1>17 DEF Next

\* Each artifact is committed after those it was made from, through every
\* retry, crash and new run, and the evidence only grows between its commit and
\* the validation.
THEOREM ArtifactsStayInStep == Spec => []Inductive
<1> QED BY InitInductive, NextInductive, PTL DEF Spec

(***************************************************************************)
(* What follows.                                                           *)
(***************************************************************************)

\* At the end every entry of the manifest holds, and its status was computed
\* on the files and entries as they are.
LEMMA AllHold ==
  ASSUME Inductive, Validated
  PROVE  /\ \A a \in Artifacts : InStep(a)
         /\ manifest.status = Status(file, Entries)
BY DEF Inductive, Validated, EntriesInStep, ValidatedNow, Artifacts, MetricsDone, PacksDone,
       ReportDone

\* No run that reaches its end finds its own manifest stale, unless evidence.json
\* was rewritten with new records after its commit: every node commits what it
\* made after what that was made from.
THEOREM ValidationNeverCriesWolf == Spec => []NoFalseAlarm
<1>1. ASSUME Inductive PROVE NoFalseAlarm
  BY <1>1, AllHold, HoldsIsReady DEF NoFalseAlarm, InStep, Inductive, Committed
<1> QED BY <1>1, ArtifactsStayInStep, PTL

\* At the end of every run the report is made from the evidence, metrics,
\* claims and section packs on disk: the writer is never skipped, and the
\* nodes after it do not touch its inputs.
THEOREM ReportIsMadeFromItsInputs == Spec => []ReportReadItsInputs
<1>1. ASSUME Inductive PROVE ReportReadItsInputs
  BY <1>1 DEF Inductive, ReportReadItsInputs, ReportIsCurrent, Validated, ReportDone, Written
<1> QED BY <1>1, ArtifactsStayInStep, PTL

\* A manifest found ready vouches for the metrics and the section packs: the
\* evidence that grows between the moments they were made can only have come
\* back to the committed one by not growing at all.
THEOREM ReadyMeansConsistent == Spec => []ReadyIsConsistent
<1>1. ASSUME Inductive, Validated, manifest.status = "ready"
      PROVE  /\ file["canonical_metrics"].evidence = Records
             /\ \A a \in {"evidence", "canonical_metrics", "claims"} :
                  file["section_evidence_packs"][a] = file[a]
  <2>1. InStep("evidence") /\ Status(file, Entries) = "ready"
    BY <1>1, AllHold DEF Artifacts
  <2>2. file["evidence"] = Committed
    BY <2>1, ReadyIsCommitted DEF InStep, Holds, Committed
  <2>3. node \in MetricsDone /\ node \in PacksDone
    BY <1>1 DEF Validated, MetricsDone, PacksDone
  <2>4. /\ file["evidence"] = Evidence(Records, Peers)
        /\ file["canonical_metrics"].evidence = Records
    <3>1. PICK records \in SUBSET Records : /\ Committed = Evidence(records, Peers)
                                            /\ file["canonical_metrics"].evidence = records
      BY <1>1, <2>3 DEF Inductive, EvidenceGrows
    <3>2. file["evidence"] = Evidence(Records, Peers)
      BY <1>1, <2>3 DEF Inductive, EvidenceGrows
    <3> QED BY <2>2, <3>1, <3>2 DEF Evidence
  <2>5. PICK records \in SUBSET Records :
          /\ Committed.records \subseteq records
          /\ file["section_evidence_packs"].evidence = Evidence(records, Peers)
    BY <1>1, <2>3 DEF Inductive, PacksAreCurrent
  <2>6. records = Records
    <3>1. Committed.records = Records
      BY <2>2, <2>4 DEF Evidence
    <3> QED BY <2>5, <3>1
  <2>7. file["section_evidence_packs"]["evidence"] = file["evidence"]
    BY <2>4, <2>5, <2>6
  <2>8. \A a \in {"canonical_metrics", "claims"} : file["section_evidence_packs"][a] = file[a]
    BY <1>1, <2>3 DEF Inductive, PacksAreCurrent
  <2> QED BY <2>4, <2>7, <2>8
<1>2. ASSUME Inductive PROVE ReadyIsConsistent
  BY <1>1, <1>2 DEF ReadyIsConsistent
<1> QED BY <1>2, ArtifactsStayInStep, PTL

(***************************************************************************)
(* Types.                                                                  *)
(***************************************************************************)
Types == Inductive /\ TypeOK

\* Writing an artifact leaves artifacts, and those there were.
LEMMA PutType ==
  ASSUME NEW f, NEW a \in Artifacts, NEW c, DOMAIN f \subseteq Artifacts
  PROVE  DOMAIN Put(f, a, c) \subseteq Artifacts /\ DOMAIN f \subseteq DOMAIN Put(f, a, c)
BY DEF Put

\* A commit adds entries of files that are there.
LEMMA CommitType ==
  ASSUME NEW f, NEW e, NEW names, DOMAIN e \subseteq DOMAIN f
  PROVE  DOMAIN Commit(f, e, names) \subseteq DOMAIN f
BY DEF Commit, CommitOne

\* Every action keeps the types, and no artifact is ever without its file once
\* it is in the manifest.
LEMMA NextTypes == Types /\ [Next]_vars => TypeOK'
<1> SUFFICES ASSUME Types, [Next]_vars PROVE TypeOK'
  OBVIOUS
<1> DEFINE Places == {NodeOrder[i] : i \in 1..Len(NodeOrder)} \cup {"blocked"}
<1>a. Places = {"official_evidence_backfill", "evidence", "research", "normalize_evidence",
               "analyze", "build_canonical_metrics", "prepare_write",
               "build_section_evidence_packs", "write_report", "verify_sections",
               "repair_failed_sections", "quality", "done", "blocked"}
  <2>1. Len(NodeOrder) = 13
    BY DEF NodeOrder
  <2>2. \A i \in 1..13 : i = 1 \/ i = 2 \/ i = 3 \/ i = 4 \/ i = 5 \/ i = 6 \/ i = 7 \/ i = 8
          \/ i = 9 \/ i = 10 \/ i = 11 \/ i = 12 \/ i = 13
    OBVIOUS
  <2> QED BY <2>1, <2>2 DEF NodeOrder
<1>b. /\ DOMAIN Entries \subseteq DOMAIN file /\ DOMAIN file \subseteq Artifacts
      /\ memo \in [done  : SUBSET {"research", "normalize_evidence", "analyze", "prepare_write"},
                   found : SUBSET Batches]
      /\ manifest.status \in {"none", "ready", "stale"}
      /\ node \in Places /\ phase \in {"work", "commit"} /\ runs \in 1..MaxRuns
      /\ manifest = [status |-> manifest.status, entries |-> Entries]
  BY DEF Types, TypeOK, Inductive
<1>c. ASSUME DOMAIN file \subseteq DOMAIN file', DOMAIN file' \subseteq Artifacts,
             memo' \in [done  : SUBSET {"research", "normalize_evidence", "analyze", "prepare_write"},
                        found : SUBSET Batches],
             UNCHANGED manifest, node' \in Places, phase' \in {"work", "commit"},
             runs' \in 1..MaxRuns
      PROVE  TypeOK'
  BY <1>b, <1>c DEF TypeOK, Entries
<1> HIDE DEF Places
<1> USE DEF Step, Done, ThenCommit, Remember
<1>1. CASE Backfill
  <2>1. DOMAIN file \subseteq DOMAIN file' /\ DOMAIN file' \subseteq Artifacts
    BY <1>1, <1>b, PutType DEF Backfill, Artifacts
  <2> QED BY <1>1, <1>a, <1>b, <1>c, <2>1, AfterIs DEF Backfill
<1>2. CASE EvidenceGate
  BY <1>2, <1>a, <1>b, <1>c, AfterIs DEF EvidenceGate
<1>3. CASE Research
  BY <1>3, <1>a, <1>b, <1>c, AfterIs DEF Research
<1>4. CASE NormalizeEvidence
  <2>1. DOMAIN file \subseteq DOMAIN file' /\ DOMAIN file' \subseteq Artifacts
    BY <1>4, <1>b, PutType DEF NormalizeEvidence, Artifacts
  <2> QED BY <1>4, <1>a, <1>b, <1>c, <2>1, AfterIs DEF NormalizeEvidence
<1>5. CASE Analyze
  <2>1. DOMAIN file \subseteq DOMAIN file' /\ DOMAIN file' \subseteq Artifacts
    BY <1>5, <1>b DEF Analyze, Artifacts, Put
  <2> QED BY <1>5, <1>a, <1>b, <1>c, <2>1, AfterIs DEF Analyze
<1>6. CASE BuildCanonicalMetrics
  <2>1. DOMAIN file \subseteq DOMAIN file' /\ DOMAIN file' \subseteq Artifacts
    BY <1>6, <1>b DEF BuildCanonicalMetrics, Artifacts, Put
  <2> QED BY <1>6, <1>b, <1>c, <2>1 DEF BuildCanonicalMetrics
<1>7. CASE PrepareWrite
  <2>1. DOMAIN file \subseteq DOMAIN file' /\ DOMAIN file' \subseteq Artifacts
    BY <1>7, <1>b, PutType DEF PrepareWrite, Artifacts
  <2> QED BY <1>7, <1>a, <1>b, <1>c, <2>1, AfterIs DEF PrepareWrite
<1>8. CASE BuildSectionEvidencePacks
  <2>1. DOMAIN file \subseteq DOMAIN file' /\ DOMAIN file' \subseteq Artifacts
    BY <1>8, <1>b, PutType DEF BuildSectionEvidencePacks, Artifacts
  <2> QED BY <1>8, <1>b, <1>c, <2>1 DEF BuildSectionEvidencePacks
<1>9. CASE WriteReport
  <2>1. DOMAIN file \subseteq DOMAIN file' /\ DOMAIN file' \subseteq Artifacts
    BY <1>9, <1>b DEF WriteReport, WriteFiles, Artifacts, Put
  <2> QED BY <1>9, <1>b, <1>c, <2>1 DEF WriteReport
<1>10. CASE VerifySections
  <2>1. DOMAIN file \subseteq DOMAIN file' /\ DOMAIN file' \subseteq Artifacts
    BY <1>10, <1>b, PutType DEF VerifySections, Artifacts
  <2> QED BY <1>10, <1>a, <1>b, <1>c, <2>1, AfterIs DEF VerifySections
<1>11. CASE RepairFailedSections
  <2>1. PICK c, d : file' = Put(Put(file, "report", c), "section_verification", d)
    BY <1>11 DEF RepairFailedSections
  <2>2. DOMAIN file \subseteq DOMAIN file' /\ DOMAIN file' \subseteq Artifacts
    BY <1>b, <2>1 DEF Artifacts, Put
  <2> QED BY <1>11, <1>b, <1>c, <2>2 DEF RepairFailedSections
<1>12. CASE Quality
  <2>1. /\ UNCHANGED <<file, memo, phase, runs>> /\ Entries' = Entries
        /\ manifest'.status = Status(file, Entries) /\ node' \in Places
    BY <1>12, <1>a, <1>b, AfterIs DEF Quality, Entries
  <2>2. manifest'.status \in {"ready", "stale"}
    BY <2>1 DEF Status
  <2> QED BY <1>b, <2>1, <2>2 DEF TypeOK, Places
<1>13. CASE CommitArtifacts
  <2>1. /\ UNCHANGED <<file, memo, runs>> /\ phase' = "work" /\ manifest'.status = "ready"
        /\ Entries' = Commit(file, Entries, CommitsOf(node))
    BY <1>13 DEF CommitArtifacts, Entries
  <2>2. node' \in Places
    <3>1. node \in {"build_canonical_metrics", "build_section_evidence_packs",
                   "write_report", "repair_failed_sections"}
      BY <1>13 DEF CommitArtifacts, Types, Inductive
    <3> QED BY <1>13, <1>a, <3>1, AfterIs DEF CommitArtifacts
  <2>3. DOMAIN Entries' \subseteq DOMAIN file
    BY <1>b, <2>1, CommitType
  <2> QED BY <1>b, <2>1, <2>2, <2>3 DEF TypeOK, Places
<1>14. CASE PhaseDies
  <2>1. DOMAIN file \subseteq DOMAIN file' /\ DOMAIN file' \subseteq Artifacts
    BY <1>14, <1>b, PutType DEF PhaseDies, Artifacts
  <2> QED BY <1>14, <1>b, <1>c, <2>1 DEF PhaseDies
<1>15. CASE DieBeforeCommit
  BY <1>15, <1>b, <1>c DEF DieBeforeCommit
<1>16. CASE RunAgain
  <2>1. runs' \in 1..MaxRuns
    BY <1>16, <1>b, MaxRunsAssumption DEF RunAgain
  <2>2. node' \in Places
    BY <1>16, <1>a DEF RunAgain, FirstNode, NodeOrder
  <2> QED BY <1>16, <1>b, <1>c, <2>1, <2>2 DEF RunAgain
<1>17. CASE UNCHANGED vars
  BY <1>17, <1>b, <1>c DEF vars
<1> QED BY <1>1, <1>2, <1>3, <1>4, <1>5, <1>6, <1>7, <1>8, <1>9, <1>10, <1>11, <1>12, <1>13,
      <1>14, <1>15, <1>16, <1>17 DEF Next

\* Every reachable state is well typed, and the manifest never names an
\* artifact whose file is not there.
THEOREM TypeCorrect == Spec => []TypeOK
<1>1. Init => Types
  <2>1. FirstNode = NodeOrder[1] /\ Len(NodeOrder) = 13
    BY DEF FirstNode, NodeOrder
  <2>2. FirstNode \in {NodeOrder[i] : i \in 1..Len(NodeOrder)}
    BY <2>1
  <2> QED BY <2>2, InitInductive, MaxRunsAssumption
      DEF Types, Init, TypeOK, Entries, NoEntries, NoFiles
<1>2. Types /\ [Next]_vars => Types'
  BY NextInductive, NextTypes DEF Types
<1>3. Types => TypeOK
  BY DEF Types
<1> QED BY <1>1, <1>2, <1>3, PTL DEF Spec
=============================================================================
