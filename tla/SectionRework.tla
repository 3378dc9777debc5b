---------------------------- MODULE SectionRework ----------------------------
(***************************************************************************)
(* The end of a run of the report graph, and the next run of the same      *)
(* task in the same directory: write, verify_sections,                     *)
(* repair_failed_sections, quality (src/services/report_task_service.py).  *)
(* The sections are verified against the plan an earlier run left; failed  *)
(* ones are rewritten by the model, at most twice each, or else by rule;   *)
(* the gate decides whether the report is delivered; the plan says what a  *)
(* later run has to repair.                                                *)
(*                                                                         *)
(* No run removes a file of an earlier one: what is not written again is   *)
(* what the next run reads.  A run may break off at any node and a new one *)
(* start.                                                                  *)
(***************************************************************************)
EXTENDS SectionContract, Naturals

CONSTANTS
  Drafts,    \* reports the writer may leave: section -> body
  Demands,   \* evidence packs (section -> pack) and contracts of a run
  Rewrites,  \* bodies a rewrite may return
  Reviews    \* what the reviewers may say

ASSUME ReworkAssumption ==
  /\ Drafts \subseteq [Sections -> Bodies] /\ Demands \subseteq [pack : [Sections -> PackOf], contracts : ContractsOf]
  /\ Rewrites \subseteq Body /\ Reviews \subseteq Review

VARIABLES
  node,          \* where the run is
  report,        \* report.md
  pack,          \* section_evidence_packs.json
  contracts,     \* report_section_contracts.json
  verification,  \* section_verification.json
  unrepaired,    \* failed_sections_after in section_repair.json
  repair,        \* the repair in progress, and whether this run has ended one
  review,        \* verification_report, quality_report, llm_quality_review
  gate,          \* delivery_gate.json
  plan           \* failed_sections in quality_remediation_plan.json

files == <<report, pack, contracts, verification, unrepaired, review, gate, plan>>
vars == <<files, node, repair>>

NoVerification == [failing |-> {}, using |-> {}, pending |-> {}]
Idle == [targets |-> {}, todo |-> {}, attempt |-> 1, changed |-> FALSE, ran |-> FALSE]
NoReview ==
  [verifier |-> FALSE, objective |-> FALSE, llm |-> FALSE, score |-> "low", blockers |-> {}, remarks |-> {}]

\* The first run finds no files.
Init ==
  /\ node = "write" /\ repair = Idle
  /\ report = [s \in Sections |-> Absent]
  /\ pack = [s \in Sections |-> [must |-> {}, supported |-> TRUE, fit |-> TRUE]]
  /\ contracts = [blockers |-> {}, gaps |-> {}]
  /\ verification = NoVerification
  /\ unrepaired = {} /\ review = NoReview
  /\ gate = [pass |-> FALSE, issues |-> {}] /\ plan = {}

-----------------------------------------------------------------------------
(***************************************************************************)
(* Writing, verifying, repairing                                           *)
(***************************************************************************)
\* Of the old verification nothing is read any more, of the old review and gate
\* files only what the repair looks for: the rest is forgotten here, to have
\* fewer states.
ForgetUnread ==
  /\ verification' = NoVerification
  /\ review' = [NoReview EXCEPT !.remarks = Feedback(review, gate)]
  /\ gate' = [pass |-> FALSE, issues |-> {}]

Write ==
  /\ node = "write" /\ node' = "verify"
  /\ report' \in Drafts
  /\ \E d \in Demands : pack' = d.pack /\ contracts' = d.contracts
  /\ ForgetUnread
  /\ UNCHANGED <<unrepaired, plan, repair>>

\* verify_sections, and the second verification at the end of the repair node.
Verify ==
  /\ node \in {"verify", "reverify"}
  /\ node' = IF node = "verify" THEN "repair" ELSE "review"
  /\ verification' = Verified(report, pack, contracts, plan)
  /\ UNCHANGED <<report, pack, contracts, unrepaired, review, gate, plan, repair>>

FailedNames == verification.failing \cup verification.pending \cup Feedback(review, gate)

Targets == SectionsOf(FailedNames)

\* Names of no core section (peer_comparison, sensitivity) start a repair too.
\* withModel: there is a model to ask.  A section whose heading is missing is not
\* asked for.
StartRepair ==
  /\ node = "repair"
  /\ IF FailedNames # {}
     THEN /\ node' = "rewrite"
          /\ \E withModel \in BOOLEAN :
               repair' = [Idle EXCEPT !.targets = Targets,
                            !.todo = IF withModel THEN {s \in Targets : report[s] # Absent} ELSE {}]
     ELSE node' = "reverify" /\ UNCHANGED repair
  /\ UNCHANGED files

\* Sections are repaired in the order of their names; none sees another.
Current == CHOOSE s \in repair.todo : TRUE

\* If a rewrite cites none of the evidence it must use, the first is appended.
Cited(body, must) ==
  IF must # {} /\ body.cites \cap must = {}
  THEN [body EXCEPT !.cites = @ \cup {CHOOSE e \in must : TRUE}] ELSE body

\* A bug: a section is asked for until it passes.
AfterAttemptForever(passed, changed) ==
  repair' = IF passed THEN [repair EXCEPT !.todo = @ \ {Current}, !.attempt = 1, !.changed = changed]
            ELSE [repair EXCEPT !.changed = changed]

AfterAttempt(passed, changed) ==
  repair' = IF passed \/ repair.attempt = 2
            THEN [repair EXCEPT !.todo = @ \ {Current}, !.attempt = 1, !.changed = changed]
            ELSE [repair EXCEPT !.attempt = 2, !.changed = changed]

\* The model's body replaces the section whether or not it passes.  (A body that
\* repeats the old one word for word leaves the report unchanged.)
Rewrite ==
  /\ node = "rewrite" /\ repair.todo # {}
  /\ \E b \in Rewrites :
       LET body == Cited(b, pack[Current].must)
       IN \E changed \in {TRUE} \cup IF body = report[Current] THEN {repair.changed} ELSE {} :
            /\ report' = [report EXCEPT ![Current] = body]
            /\ AfterAttempt(Passes(Current, body, pack[Current], contracts), changed)
  /\ UNCHANGED <<pack, contracts, verification, unrepaired, review, gate, plan, node>>

\* The answer is empty, or the call raises.
NoAnswer ==
  /\ node = "rewrite" /\ repair.todo # {}
  /\ AfterAttempt(FALSE, repair.changed)
  /\ UNCHANGED <<files, node>>

\* If the model changed nothing, the targets are rewritten by rule; the other
\* sections are put back as they were.
ByRule ==
  /\ node = "rewrite" /\ repair.todo = {}
  /\ node' = "clean"
  /\ IF repair.changed THEN UNCHANGED <<report, repair>>
     ELSE \E new \in [repair.targets -> Rewrites \cup {Absent}] :
            LET by == [s \in Sections |->
                         IF s \in repair.targets /\ new[s] # Absent THEN new[s] ELSE report[s]]
            IN report' = by /\ repair' = [repair EXCEPT !.changed = by # report]
  /\ UNCHANGED <<pack, contracts, verification, unrepaired, review, gate, plan>>

\* A bug: the sections are verified before the text is cleaned.
VerifiedBeforeCleaning(cleaned) == Verified(report, pack, contracts, {})

VerifiedCleaned(cleaned) == Verified(cleaned, pack, contracts, {})

\* The whole text is cleaned of debris, which may leave a section too short;
\* then it is verified, without the plan, and the outcome recorded.
CleanUp ==
  /\ node = "clean" /\ node' = "reverify"
  /\ \E cut \in SUBSET Sections :
       LET cleaned == [s \in Sections |->
                         IF s \in cut /\ report[s] # Absent THEN [report[s] EXCEPT !.sound = FALSE]
                         ELSE report[s]]
       IN /\ report' = cleaned
          /\ verification' = VerifiedCleaned(cleaned)
          /\ unrepaired' = VerifiedCleaned(cleaned).failing
  /\ repair' = [Idle EXCEPT !.ran = TRUE]
  /\ UNCHANGED <<pack, contracts, review, gate, plan>>

-----------------------------------------------------------------------------
(***************************************************************************)
(* Quality, and the next run                                               *)
(***************************************************************************)
ReviewReport ==
  /\ node = "review" /\ node' = "gate"
  /\ review' \in Reviews
  /\ UNCHANGED <<report, pack, contracts, verification, unrepaired, gate, plan, repair>>

PassGate ==
  /\ node = "gate" /\ node' = "plan"
  /\ gate' = Gate(verification, pack, contracts, unrepaired, review)
  /\ UNCHANGED <<report, pack, contracts, verification, unrepaired, review, plan, repair>>

WritePlan ==
  /\ node = "plan" /\ node' = "ended"
  /\ plan' = Plan(gate)
  /\ UNCHANGED <<report, pack, contracts, verification, unrepaired, review, gate, repair>>

\* A step of the quality pipeline raises: a failed gate without issues is
\* written, the plan stays.
PipelineRaises ==
  /\ node \in {"review", "gate", "plan"} /\ node' = "broken"
  /\ gate' = [pass |-> FALSE, issues |-> {}]
  /\ UNCHANGED <<report, pack, contracts, verification, unrepaired, review, plan, repair>>

\* The run is over, or its process dies; the task is run again.
Rerun ==
  /\ node # "write" /\ node' = "write"
  /\ repair' = Idle
  /\ UNCHANGED files

NodeStep ==
  \/ Write \/ Verify \/ StartRepair \/ Rewrite \/ NoAnswer \/ ByRule \/ CleanUp
  \/ ReviewReport \/ PassGate \/ WritePlan \/ PipelineRaises

Next == NodeStep \/ Rerun

\* A run that is not broken off goes on: every call to the model returns or
\* times out.
Spec == Init /\ [][Next]_vars /\ WF_vars(NodeStep /\ node # "write")

-----------------------------------------------------------------------------
(***************************************************************************)
(* Properties                                                              *)
(***************************************************************************)
Failing == {s \in Sections : ~Passes(s, report[s], pack[s], contracts)}

TypeOK ==
  /\ node \in {"write", "verify", "repair", "rewrite", "clean", "reverify", "review", "gate", "plan",
               "ended", "broken"}
  /\ report \in [Sections -> Bodies] /\ pack \in [Sections -> PackOf] /\ contracts \in ContractsOf
  /\ verification \in [failing : SUBSET Sections, using : SUBSET Sections, pending : SUBSET PlanNames]
  /\ unrepaired \in SUBSET Sections /\ review \in Review /\ plan \in SUBSET PlanNames
  /\ gate.pass \in BOOLEAN /\ \A i \in gate.issues : i.kind \in Kinds
  /\ repair.targets \in SUBSET Sections /\ repair.todo \in SUBSET repair.targets
  /\ repair.attempt \in 1..2 /\ repair.changed \in BOOLEAN /\ repair.ran \in BOOLEAN

\* A report the gate lets through is, as it lies on disk after all rewriting and
\* cleaning, sound in every core section, uses the evidence it must and makes no
\* unsupported claim; no review blocks it; and of the contracts, in which the
\* risks and the conclusion are not found, there is one blocker at most, or all
\* disclose a boundary.
DeliveredIsSound ==
  node \in {"plan", "ended"} /\ gate.pass =>
    /\ Failing = {} /\ review.blockers = {}
    /\ review.verifier /\ review.objective /\ review.llm
    /\ \A a, b \in contracts.blockers : a = b \/ a.boundary

\* A report the gate stops comes with a reason that blocks.
FailureIsExplained ==
  node \in {"plan", "ended"} /\ ~gate.pass => Blocking(gate.issues) # {}

\* When the plan of a run is written, it names every core section that fails its
\* contract, so that the next run repairs it.  (Not the financial analysis: the
\* plan does not find it by its title.)
FailuresAreRouted ==
  node = "ended" => Failing \ {"financial_analysis"} \subseteq SectionsOf(plan)

\* But for the time a repair rewrites the text, the verification is of the text on
\* disk; so is the list of what is left to repair, if this run has repaired.
RepairIsTrue ==
  node \notin {"write", "verify", "rewrite", "clean", "broken"} =>
    /\ verification.failing = Failing
    /\ repair.ran => unrepaired = Failing

\* A run that is not broken off comes to its end: a repair does not go on for ever.
RunEnds == (node = "verify") ~> (node \in {"ended", "broken", "write"})

\* A report is stopped for what is wrong with it: one whose sections all meet
\* their contracts and which every review passes without reserve is delivered.
StoppedForCause ==
  node \in {"plan", "ended"} /\ ~gate.pass =>
    \/ Failing # {} \/ review.blockers # {} \/ contracts.blockers # {}
    \/ ~(review.verifier /\ review.objective /\ review.llm /\ review.score # "low")

\* README.md: a task whose section contracts are not met is a draft.  What is
\* delivered meets its contracts, but for boundaries it discloses.
DeliveredMeetsContracts ==
  node \in {"plan", "ended"} /\ gate.pass => \A b \in contracts.blockers : b.boundary

\* The repair rewrites only sections that do not meet their contract.
PassedSectionsKept ==
  [][\A s \in Sections : Passes(s, report[s], pack[s], contracts) /\ node = "rewrite" => report'[s] = report[s]]_vars
=============================================================================
