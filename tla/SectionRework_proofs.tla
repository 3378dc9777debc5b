-------------------------- MODULE SectionRework_proofs --------------------------
(***************************************************************************)
(* What the end of a run promises for all sections, drafts, evidence       *)
(* packs, rewrites and reviews, in any number of runs over one directory,  *)
(* each of which may break off anywhere.                                   *)
(*                                                                         *)
(* The files of earlier runs stay, so the argument has to say at which     *)
(* nodes a file is of this run: the verification is of the text on disk    *)
(* except while the repair rewrites it, the gate is of the verification    *)
(* and the review once it has been passed, the plan is of the gate once    *)
(* the run has ended.                                                      *)
(***************************************************************************)
EXTENDS SectionRework, FiniteSetTheorems, TLAPS

VerifiedNow ==
  node \in {"repair", "reverify", "review", "gate", "plan", "ended"} =>
    verification = Verified(report, pack, contracts, verification.pending)

GateNow == node \in {"plan", "ended"} => gate = Gate(verification, pack, contracts, unrepaired, review)

PlanNow == node = "ended" => plan = Plan(gate)

RepairedNow ==
  /\ node \in {"write", "verify", "repair"} => ~repair.ran
  /\ node \in {"reverify", "review", "gate", "plan", "ended"} /\ repair.ran => unrepaired = Failing

OfThisRun == VerifiedNow /\ GateNow /\ PlanNow /\ RepairedNow

\* A second look at a verification changes nothing but the names pending.
LEMMA VerifiedFields ==
  ASSUME NEW r, NEW p, NEW c, NEW names
  PROVE  Verified(r, p, c, names) = Verified(r, p, c, Verified(r, p, c, names).pending)
BY DEF Verified

LEMMA OfThisRunInit == Init => OfThisRun
BY DEF Init, OfThisRun, VerifiedNow, GateNow, PlanNow, RepairedNow, Idle

LEMMA OfThisRunStep == OfThisRun /\ [Next]_vars => OfThisRun'
<1> SUFFICES ASSUME OfThisRun, [Next]_vars PROVE OfThisRun'
  OBVIOUS
<1> USE DEF OfThisRun, VerifiedNow, GateNow, PlanNow, RepairedNow, Failing
<1>1. CASE Write
  BY <1>1 DEF Write
<1>2. CASE Verify
  BY <1>2, VerifiedFields DEF Verify
<1>3. CASE StartRepair
  BY <1>3 DEF StartRepair, files
<1>4. CASE Rewrite
  BY <1>4 DEF Rewrite
<1>5. CASE NoAnswer
  BY <1>5 DEF NoAnswer, files
<1>6. CASE ByRule
  BY <1>6 DEF ByRule
<1>7. CASE CleanUp
  <2>1. /\ node' = "reverify" /\ verification' = Verified(report', pack', contracts', {})
        /\ unrepaired' = verification'.failing
    BY <1>7 DEF CleanUp, VerifiedCleaned
  <2>2. verification'.failing = {s \in Sections : ~Passes(s, report'[s], pack'[s], contracts')}
    BY <2>1 DEF Verified
  <2> QED BY <2>1, <2>2, VerifiedFields
<1>8. CASE ReviewReport
  BY <1>8 DEF ReviewReport
<1>9. CASE PassGate
  BY <1>9 DEF PassGate
<1>10. CASE WritePlan
  BY <1>10 DEF WritePlan
<1>11. CASE PipelineRaises
  BY <1>11 DEF PipelineRaises
<1>12. CASE Rerun
  BY <1>12 DEF Rerun, Idle
<1>13. CASE UNCHANGED vars
  BY <1>13 DEF vars, files
<1> QED
  BY <1>1, <1>2, <1>3, <1>4, <1>5, <1>6, <1>7, <1>8, <1>9, <1>10, <1>11, <1>12, <1>13
  DEF Next, NodeStep

LEMMA OfThisRunAlways == Spec => []OfThisRun
BY OfThisRunInit, OfThisRunStep, PTL DEF Spec

-----------------------------------------------------------------------------
(***************************************************************************)
(* The gate, as a function of the files it reads.                          *)
(***************************************************************************)

\* A failing section, and a blocker of a review, is an issue that blocks.
LEMMA IssuesBlock ==
  ASSUME NEW v, NEW p, NEW c, NEW u, NEW r
  PROVE  /\ \A s \in v.failing : [kind |-> "contract", of |-> s] \in Blocking(Gate(v, p, c, u, r).issues)
         /\ \A n \in r.blockers : [kind |-> "review", of |-> n] \in Blocking(Gate(v, p, c, u, r).issues)
         /\ \A n \in Unexplained(r, Collected(v, p, c, u, r)) :
              [kind |-> "requirement", of |-> n] \in Blocking(Gate(v, p, c, u, r).issues)
BY DEF Gate, Collected, Issue, Blocking

\* So are the contracts, unless one blocker stands alone or all disclose a boundary.
LEMMA ContractsBlock ==
  ASSUME NEW v, NEW p, NEW c, NEW u, NEW r, NEW a \in c.blockers, NEW b \in c.blockers,
         a # b, ~(r.objective /\ \A d \in c.blockers : d.boundary)
  PROVE  [kind |-> "terms", of |-> "report"] \in Blocking(Gate(v, p, c, u, r).issues)
<1>1. ContractIssue(c, r.objective) = Issue("terms", {"report"} \cup UNION {d.names : d \in c.blockers})
  BY DEF ContractIssue
<1>2. [kind |-> "terms", of |-> "report"] \in ContractIssue(c, r.objective)
  BY <1>1 DEF Issue
<1> QED BY <1>2 DEF Gate, Collected, Blocking

\* What passes has nothing that blocks, and every reviewer's word.
LEMMA PassedGate ==
  ASSUME NEW v, NEW p, NEW c, NEW u, NEW r, Gate(v, p, c, u, r).pass
  PROVE  /\ v.failing = {} /\ r.blockers = {} /\ r.verifier /\ r.objective /\ r.llm
         /\ \A a, b \in c.blockers : a = b \/ a.boundary
<1>1. /\ Blocking(Gate(v, p, c, u, r).issues) = {} /\ r.verifier /\ r.objective
      /\ LlmPasses(r, Collected(v, p, c, u, r))
  BY DEF Gate
<1>2. \A a, b \in c.blockers : a = b \/ a.boundary
  BY <1>1, ContractsBlock
<1> QED BY <1>1, <1>2, IssuesBlock DEF LlmPasses

\* What does not pass has an issue that blocks.
LEMMA FailedGate ==
  ASSUME NEW v, NEW p, NEW c, NEW u, NEW r, ~Gate(v, p, c, u, r).pass
  PROVE  Blocking(Gate(v, p, c, u, r).issues) # {}
<1>1. CASE r.blockers # {}
  BY <1>1, IssuesBlock
<1>2. CASE r.blockers = {} /\ ~(r.verifier /\ r.objective /\ LlmPasses(r, Collected(v, p, c, u, r)))
  <2>1. Unexplained(r, Collected(v, p, c, u, r)) # {}
    BY <1>2 DEF Unexplained
  <2> QED BY <2>1, IssuesBlock
<1>3. CASE r.verifier /\ r.objective /\ LlmPasses(r, Collected(v, p, c, u, r))
  BY <1>3 DEF Gate
<1> QED BY <1>1, <1>2, <1>3

\* The title of a failing section leads the plan back to it.
LEMMA TitlesLeadBack ==
  ASSUME NEW s \in Sections, s # "financial_analysis", NEW names,
         NamesIn([kind |-> "contract", of |-> s]) \subseteq names
  PROVE  s \in SectionsOf(names)
BY SectionsAssumption DEF NamesIn, SectionsOf, CoreSections

-----------------------------------------------------------------------------
(***************************************************************************)
(* The theorems.                                                           *)
(***************************************************************************)

\* A delivered report is sound on disk in every core section, every reviewer lets
\* it through, and at most one contract is blocked for more than a boundary.
THEOREM DeliveredIsSoundHolds == Spec => []DeliveredIsSound
<1>1. OfThisRun => DeliveredIsSound
  <2> SUFFICES ASSUME OfThisRun, node \in {"plan", "ended"}, gate.pass
               PROVE  /\ Failing = {} /\ review.blockers = {}
                      /\ review.verifier /\ review.objective /\ review.llm
                      /\ \A a, b \in contracts.blockers : a = b \/ a.boundary
    BY DEF DeliveredIsSound
  <2>1. /\ gate = Gate(verification, pack, contracts, unrepaired, review)
        /\ verification = Verified(report, pack, contracts, verification.pending)
    BY DEF OfThisRun, GateNow, VerifiedNow
  <2>2. verification.failing = Failing
    BY <2>1 DEF Verified, Failing
  <2> QED BY <2>1, <2>2, PassedGate
<1> QED BY <1>1, OfThisRunAlways, PTL

\* A report that is stopped has a blocking reason.
THEOREM FailureIsExplainedHolds == Spec => []FailureIsExplained
<1>1. OfThisRun => FailureIsExplained
  BY FailedGate DEF OfThisRun, GateNow, FailureIsExplained
<1> QED BY <1>1, OfThisRunAlways, PTL

\* The plan of a run leads to every failing section but the financial analysis.
THEOREM FailuresAreRoutedHolds == Spec => []FailuresAreRouted
<1>1. OfThisRun => FailuresAreRouted
  <2> SUFFICES ASSUME OfThisRun, node = "ended", NEW s \in Failing \ {"financial_analysis"}
               PROVE  s \in SectionsOf(plan)
    BY DEF FailuresAreRouted
  <2>1. /\ gate = Gate(verification, pack, contracts, unrepaired, review)
        /\ verification = Verified(report, pack, contracts, verification.pending)
        /\ plan = Plan(gate)
    BY DEF OfThisRun, GateNow, VerifiedNow, PlanNow
  <2>2. s \in verification.failing /\ s \in Sections
    BY <2>1 DEF Verified, Failing
  <2> DEFINE issue == [kind |-> "contract", of |-> s]
  <2>3. issue \in Blocking(gate.issues) /\ issue \in gate.issues
    BY <2>1, <2>2, IssuesBlock DEF Blocking
  <2> HIDE DEF issue
  <2>4. NamesIn(issue) \subseteq plan
    BY <2>1, <2>3 DEF Plan
  <2> QED BY <2>2, <2>4, TitlesLeadBack DEF issue
<1> QED BY <1>1, OfThisRunAlways, PTL

-----------------------------------------------------------------------------
(***************************************************************************)
(* Types.  That plans and verifications speak of names the repair knows    *)
(* needs to be known of every issue in the gate file, whichever run wrote  *)
(* it, since the plan is read back from the issues.                        *)
(***************************************************************************)
Others == Sections \cup PlanNames \cup {"report", "verifier", "objective_quality", "llm_review"}

Issues ==
  UNION {[kind : {k}, of : IF k = "contract" THEN Sections
                           ELSE IF k \in {"pending", "review", "remark"} THEN PlanNames
                           ELSE Others] :
           k \in Kinds}

Repairs ==
  [targets : SUBSET Sections, todo : SUBSET Sections, attempt : 1..2, changed : BOOLEAN, ran : BOOLEAN]

Typed ==
  /\ TypeOK
  /\ repair \in Repairs
  /\ gate \in [pass : BOOLEAN, issues : SUBSET Issues]

LEMMA IssuesOf ==
  ASSUME NEW k \in Kinds,
         NEW names \in SUBSET (IF k = "contract" THEN Sections
                              ELSE IF k \in {"pending", "review", "remark"} THEN PlanNames
                              ELSE Others)
  PROVE  Issue(k, names) \subseteq Issues
BY DEF Issue, Issues

\* The names in the wording of an issue are names of the plan.
LEMMA NamesOfIssue ==
  ASSUME NEW i \in Issues
  PROVE  i.kind \in Kinds /\ NamesIn(i) \subseteq PlanNames
<1>1. PICK k \in Kinds :
        i \in [kind : {k}, of : IF k = "contract" THEN Sections
                               ELSE IF k \in {"pending", "review", "remark"} THEN PlanNames
                               ELSE Others]
  BY DEF Issues
<1>2. i.kind = k
  BY <1>1
<1>3. CASE k = "contract"
  <2>1. i.of \in CoreSections
    BY <1>1, <1>3, SectionsAssumption
  <2> QED BY <1>2, <1>3, <2>1 DEF NamesIn, CoreSections, PlanNames
<1>4. CASE k = "pending"
  <2>1. i.of \in PlanNames
    BY <1>1, <1>4
  <2> QED BY <1>2, <1>4, <2>1 DEF NamesIn, PlanNames
<1>5. CASE k \in {"review", "remark"}
  <2>1. i.of \in PlanNames
    BY <1>1, <1>5
  <2> QED BY <1>2, <1>5, <2>1 DEF NamesIn
<1>6. CASE k \notin {"contract", "pending", "review", "remark", "terms", "disclosed"}
  BY <1>2, <1>6 DEF NamesIn
<1>7. CASE k \in {"terms", "disclosed"}
  BY <1>2, <1>7 DEF NamesIn
<1> QED BY <1>2, <1>3, <1>4, <1>5, <1>6, <1>7

\* What the gate makes of typed files.
LEMMA GateTyped ==
  ASSUME TypeOK
  PROVE  Gate(verification, pack, contracts, unrepaired, review) \in [pass : BOOLEAN, issues : SUBSET Issues]
<1>1. /\ verification.failing \subseteq Sections /\ verification.pending \subseteq PlanNames
      /\ review.blockers \subseteq PlanNames /\ review.remarks \subseteq PlanNames
      /\ review.verifier \in BOOLEAN /\ review.objective \in BOOLEAN /\ review.llm \in BOOLEAN
  BY DEF TypeOK, Review
<1> DEFINE collected == Collected(verification, pack, contracts, unrepaired, review)
           missing == Unexplained(review, collected)
<1>2. /\ Issue("contract", verification.failing) \subseteq Issues
      /\ Issue("pending", verification.pending) \subseteq Issues
      /\ Issue("review", review.blockers) \subseteq Issues
      /\ Issue("remark", review.remarks) \subseteq Issues
  BY <1>1, IssuesOf DEF Kinds
<1>3. \A k \in {"support", "consumption", "repair", "requirement", "terms", "disclosed"} : \A names \in SUBSET Others :
        Issue(k, names) \subseteq Issues
  BY IssuesOf DEF Kinds
<1>4. missing \in SUBSET Others
  BY DEF Unexplained, Others
<1>5. collected \subseteq Issues
  <2>1. ContractIssue(contracts, review.objective) \subseteq Issues
    <3>1. {"report"} \cup UNION {b.names : b \in contracts.blockers} \in SUBSET Others
      BY DEF TypeOK, ContractsOf, Blocker, Others
    <3> QED BY <1>3, <3>1 DEF ContractIssue
  <2>2. /\ {s \in Sections : ~pack[s].supported} \in SUBSET Others
        /\ {s \in Sections : pack[s].must # {}} \ verification.using \in SUBSET Others
        /\ (IF unrepaired # {} THEN {"report"} ELSE {}) \in SUBSET Others
    BY DEF Others
  <2> QED BY <1>2, <1>3, <2>1, <2>2 DEF Collected
<1>6. Issue("requirement", missing) \subseteq Issues
  BY <1>3, <1>4
<1>7. LlmPasses(review, collected) \in BOOLEAN
  BY <1>1 DEF LlmPasses
<1> HIDE DEF collected, missing
<1>8. (/\ review.verifier /\ review.objective /\ LlmPasses(review, collected)
       /\ Blocking(collected \cup Issue("requirement", missing)) = {}) \in BOOLEAN
  BY <1>1, <1>7
<1> QED BY <1>5, <1>6, <1>8 DEF Gate, collected, missing

LEMMA VerifiedTyped ==
  ASSUME NEW r, NEW p, NEW c, NEW names \in SUBSET PlanNames
  PROVE  Verified(r, p, c, names) \in
           [failing : SUBSET Sections, using : SUBSET Sections, pending : SUBSET PlanNames]
BY DEF Verified

\* The body of a rewrite, with a citation where it lacked one.
LEMMA CitedTyped ==
  ASSUME NEW b \in Body, NEW must \in SUBSET Evidence
  PROVE  Cited(b, must) \in Body
<1>1. CASE must # {}
  <2>1. (CHOOSE e \in must : TRUE) \in Evidence
    BY <1>1
  <2> QED BY <2>1 DEF Cited, Body
<1>2. CASE must = {}
  BY <1>2 DEF Cited
<1> QED BY <1>1, <1>2

LEMMA TypedInit == Init => Typed
<1> SUFFICES ASSUME Init PROVE Typed
  OBVIOUS
<1>1. report \in [Sections -> Bodies] /\ pack \in [Sections -> PackOf] /\ contracts \in ContractsOf
  BY DEF Init, Bodies, PackOf, ContractsOf
<1>2. review \in Review
  BY DEF Init, NoReview, Review
<1> QED BY <1>1, <1>2 DEF Init, Typed, TypeOK, Repairs, Idle, NoVerification

LEMMA TypedStep == Typed /\ [Next]_vars => Typed'
<1> SUFFICES ASSUME Typed, [Next]_vars PROVE Typed'
  OBVIOUS
<1> USE DEF Typed
<1> DEFINE Nodes == {"write", "verify", "repair", "rewrite", "clean", "reverify", "review", "gate", "plan",
                     "ended", "broken"}
           Verifications == [failing : SUBSET Sections, using : SUBSET Sections, pending : SUBSET PlanNames]
           Gates == [pass : BOOLEAN, issues : SUBSET Issues]
           Files(r, p, c, v, u, w, g, q) ==
             /\ r \in [Sections -> Bodies] /\ p \in [Sections -> PackOf] /\ c \in ContractsOf
             /\ v \in Verifications /\ u \in SUBSET Sections /\ w \in Review /\ g \in Gates
             /\ q \in SUBSET PlanNames
           Repair(x) == x \in Repairs /\ x.todo \subseteq x.targets
<1>1. /\ Files(report, pack, contracts, verification, unrepaired, review, gate, plan)
      /\ Repair(repair) /\ node \in Nodes
  BY DEF TypeOK
<1>2. ASSUME Files(report', pack', contracts', verification', unrepaired', review', gate', plan'), Repair(repair'),
             node' \in Nodes
      PROVE  Typed'
  <2>1. \A i \in gate'.issues : i.kind \in Kinds
    BY <1>2, NamesOfIssue
  <2> QED BY <1>2, <2>1 DEF TypeOK, Repairs
<1>3. Repair(Idle)
  BY DEF Idle, Repairs
<1> HIDE DEF Repair, Gates, Verifications
<1>4. CASE Write
  <2>1. report' \in [Sections -> Bodies] /\ pack' \in [Sections -> PackOf] /\ contracts' \in ContractsOf
    BY <1>4, ReworkAssumption DEF Write
  <2>2. /\ verification' = NoVerification /\ gate' = [pass |-> FALSE, issues |-> {}]
        /\ review' = [NoReview EXCEPT !.remarks = Feedback(review, gate)]
    BY <1>4 DEF Write, ForgetUnread
  <2>3. verification' \in Verifications /\ gate' \in Gates
    BY <2>2 DEF Verifications, Gates, NoVerification
  <2>4. review' \in Review
    <3>1. Feedback(review, gate) \subseteq PlanNames
      BY DEF Feedback, Asked, PlanNames
    <3>2. review' = [verifier |-> FALSE, objective |-> FALSE, llm |-> FALSE, score |-> "low",
                     blockers |-> {}, remarks |-> Feedback(review, gate)]
      BY <2>2 DEF NoReview
    <3> QED BY <3>1, <3>2 DEF Review
  <2> QED BY <1>1, <1>2, <1>4, <2>1, <2>3, <2>4 DEF Write
<1>5. CASE Verify
  <2>1. verification' \in Verifications
    BY <1>1, <1>5, VerifiedTyped DEF Verify, Verifications
  <2> QED BY <1>1, <1>2, <1>5, <2>1 DEF Verify
<1>6. CASE StartRepair
  <2>1. Targets \in SUBSET Sections
    BY DEF Targets, SectionsOf
  <2>2. Repair(repair')
    <3>1. CASE UNCHANGED repair
      BY <1>1, <3>1
    <3>2. CASE \E todo \in SUBSET Targets : repair' = [Idle EXCEPT !.targets = Targets, !.todo = todo]
      <4>1. PICK todo \in SUBSET Targets : repair' = [[Idle EXCEPT !.targets = Targets] EXCEPT !.todo = todo]
        BY <3>2
      <4>2. repair' = [targets |-> Targets, todo |-> todo, attempt |-> 1, changed |-> FALSE, ran |-> FALSE]
        BY <4>1 DEF Idle
      <4> QED BY <2>1, <4>2 DEF Repair, Repairs
    <3> QED BY <1>6, <3>1, <3>2 DEF StartRepair
  <2>3. UNCHANGED <<report, pack, contracts, verification, unrepaired, review, gate, plan>> /\ node' \in Nodes
    BY <1>6 DEF StartRepair, files
  <2> QED BY <1>1, <1>2, <2>2, <2>3
<1>7. ASSUME NEW passed, NEW changed \in BOOLEAN, repair.todo # {}, AfterAttempt(passed, changed)
      PROVE  Repair(repair')
  <2>1. \/ repair' = [[[repair EXCEPT !.todo = @ \ {Current}] EXCEPT !.attempt = 1] EXCEPT !.changed = changed]
        \/ repair' = [[repair EXCEPT !.attempt = 2] EXCEPT !.changed = changed]
    BY <1>7 DEF AfterAttempt
  <2>2. repair \in Repairs /\ repair.todo \subseteq repair.targets
    BY <1>1 DEF Repair
  <2>3. ASSUME NEW todo \in SUBSET repair.todo, NEW n \in 1..2,
               repair' = [[[repair EXCEPT !.todo = todo] EXCEPT !.attempt = n] EXCEPT !.changed = changed]
        PROVE  Repair(repair')
    <3>1. repair' = [targets |-> repair.targets, todo |-> todo, attempt |-> n, changed |-> changed,
                    ran |-> repair.ran]
      BY <2>2, <2>3 DEF Repairs
    <3> QED BY <2>2, <2>3, <3>1 DEF Repair, Repairs
  <2>4. CASE repair' = [[[repair EXCEPT !.todo = @ \ {Current}] EXCEPT !.attempt = 1] EXCEPT !.changed = changed]
    <3>1. repair' = [[[repair EXCEPT !.todo = repair.todo \ {Current}] EXCEPT !.attempt = 1]
                       EXCEPT !.changed = changed]
      BY <2>4
    <3>2. repair.todo \ {Current} \in SUBSET repair.todo /\ 1 \in 1..2
      OBVIOUS
    <3> HIDE DEF Current, Repair
    <3> QED BY <2>3, <3>1, <3>2
  <2>5. CASE repair' = [[repair EXCEPT !.attempt = 2] EXCEPT !.changed = changed]
    <3>1. repair' = [[[repair EXCEPT !.todo = repair.todo] EXCEPT !.attempt = 2] EXCEPT !.changed = changed]
      BY <2>2, <2>5 DEF Repairs
    <3>2. repair.todo \in SUBSET repair.todo /\ 2 \in 1..2
      OBVIOUS
    <3> HIDE DEF Repair
    <3> QED BY <2>3, <3>1, <3>2
  <2> QED BY <2>1, <2>4, <2>5
<1>8. CASE Rewrite
  <2>1. Current \in Sections /\ repair.changed \in BOOLEAN
    BY <1>1, <1>8 DEF Rewrite, Current, Repair, Repairs
  <2>2. pack[Current].must \in SUBSET Evidence
    BY <1>1, <2>1 DEF PackOf
  <2>3. PICK b \in Rewrites : \E changed \in BOOLEAN :
          /\ report' = [report EXCEPT ![Current] = Cited(b, pack[Current].must)]
          /\ AfterAttempt(Passes(Current, Cited(b, pack[Current].must), pack[Current], contracts), changed)
    BY <1>8, <2>1 DEF Rewrite
  <2>4. Cited(b, pack[Current].must) \in Bodies
    BY <2>2, ReworkAssumption, CitedTyped DEF Bodies
  <2>5. report' \in [Sections -> Bodies]
    BY <1>1, <2>3, <2>4
  <2>6. Repair(repair')
    BY <1>7, <1>8, <2>3 DEF Rewrite
  <2> QED BY <1>1, <1>2, <1>8, <2>5, <2>6 DEF Rewrite
<1>9. CASE NoAnswer
  <2>1. Repair(repair')
    BY <1>1, <1>7, <1>9, ZenonT(40) DEF NoAnswer, Repair, Repairs
  <2> QED BY <1>1, <1>2, <1>9, <2>1 DEF NoAnswer, files
<1>10. CASE ByRule
  <2>1. report' \in [Sections -> Bodies] /\ Repair(repair')
    <3>1. CASE UNCHANGED <<report, repair>>
      BY <1>1, <3>1
    <3>2. CASE ~repair.changed
      <4>1. PICK new \in [repair.targets -> Rewrites \cup {Absent}] :
              /\ report' = [s \in Sections |->
                              IF s \in repair.targets /\ new[s] # Absent THEN new[s] ELSE report[s]]
              /\ \E x \in BOOLEAN : repair' = [repair EXCEPT !.changed = x]
        BY <1>10, <3>2 DEF ByRule
      <4>2. report' \in [Sections -> Bodies]
        BY <1>1, <4>1, ReworkAssumption DEF Bodies
      <4>3. Repair(repair')
        BY <1>1, <4>1 DEF Repair, Repairs
      <4> QED BY <4>2, <4>3
    <3> QED BY <1>10, <3>1, <3>2 DEF ByRule
  <2> QED BY <1>1, <1>2, <1>10, <2>1 DEF ByRule
<1>11. CASE CleanUp
  <2>1. PICK cut \in SUBSET Sections :
          report' = [s \in Sections |->
                      IF s \in cut /\ report[s] # Absent THEN [report[s] EXCEPT !.sound = FALSE]
                      ELSE report[s]]
    BY <1>11 DEF CleanUp
  <2>2. \A b \in Bodies : b # Absent => [b EXCEPT !.sound = FALSE] \in Bodies
    BY DEF Bodies, Body
  <2>3. report' \in [Sections -> Bodies]
    BY <1>1, <2>1, <2>2
  <2>4. verification' = Verified(report', pack, contracts, {}) /\ unrepaired' = verification'.failing
    BY <1>11 DEF CleanUp, VerifiedCleaned
  <2>5. verification' \in Verifications /\ unrepaired' \in SUBSET Sections
    BY <2>4, VerifiedTyped DEF Verifications
  <2>6. Repair(repair')
    <3>1. repair' = [targets |-> {}, todo |-> {}, attempt |-> 1, changed |-> FALSE, ran |-> TRUE]
      BY <1>11 DEF CleanUp, Idle
    <3> QED BY <3>1 DEF Repair, Repairs
  <2> QED BY <1>1, <1>2, <1>11, <2>3, <2>5, <2>6 DEF CleanUp
<1>12. CASE ReviewReport
  BY <1>1, <1>2, <1>12, ReworkAssumption DEF ReviewReport
<1>13. CASE PassGate
  <2>1. gate' \in Gates
    BY <1>13, GateTyped DEF PassGate, Gates
  <2> QED BY <1>1, <1>2, <1>13, <2>1 DEF PassGate
<1>14. CASE WritePlan
  <2>1. \A i \in gate.issues : NamesIn(i) \subseteq PlanNames
    BY <1>1, NamesOfIssue DEF Gates
  <2>2. plan' \in SUBSET PlanNames
    BY <1>14, <2>1 DEF WritePlan, Plan, Blocking
  <2> QED BY <1>1, <1>2, <1>14, <2>2 DEF WritePlan
<1>15. CASE PipelineRaises
  BY <1>1, <1>2, <1>15 DEF PipelineRaises, Gates
<1>16. CASE Rerun
  BY <1>1, <1>2, <1>3, <1>16 DEF Rerun, files
<1>17. CASE UNCHANGED vars
  BY <1>1, <1>2, <1>17 DEF vars, files
<1> QED
  BY <1>4, <1>5, <1>6, <1>8, <1>9, <1>10, <1>11, <1>12, <1>13, <1>14, <1>15, <1>16, <1>17
  DEF Next, NodeStep

\* Whichever run wrote a file, what the next one reads in it is what it knows:
\* sections of the report, and names of the plan.
THEOREM TypeCorrect == Spec => []TypeOK
<1>1. Typed => TypeOK
  BY DEF Typed
<1> QED BY <1>1, TypedInit, TypedStep, PTL DEF Spec

\* The verification, and what a repair of this run says is left to repair, is what
\* fails on disk, to the end of the run.
THEOREM RepairIsTrueHolds == Spec => []RepairIsTrue
<1>1. OfThisRun /\ Typed => RepairIsTrue
  <2> SUFFICES ASSUME OfThisRun, Typed, node \notin {"write", "verify", "rewrite", "clean", "broken"}
               PROVE  verification.failing = Failing /\ (repair.ran => unrepaired = Failing)
    BY DEF RepairIsTrue
  <2>1. node \in {"repair", "reverify", "review", "gate", "plan", "ended"}
    BY DEF Typed, TypeOK
  <2>2. verification = Verified(report, pack, contracts, verification.pending)
    BY <2>1 DEF OfThisRun, VerifiedNow
  <2>3. verification.failing = Failing
    BY <2>2 DEF Verified, Failing
  <2> QED BY <2>1, <2>3 DEF OfThisRun, RepairedNow
<1> QED BY <1>1, OfThisRunAlways, TypedInit, TypedStep, PTL DEF Spec
-----------------------------------------------------------------------------
(***************************************************************************)
(* A run does not go on for ever.  StepsLeft bounds what a run still has   *)
(* before it: every step of a run lowers it, for every report, model and   *)
(* review.  At most two answers are asked for in each section: a section   *)
(* that is asked for again has one left.                                   *)
(***************************************************************************)
\* The nodes from the last one back.
Place ==
  [plan |-> 1, gate |-> 2, review |-> 3, reverify |-> 4, clean |-> 5, rewrite |-> 6,
   repair |-> 7, verify |-> 8, write |-> 9]

\* The answers of the model that are still to come, at most.
AsksLeft ==
  IF node = "rewrite" THEN 2 * Cardinality(repair.todo) - (repair.attempt - 1)
  ELSE IF node \in {"write", "verify", "repair"} THEN 2 * Cardinality(Sections)
  ELSE 0

StepsLeft == IF node \in {"ended", "broken"} THEN 0 ELSE Place[node] + AsksLeft

\* Who is asked for the second time is still to be repaired.
SecondAttempt == repair.attempt = 2 => repair.todo # {}

LEMMA SectionsAreFinite ==
  /\ IsFiniteSet(Sections) /\ Cardinality(Sections) \in Nat
  /\ \A S \in SUBSET Sections :
       /\ IsFiniteSet(S) /\ Cardinality(S) \in Nat /\ Cardinality(S) <= Cardinality(Sections)
       /\ \A s \in S : Cardinality(S \ {s}) = Cardinality(S) - 1
       /\ S # {} => Cardinality(S) > 0
<1>1. IsFiniteSet(CoreSections)
  <2>1. IsFiniteSet({"executive_summary"})
    BY FS_Singleton
  <2>2. IsFiniteSet({"executive_summary"} \cup {"business_overview"})
    BY <2>1, FS_AddElement
  <2>3. IsFiniteSet(({"executive_summary"} \cup {"business_overview"}) \cup {"financial_analysis"})
    BY <2>2, FS_AddElement
  <2>4. IsFiniteSet({"executive_summary", "business_overview", "financial_analysis"})
    BY <2>3
  <2>5. IsFiniteSet({"executive_summary", "business_overview", "financial_analysis"} \cup {"valuation"})
    BY <2>4, FS_AddElement
  <2>6. IsFiniteSet(({"executive_summary", "business_overview", "financial_analysis"} \cup {"valuation"})
                    \cup {"risks"})
    BY <2>5, FS_AddElement
  <2>7. IsFiniteSet((({"executive_summary", "business_overview", "financial_analysis"} \cup {"valuation"})
                     \cup {"risks"}) \cup {"conclusion"})
    BY <2>6, FS_AddElement
  <2>8. (({"executive_summary", "business_overview", "financial_analysis"} \cup {"valuation"})
          \cup {"risks"}) \cup {"conclusion"} = CoreSections
    BY DEF CoreSections
  <2> QED BY <2>7, <2>8
<1>2. IsFiniteSet(Sections) /\ Cardinality(Sections) \in Nat
  BY <1>1, SectionsAssumption, FS_Subset, FS_CardinalityType
<1>3. ASSUME NEW S \in SUBSET Sections
      PROVE  /\ IsFiniteSet(S) /\ Cardinality(S) \in Nat /\ Cardinality(S) <= Cardinality(Sections)
             /\ \A s \in S : Cardinality(S \ {s}) = Cardinality(S) - 1
             /\ S # {} => Cardinality(S) > 0
  <2>1. IsFiniteSet(S) /\ Cardinality(S) <= Cardinality(Sections)
    BY <1>2, FS_Subset
  <2>2. Cardinality(S) \in Nat
    BY <2>1, FS_CardinalityType
  <2>3. \A s \in S : Cardinality(S \ {s}) = Cardinality(S) - 1
    BY <2>1, FS_RemoveElement
  <2>4. S # {} => Cardinality(S) > 0
    BY <2>1, <2>2, FS_EmptySet
  <2> QED BY <2>1, <2>2, <2>3, <2>4
<1> QED BY <1>2, <1>3

\* What a repair may do with the section in hand, field by field.
LEMMA AttemptFields ==
  ASSUME Typed, NEW passed, NEW changed, AfterAttempt(passed, changed)
  PROVE  \/ repair'.todo = repair.todo \ {Current} /\ repair'.attempt = 1
         \/ repair'.todo = repair.todo /\ repair.attempt = 1 /\ repair'.attempt = 2
<1>1. repair \in Repairs /\ repair.attempt \in 1..2
  BY DEF Typed, Repairs
<1>2. CASE passed \/ repair.attempt = 2
  <2>1. repair' = [repair EXCEPT !.todo = repair.todo \ {Current}, !.attempt = 1, !.changed = changed]
    BY <1>2 DEF AfterAttempt
  <2> QED BY <1>1, <2>1 DEF Repairs
<1>3. CASE ~(passed \/ repair.attempt = 2)
  <2>1. repair' = [repair EXCEPT !.attempt = 2, !.changed = changed]
    BY <1>3 DEF AfterAttempt
  <2> QED BY <1>1, <1>3, <2>1 DEF Repairs
<1> QED BY <1>2, <1>3

LEMMA StartFields ==
  ASSUME StartRepair
  PROVE  IF FailedNames # {} THEN repair'.todo \in SUBSET Targets /\ repair'.attempt = 1 ELSE repair' = repair
<1>1. ASSUME FailedNames # {} PROVE repair'.todo \in SUBSET Targets /\ repair'.attempt = 1
  <2>1. PICK todo \in SUBSET Targets :
          repair' = [[Idle EXCEPT !.targets = Targets] EXCEPT !.todo = todo]
    BY <1>1 DEF StartRepair
  <2>2. repair' = [targets |-> Targets, todo |-> todo, attempt |-> 1, changed |-> FALSE, ran |-> FALSE]
    BY <2>1 DEF Idle
  <2> QED BY <2>2
<1>2. ASSUME FailedNames = {} PROVE repair' = repair
  BY <1>2 DEF StartRepair
<1> QED BY <1>1, <1>2

LEMMA SecondAttemptInit == Init => SecondAttempt
BY DEF Init, SecondAttempt, Idle

LEMMA SecondAttemptStep == Typed /\ SecondAttempt /\ [Next]_vars => SecondAttempt'
<1> SUFFICES ASSUME Typed, SecondAttempt, [Next]_vars PROVE SecondAttempt'
  OBVIOUS
<1>1. CASE repair' = repair
  BY <1>1 DEF SecondAttempt
<1>2. CASE repair' \in {Idle, [Idle EXCEPT !.ran = TRUE]}
  BY <1>2 DEF SecondAttempt, Idle
<1>3. CASE StartRepair
  <2>1. repair' = repair \/ repair'.attempt = 1
    BY <1>3, StartFields
  <2> QED BY <1>1, <2>1 DEF SecondAttempt
<1>4. CASE Rewrite
  <2>1. repair.todo # {} /\ \E passed, changed : AfterAttempt(passed, changed)
    BY <1>4 DEF Rewrite
  <2>2. \/ repair'.todo = repair.todo \ {Current} /\ repair'.attempt = 1
        \/ repair'.todo = repair.todo /\ repair.attempt = 1 /\ repair'.attempt = 2
    BY <2>1, AttemptFields
  <2> QED BY <2>1, <2>2 DEF SecondAttempt
<1>5. CASE NoAnswer
  <2>1. repair.todo # {} /\ AfterAttempt(FALSE, repair.changed)
    BY <1>5 DEF NoAnswer
  <2>2. \/ repair'.todo = repair.todo \ {Current} /\ repair'.attempt = 1
        \/ repair'.todo = repair.todo /\ repair.attempt = 1 /\ repair'.attempt = 2
    BY <2>1, AttemptFields
  <2> QED BY <2>1, <2>2 DEF SecondAttempt
<1>6. CASE ByRule
  <2>1. CASE repair.changed
    BY <1>1, <1>6, <2>1 DEF ByRule
  <2>2. CASE ~repair.changed
    <3>1. PICK changed : repair' = [repair EXCEPT !.changed = changed]
      BY <1>6, <2>2 DEF ByRule
    <3>2. repair \in Repairs
      BY DEF Typed
    <3>3. repair'.attempt = repair.attempt /\ repair'.todo = repair.todo
      BY <3>1, <3>2 DEF Repairs
    <3> QED BY <3>3 DEF SecondAttempt
  <2> QED BY <2>1, <2>2
<1>7. CASE \/ Write \/ Verify \/ ReviewReport \/ PassGate \/ WritePlan \/ PipelineRaises
           \/ UNCHANGED vars
  BY <1>1, <1>7 DEF Write, Verify, ReviewReport, PassGate, WritePlan, PipelineRaises, vars
<1>8. CASE CleanUp \/ Rerun
  BY <1>2, <1>8 DEF CleanUp, Rerun
<1> QED BY <1>3, <1>4, <1>5, <1>6, <1>7, <1>8 DEF Next, NodeStep

LEMMA StepsLeftIsBounded ==
  ASSUME Typed PROVE StepsLeft \in 0 .. 2 * Cardinality(Sections) + 9
<1>1. /\ Cardinality(Sections) \in Nat /\ Cardinality(repair.todo) \in Nat
      /\ Cardinality(repair.todo) <= Cardinality(Sections) /\ repair.attempt \in 1..2
  BY SectionsAreFinite DEF Typed, Repairs
<1>2. node \in DOMAIN Place \cup {"ended", "broken"}
  BY DEF Typed, TypeOK, Place
<1> QED BY <1>1, <1>2 DEF StepsLeft, AsksLeft, Place

LEMMA StepsLeftFalls ==
  ASSUME Typed, SecondAttempt, NodeStep PROVE StepsLeft' < StepsLeft
<1> DEFINE C == Cardinality(Sections)
           T == Cardinality(repair.todo)
<1>1. C \in Nat /\ T \in Nat /\ T <= C /\ repair.attempt \in 1..2 /\ repair.todo \in SUBSET Sections
  BY SectionsAreFinite DEF Typed, Repairs
<1>2. CASE Write
  BY <1>1, <1>2 DEF Write, StepsLeft, AsksLeft, Place
<1>3. CASE Verify
  BY <1>1, <1>3 DEF Verify, StepsLeft, AsksLeft, Place
<1>4. CASE StartRepair
  <2>1. StepsLeft = 7 + 2 * C
    BY <1>4 DEF StartRepair, StepsLeft, AsksLeft, Place
  <2>2. CASE FailedNames # {}
    <3>1. node' = "rewrite" /\ repair'.todo \in SUBSET Targets /\ repair'.attempt = 1
      BY <1>4, <2>2, StartFields DEF StartRepair
    <3>2. Targets \in SUBSET Sections
      BY DEF Targets, SectionsOf
    <3>3. Cardinality(repair'.todo) \in Nat /\ Cardinality(repair'.todo) <= C
      BY <3>1, <3>2, SectionsAreFinite
    <3>4. StepsLeft' = 6 + (2 * Cardinality(repair'.todo) - (1 - 1))
      BY <3>1 DEF StepsLeft, AsksLeft, Place
    <3> HIDE DEF C
    <3> QED BY <1>1, <2>1, <3>3, <3>4
  <2>3. CASE FailedNames = {}
    <3>1. node' = "reverify"
      BY <1>4, <2>3 DEF StartRepair
    <3>2. StepsLeft' = 4
      BY <3>1 DEF StepsLeft, AsksLeft, Place
    <3> QED BY <1>1, <2>1, <3>2
  <2> QED BY <2>2, <2>3
<1>5. CASE Rewrite \/ NoAnswer
  <2>1. node = "rewrite" /\ node' = "rewrite" /\ repair.todo # {}
    BY <1>5 DEF Rewrite, NoAnswer
  <2>2. \E passed, changed : AfterAttempt(passed, changed)
    BY <1>5 DEF Rewrite, NoAnswer
  <2>3. Current \in repair.todo
    BY <2>1 DEF Current
  <2>4. Cardinality(repair.todo \ {Current}) = T - 1
    BY <1>1, <2>3, SectionsAreFinite
  <2>5. StepsLeft = 6 + (2 * T - (repair.attempt - 1))
    BY <2>1 DEF StepsLeft, AsksLeft, Place
  <2>6. StepsLeft' = 6 + (2 * Cardinality(repair'.todo) - (repair'.attempt - 1))
    BY <2>1 DEF StepsLeft, AsksLeft, Place
  <2>7. CASE repair'.todo = repair.todo \ {Current} /\ repair'.attempt = 1
    <3> HIDE DEF T, Current
    <3> QED BY <1>1, <2>4, <2>5, <2>6, <2>7
  <2>8. CASE repair'.todo = repair.todo /\ repair.attempt = 1 /\ repair'.attempt = 2
    BY <1>1, <2>5, <2>6, <2>8
  <2> QED BY <2>2, <2>7, <2>8, AttemptFields
<1>6. CASE ByRule
  <2>1. node = "rewrite" /\ node' = "clean" /\ repair.todo = {}
    BY <1>6 DEF ByRule
  <2>2. repair.attempt = 1 /\ T = 0
    BY <1>1, <2>1, FS_EmptySet DEF SecondAttempt
  <2>3. StepsLeft = 6 + (2 * T - (repair.attempt - 1)) /\ StepsLeft' = 5 + 0
    BY <2>1 DEF StepsLeft, AsksLeft, Place
  <2> HIDE DEF T
  <2> QED BY <2>2, <2>3
<1>7. CASE CleanUp
  BY <1>7 DEF CleanUp, StepsLeft, AsksLeft, Place
<1>8. CASE ReviewReport
  BY <1>8 DEF ReviewReport, StepsLeft, AsksLeft, Place
<1>9. CASE PassGate
  BY <1>9 DEF PassGate, StepsLeft, AsksLeft, Place
<1>10. CASE WritePlan
  BY <1>10 DEF WritePlan, StepsLeft, AsksLeft, Place
<1>11. CASE PipelineRaises
  BY <1>11 DEF PipelineRaises, StepsLeft, AsksLeft, Place
<1> QED BY <1>2, <1>3, <1>4, <1>5, <1>6, <1>7, <1>8, <1>9, <1>10, <1>11 DEF NodeStep

\* A run that is not broken off is over after 2 * |Sections| + 9 steps at the
\* latest, whatever the model writes and however often it does not answer: the
\* repair asks at most twice for a section, and no node is gone back to.
THEOREM RunsAreBounded ==
  Spec => /\ [](StepsLeft \in 0 .. 2 * Cardinality(Sections) + 9)
          /\ [][NodeStep => StepsLeft' < StepsLeft]_vars
<1>1. Spec => [](Typed /\ SecondAttempt)
  BY TypedInit, TypedStep, SecondAttemptInit, SecondAttemptStep, PTL DEF Spec
<1>2. Typed => StepsLeft \in 0 .. 2 * Cardinality(Sections) + 9
  BY StepsLeftIsBounded
<1>3. Typed /\ SecondAttempt /\ [Next]_vars => [NodeStep => StepsLeft' < StepsLeft]_vars
  BY StepsLeftFalls
<1> QED BY <1>1, <1>2, <1>3, PTL DEF Spec
=============================================================================
