------------------------------ MODULE DynamicRun ------------------------------
(***************************************************************************)
(* One run of the multi-agent orchestrator in its dynamic modes            *)
(* (src/agents/multi_agent_orchestrator.py, _run_dynamic): the tasks of    *)
(* the graph one after the other, the review before writing and the rework *)
(* it asks for, the rework after a failed verification, the gap resolver,  *)
(* and the rework after a failed delivery gate.                            *)
(*                                                                         *)
(* Every agent is executed in a thread of its own with a timeout           *)
(* (_execute).  One that fails makes the run fail; one that times out is   *)
(* abandoned, and the run goes on with an empty output in place of its     *)
(* result.                                                                 *)
(***************************************************************************)
EXTENDS TaskGraph, Sequences, SequencesExt

CONSTANTS
  Plans,            \* plans the planner may come up with
  Profiles,         \* execution profiles: rounds of either rework
  EarlierSummaries  \* run_summary.json left by an earlier run

ASSUME RunAssumption ==
  /\ \A p \in Plans : DOMAIN p \subseteq PlanIds /\ IsFiniteSet(DOMAIN p)
  /\ \A p \in Plans : \A i \in DOMAIN p : p[i] \in Task(PlanIds) /\ p[i].type \in PlanTypes
  /\ Profiles \subseteq [verifier : Nat, delivery : Nat]
  /\ EarlierSummaries \subseteq {"none", "passed", "failed"}

MaxRounds == 2  \* max_rounds of _resolve_pre_write_objections

VARIABLES
  tasks,      \* the graph
  mode,       \* diagnostic_full_mode, the profile, and what summary was found at the start (history)
  at,         \* which part of _run_dynamic
  todo,       \* agents to execute before the part goes on
  task,       \* the task of the graph being executed, {} or {id}
  done,       \* results: the tasks executed
  expired,    \* the execution deadline has passed
  round,      \* rounds of the current rework so far
  critic,     \* pre_write_critic
  degraded,   \* collaborative_degraded_report
  claims,     \* analyses merged into the claims so far
  artifacts,  \* are there analysis_artifacts
  report,     \* the report in the state
  verdict,    \* verification_report
  summary,    \* verification_passed in run_summary.json
  gate,       \* delivery_gate.json
  disk        \* report.md

plan == <<tasks, mode>>
control == <<at, todo, task, done, expired, round>>
board == <<critic, degraded, claims, artifacts, report, verdict>>
files == <<summary, gate, disk>>
vars == <<plan, control, board, files>>

NoReport == [n |-> 0, claims |-> 0, empty |-> TRUE]
NoVerdict == [says |-> "none", of |-> NoReport, claims |-> 0]

Init ==
  /\ \E p \in Plans, diagnostic \in BOOLEAN, profile \in Profiles, earlier \in EarlierSummaries :
       /\ tasks = Graph(p, diagnostic)
       /\ mode = [diagnostic |-> diagnostic, profile |-> profile, earlier |-> earlier]
       /\ summary = earlier
  /\ at = "tasks" /\ todo = <<>> /\ task = {} /\ done = {} /\ expired = FALSE /\ round = 0
  /\ critic = "none" /\ degraded = FALSE /\ claims = 0 /\ artifacts = FALSE
  /\ report = NoReport /\ verdict = NoVerdict
  /\ gate = [pass |-> FALSE, of |-> NoReport] /\ disk = NoReport

-----------------------------------------------------------------------------
(***************************************************************************)
(* Executing an agent (_execute, merge_task_result)                        *)
(***************************************************************************)
Agent == Head(todo)
Executing == todo # <<>>

\* The agent's place in the part it is executed for is over.
Executed ==
  /\ todo' = Tail(todo) /\ task' = {} /\ done' = done \cup task
  /\ UNCHANGED <<plan, at, expired, round, files>>

Written == [n |-> report.n + 1, claims |-> claims, empty |-> FALSE]

\* A result in time.
AgentCompletes ==
  /\ Executing /\ Executed
  /\ critic' \in IF Agent = "critic" THEN {"clear", "blocking"} ELSE {critic}
  /\ claims' = IF Agent = "deep_analyze" THEN claims + 1 ELSE claims
  /\ artifacts' = (artifacts \/ Agent = "deep_analyze")
  /\ report' = IF Agent = "final_answer" THEN Written ELSE report
  /\ verdict' \in IF Agent = "verifier"
                  THEN [says : {"passed", "failed"}, of : {report}, claims : {claims}] ELSE {verdict}
  /\ UNCHANGED degraded

\* A bug: a verdict stays until there is another.
VerdictKept ==
  /\ critic' = IF Agent = "critic" THEN "none" ELSE critic
  /\ artifacts' = (artifacts /\ Agent # "deep_analyze")
  /\ report' = IF Agent = "final_answer" THEN [Written EXCEPT !.empty = TRUE] ELSE report
  /\ UNCHANGED <<degraded, claims, verdict>>

\* An empty output is merged like any other: an empty report, no artifacts, no
\* verdict, no objections.
EmptyMerged ==
  /\ critic' = IF Agent = "critic" THEN "none" ELSE critic
  /\ artifacts' = (artifacts /\ Agent # "deep_analyze")
  /\ report' = IF Agent = "final_answer" THEN [Written EXCEPT !.empty = TRUE] ELSE report
  /\ verdict' = IF Agent = "verifier" THEN NoVerdict ELSE verdict
  /\ UNCHANGED <<degraded, claims>>

AgentTimesOut == Executing /\ Executed /\ EmptyMerged

\* The rework agents of the delivery loop may fail, nobody else.
MayFail == at = "delivery" /\ Agent \notin {"final_answer", "verifier"}

AgentFails ==
  /\ Executing
  /\ IF MayFail THEN Executed
     ELSE at' = "raised" /\ todo' = <<>> /\ UNCHANGED <<plan, task, done, expired, round, files>>
  /\ UNCHANGED board

DeadlinePasses ==
  /\ ~expired /\ at \notin {"done", "raised"}
  /\ expired' = TRUE
  /\ UNCHANGED <<plan, at, todo, task, done, round, board, files>>

Goto(part) == at' = part /\ round' = 0

-----------------------------------------------------------------------------
(***************************************************************************)
(* The tasks of the graph (_execute_dynamic_tasks)                         *)
(***************************************************************************)
Pending == DOMAIN tasks \ done
Ready == {i \in Pending : tasks[i].deps \subseteq done}

\* By type, then by priority; which of several equal ones (the code goes by id) is
\* left to CHOOSE.
First ==
  CHOOSE i \in Ready : \A j \in Ready :
    \/ Rank[tasks[i].type] < Rank[tasks[j].type]
    \/ /\ Rank[tasks[i].type] = Rank[tasks[j].type]
       /\ tasks[i].priority >= tasks[j].priority

InLoop == at = "tasks" /\ ~Executing /\ Pending # {} /\ ~expired

Blocked ==
  /\ InLoop /\ Ready = {}
  /\ at' = "raised"
  /\ UNCHANGED <<plan, todo, task, done, expired, round, board, files>>

\* The review before writing comes first, unless there has been one.
ToReview == tasks[First].type = "final_answer" /\ mode.diagnostic /\ critic = "none"

Dispatch ==
  /\ InLoop /\ Ready # {} /\ ~ToReview
  /\ task' = {First} /\ todo' = <<tasks[First].type>>
  /\ UNCHANGED <<plan, at, done, expired, round, board, files>>

Review ==
  /\ InLoop /\ Ready # {} /\ ToReview
  /\ todo' = <<"critic">> /\ Goto("objections")
  /\ UNCHANGED <<plan, task, done, expired, board, files>>

Objecting == critic = "blocking" /\ round < MaxRounds

\* A bug: the rounds are not counted.
ReworkRolesUncounted ==
  /\ at = "objections" /\ ~Executing /\ Objecting
  /\ todo' = <<"critic">>
  /\ UNCHANGED <<plan, at, task, done, expired, round, board, files>>

\* Blocking objections go back to the role agents they are about, if any; then
\* the critic looks again.
ReworkRoles ==
  /\ at = "objections" /\ ~Executing /\ Objecting
  /\ \E targets \in {{}, {"identity_profile"}, {"valuation_analysis", "risk_analysis"}} :
       todo' = SetToSeq(targets) \o <<"critic">>
  /\ round' = round + 1
  /\ UNCHANGED <<plan, at, task, done, expired, board, files>>

\* Objections that are left are admitted; the final answer is written next.
Settle ==
  /\ at = "objections" /\ ~Executing /\ ~Objecting
  /\ degraded' = (degraded \/ critic = "blocking")
  /\ Goto("tasks") /\ task' = {First} /\ todo' = <<"final_answer">>
  /\ UNCHANGED <<plan, done, expired, critic, claims, artifacts, report, verdict, files>>

TasksEnd ==
  /\ at = "tasks" /\ ~Executing /\ (Pending = {} \/ expired)
  /\ Goto("verification")
  /\ UNCHANGED <<plan, todo, task, done, expired, board, files>>

-----------------------------------------------------------------------------
(***************************************************************************)
(* The rework after a failed verification (_run_verifier_rework_loop), the *)
(* gap resolver                                                            *)
(***************************************************************************)
\* A report without a verdict has nothing to revise it by.
Revise ==
  /\ at = "verification" /\ ~Executing
  /\ verdict.says = "failed" /\ round < mode.profile.verifier
  /\ round' = round + 1
  /\ todo' = <<"final_answer", "verifier">>
  /\ UNCHANGED <<plan, at, task, done, expired, board, files>>

\* A failed verdict may come without a word to revise by.
Revised ==
  /\ at = "verification" /\ ~Executing
  /\ Goto("gaps") /\ todo' = <<"gap_resolver">>
  /\ UNCHANGED <<plan, task, done, expired, board, files>>

GapsResolved ==
  /\ at = "gaps" /\ ~Executing
  /\ Goto(IF mode.profile.delivery = 0 THEN "files" ELSE "delivery")
  /\ UNCHANGED <<plan, todo, task, done, expired, board, files>>

-----------------------------------------------------------------------------
(***************************************************************************)
(* The rework after a failed delivery gate (_run_delivery_rework_loop)     *)
(***************************************************************************)
\* run_summary.json is written only if an earlier run has not left one.
SummaryKept ==
  IF summary # "none" THEN summary ELSE IF verdict.says = "passed" THEN "passed" ELSE "failed"

\* A bug: a report without a verdict passes.
VerifierDidNotFail == verdict.says # "failed"

\* A verification report without a verdict lets the summary speak.
VerifierPassed == verdict.says = "passed" \/ (verdict.says = "none" /\ SummaryKept = "passed")

\* The state is written to disk and judged there.
GateOf(quality) == [pass |-> VerifierPassed /\ quality, of |-> report]

Repairs ==
  {{}, {"deep_analyze"}, {"deep_researcher", "browser", "deep_analyze", "valuation_analysis"}}

\* Which agents are called for depends on the issues, and so does whether a
\* rewrite can help at all.
EvaluateDelivery ==
  /\ at = "delivery" /\ ~Executing /\ round < mode.profile.delivery
  /\ disk' = report /\ summary' = SummaryKept
  /\ \E quality, hopeless \in BOOLEAN :
       /\ gate' = GateOf(quality)
       /\ IF gate'.pass \/ hopeless
          THEN Goto("files") /\ UNCHANGED todo
          ELSE /\ \E agents \in Repairs :
                    todo' = SetToSeq(agents) \o <<"final_answer", "verifier">>
               /\ round' = round + 1 /\ UNCHANGED at
  /\ UNCHANGED <<plan, task, done, expired, board>>

ReworkOver ==
  /\ at = "delivery" /\ ~Executing /\ round = mode.profile.delivery
  /\ Goto("files")
  /\ UNCHANGED <<plan, todo, task, done, expired, board, files>>

WriteFiles ==
  /\ at = "files"
  /\ Goto("done")
  /\ disk' = report
  /\ summary' = IF verdict.says = "passed" THEN "passed" ELSE "failed"
  /\ UNCHANGED <<plan, todo, task, done, expired, board, gate>>

\* What the run's own thread does; the agents need not do anything at all.
RunStep ==
  \/ AgentTimesOut \/ Blocked \/ Dispatch \/ Review \/ ReworkRoles \/ Settle \/ TasksEnd
  \/ Revise \/ Revised \/ GapsResolved \/ EvaluateDelivery \/ ReworkOver \/ WriteFiles

Over == at \in {"done", "raised"}

Next == RunStep \/ AgentCompletes \/ AgentFails \/ DeadlinePasses

\* A timeout fires in the end.
Spec == Init /\ [][Next]_vars /\ WF_vars(RunStep)

-----------------------------------------------------------------------------
(***************************************************************************)
(* Properties                                                              *)
(***************************************************************************)
Agents == TaskTypes \cup {"critic", "gap_resolver"}
Reports == [n : Nat, claims : Nat, empty : BOOLEAN]

TypeOK ==
  /\ DOMAIN tasks \subseteq GraphIds /\ \A i \in DOMAIN tasks : tasks[i] \in Task(DOMAIN tasks)
  /\ mode.diagnostic \in BOOLEAN /\ mode.profile \in Profiles /\ mode.earlier \in EarlierSummaries
  /\ at \in {"tasks", "objections", "verification", "gaps", "delivery", "files", "done", "raised"}
  /\ todo \in Seq(Agents) /\ task \subseteq DOMAIN tasks /\ done \subseteq DOMAIN tasks
  /\ round \in Nat /\ expired \in BOOLEAN
  /\ critic \in {"none", "clear", "blocking"} /\ degraded \in BOOLEAN
  /\ claims \in Nat /\ artifacts \in BOOLEAN /\ report \in Reports /\ disk \in Reports
  /\ verdict.says \in {"none", "passed", "failed"}
  /\ summary \in {"none", "passed", "failed"} /\ gate.pass \in BOOLEAN

\* Whatever dependencies the planner made up or left out, no task is executed
\* while one of an earlier kind is open: nothing is read before everything has
\* been searched, nothing written before everything is analysed, and the
\* verifier sees the last report.
PipelineOrder ==
  \A i \in done \cup task, j \in Pending : Rank[tasks[j].type] >= Rank[tasks[i].type]

\* The run gets stuck on its graph only if the plan makes tasks of one type wait
\* for each other.
Stuck == at = "tasks" /\ ~Executing /\ Pending # {} /\ Ready = {}
BlockedByPlanner ==
  Stuck =>
    \E C \in (SUBSET Pending) \ {{}} : \E type \in TaskTypes :
      \A i \in C : tasks[i].type = type /\ tasks[i].deps \cap C # {}

\* A run the deadline has not cut short has searched, read, analysed, written and
\* verified, however little the planner thought of.
NothingLeftOut ==
  at = "done" /\ ~expired => PlanTypes \subseteq {tasks[i].type : i \in done} /\ report.n > 0

\* A verdict in the files of a run is about the report and the claims that are
\* there, whichever of the three loops wrote last, or there is no verdict.
VerdictIsCurrent ==
  at \in {"files", "done"} /\ verdict.says # "none" =>
    verdict.of = report /\ verdict.claims = claims

\* What the delivery gate lets through is the report the run leaves, and the
\* verifier passed that report; or it gave no verdict on it, and a verdict on
\* another report speaks for it: that of an earlier run, or of an earlier round,
\* in a profile with more than one.
DeliveredIsVouchedFor ==
  at \in {"files", "done"} /\ gate.pass =>
    /\ gate.of = report
    /\ \/ verdict.says = "passed" /\ verdict.of = report
       \/ verdict.says = "none" /\ (mode.earlier = "passed" \/ mode.profile.delivery > 1)

\* What the delivery gate lets through is the report the run leaves, and the
\* verifier passed it, as the gate's own formula has it (delivery_gate.py l.128).
DeliveredWasVerified ==
  at \in {"files", "done"} /\ gate.pass =>
    gate.of = report /\ verdict.says = "passed" /\ verdict.of = report

\* The run ends, even if no agent ever returns.
RunEnds == <>Over

\* Objections go away only when the critic withdraws them.
ObjectionsStand == [][critic = "blocking" => critic' \in {"blocking", "clear"}]_vars

\* Rework does not destroy what is there: a report once written is replaced only
\* by another one.
ReportSurvives == [][~report.empty => ~report'.empty]_vars
=============================================================================
