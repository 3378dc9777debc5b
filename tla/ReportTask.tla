----------------------------- MODULE ReportTask -----------------------------
(***************************************************************************)
(* One report task: its database row, its LangGraph checkpoint, and the    *)
(* executor threads that carry it through the report graph.                *)
(*                                                                         *)
(*   src/services/report_task_service.py        handlers, client operations*)
(*   src/runtime/langgraph_report_runtime.py    the graph and its routes   *)
(*   src/runtime/report_run_state.py            the lifecycle of the row   *)
(*                                                                         *)
(* A node handler is cut where the code commits a transaction or writes    *)
(* files: "enter" (move the row to the node's lifecycle), "work", "import" *)
(* (artifact import) and "leave" (LangGraph writes the checkpoint and      *)
(* picks the next node).  A crash, an exception, a client request or       *)
(* another executor may come between any two of these.  Each transaction   *)
(* on the row is atomic here; TaskRowRaces splits it.                      *)
(***************************************************************************)
EXTENDS ReportLifecycle

CONSTANTS
  Workers,      \* executor threads that may serve requests for the task
  Static,       \* the orchestrator is MultiAgentOrchestrator in "static" mode
  Ops,          \* the operations clients and the environment issue
  ClaimStates   \* the sets of claim marks an artifact import or a review leaves

AllOps == {"run", "retry_task", "cancel", "archive", "bulk_archive", "review",
           "retry_checkpoint", "resume", "crash"}

ASSUME StaticAssumption == Static \in BOOLEAN
ASSUME OpsAssumption == Ops \subseteq AllOps
ASSUME ClaimsAssumption == ClaimStates \subseteq SUBSET ClaimMarks /\ {} \in ClaimStates

VARIABLES
  status, stage,  \* the legacy columns of the row
  started,        \* started_at: unset, within the last hour, or older
  gate,           \* metadata.pre_generation_evidence_gate
  verdict,        \* metadata.quality_result.delivery_gate.delivery_pass
  claims,         \* marks of the imported ReportClaim rows
  report,         \* report files: none, on disk only, registered by an import
  covered,        \* history: the verdict was computed on the report now on disk
  ckpt,           \* last LangGraph checkpoint: the pending node, and whether a
                  \* human_review interrupt has been answered
  at, phase,      \* where each executor is
  entry           \* which service call it is inside

row == <<status, stage, started>>
data == <<gate, verdict, claims, report, covered>>
exec == <<at, phase, entry>>
vars == <<status, stage, started, gate, verdict, claims, report, covered,
          ckpt, at, phase, entry>>

lifecycle == Resolve(status, stage)

-----------------------------------------------------------------------------
(***************************************************************************)
(* The graph.                                                              *)
(***************************************************************************)
Nodes == {"official_evidence_backfill", "evidence", "planning", "research",
          "normalize_evidence", "analyze", "build_canonical_metrics",
          "prepare_write", "build_section_evidence_packs", "write_report",
          "verify_report", "inspect_agent_execution", "verify_sections",
          "repair_failed_sections", "quality", "finalize", "human_review"}

\* The edge out of a node whose successor does not depend on the state.
FixedEdge(n) ==
  CASE n = "official_evidence_backfill"   -> "evidence"
    [] n = "planning"                     -> "research"
    [] n = "research"                     -> "normalize_evidence"
    [] n = "normalize_evidence"           -> "analyze"
    [] n = "analyze"                      -> "build_canonical_metrics"
    [] n = "build_canonical_metrics"      -> "prepare_write"
    [] n = "prepare_write"                -> "build_section_evidence_packs"
    [] n = "build_section_evidence_packs" -> "write_report"
    [] n = "write_report"                 -> "verify_report"
    [] n = "verify_report"                -> "inspect_agent_execution"
    [] n = "inspect_agent_execution"      -> "verify_sections"
    [] n = "verify_sections"              -> "repair_failed_sections"
    [] n = "repair_failed_sections"       -> "quality"
    [] n = "quality"                      -> "finalize"
    [] n = "human_review"                 -> "end"

RouteOnGateOnly == IF gate = "blocked" THEN "end" ELSE "planning"

RouteOnLifecycleOnly == IF lifecycle = "evidence_blocked" THEN "end" ELSE "planning"

RouteAfterEvidence ==
  IF lifecycle = "evidence_blocked" \/ gate = "blocked" THEN "end" ELSE "planning"

RouteAfterFinalize ==
  IF "pending_claim_review" \in Blockers(lifecycle, gate, verdict, claims, report = "imported")
  THEN "human_review" ELSE "end"

NextNode(n) ==
  CASE n = "evidence" -> RouteAfterEvidence
    [] n = "finalize" -> RouteAfterFinalize
    [] n \notin {"evidence", "finalize"} -> FixedEdge(n)

\* Handlers that begin with a transaction on the row, and those after whose
\* work the artifacts are imported again.
EnterNodes == {"evidence", "write_report", "quality"}
ImportNodes == {"official_evidence_backfill", "write_report", "quality"}
FirstPhase(n) == IF n \in EnterNodes THEN "enter" ELSE "work"

\* The nodes inside which an agent reports that it has started.
AgentNodes == IF Static
  THEN {"planning", "research", "normalize_evidence", "analyze", "prepare_write", "write_report"}
  ELSE {"write_report"}

\* _checkpoint_lifecycle_for_node
CheckpointLifecycle(n) ==
  CASE n = "evidence" -> "evidence_checking"
    [] n \in {"quality", "finalize", "human_review"} -> "quality_checking"
    [] n \notin {"evidence", "quality", "finalize", "human_review"} -> "generating"

-----------------------------------------------------------------------------
(***************************************************************************)
(* Row and checkpoint updates.                                             *)
(***************************************************************************)
SetLifecycle(l) == status' = StatusOf(l) /\ stage' = StageOf(l)

\* The lifecycle a handler sees after its own "if failed or timeout: restore".
AfterRestore(target) == IF lifecycle \in Interrupted THEN target ELSE lifecycle

\* The exception handlers of run_task and of a checkpoint retry; resume_runtime
\* has none.
GuardedRetryOnly == {"retry"}
Guarded == {"run", "retry"}

FailRowAlways == SetLifecycle("failed")

FailRow ==
  IF lifecycle \in InProgress THEN SetLifecycle("failed") ELSE UNCHANGED <<status, stage>>

Pending(n) == [next |-> n, answered |-> FALSE]

GoIdle(w) ==
  /\ at' = [at EXCEPT ![w] = "idle"]
  /\ phase' = [phase EXCEPT ![w] = "work"]
  /\ entry' = [entry EXCEPT ![w] = "run"]

Goto(w, n) ==
  /\ at' = [at EXCEPT ![w] = n]
  /\ phase' = [phase EXCEPT ![w] = FirstPhase(n)]
  /\ UNCHANGED entry

Advance(w, p) == phase' = [phase EXCEPT ![w] = p] /\ UNCHANGED <<at, entry>>

Start(w, call) ==
  /\ at[w] = "idle"
  /\ at' = [at EXCEPT ![w] = "starting"]
  /\ entry' = [entry EXCEPT ![w] = call]
  /\ UNCHANGED phase

Init ==
  /\ status = StatusOf("queued") /\ stage = StageOf("queued") /\ started = "none"
  /\ gate = "absent" /\ verdict = "absent" /\ claims = {} /\ report = "none"
  /\ covered = FALSE
  /\ ckpt = Pending("none")
  /\ at = [w \in Workers |-> "idle"]
  /\ phase = [w \in Workers |-> "work"]
  /\ entry = [w \in Workers |-> "run"]

-----------------------------------------------------------------------------
(***************************************************************************)
(* Client operations.                                                      *)
(***************************************************************************)

\* run_task (and start_task, whose own transition is queued -> queued): a
\* task that has stopped short of completion is requeued and started in one
\* transaction.  started_at is only set when it is empty.
StartableAlsoArchived == {"queued", "failed", "timeout", "quality_failed", "archived"}

Startable == {"queued", "failed", "timeout", "quality_failed"}

Run(w) ==
  /\ "run" \in Ops
  /\ status \in Startable
  /\ SetLifecycle("evidence_checking")
  /\ started' = IF started = "none" THEN "recent" ELSE started
  /\ Start(w, "run")
  /\ UNCHANGED <<data, ckpt>>

\* retry_runtime_checkpoint, up to the call of LangGraph: only a failed or
\* timed-out row is restored, no other status is rejected.
RetryCheckpoint(w) ==
  /\ "retry_checkpoint" \in Ops
  /\ ckpt.next \in Nodes
  /\ IF lifecycle \in Interrupted
     THEN SetLifecycle(CheckpointLifecycle(ckpt.next)) ELSE UNCHANGED <<status, stage>>
  /\ Start(w, "retry")
  /\ UNCHANGED <<started, data, ckpt>>

\* resume_runtime calls LangGraph whatever the row says.
Resume(w) ==
  /\ "resume" \in Ops
  /\ Start(w, "resume")
  /\ UNCHANGED <<row, data, ckpt>>

\* retry_task without run_immediately; with it, this step followed by Run.
RetryTask ==
  /\ "retry_task" \in Ops
  /\ status \notin {"running", "archived"}
  /\ Legal(lifecycle, "queued")
  /\ SetLifecycle("queued")
  /\ started' = "none"
  /\ UNCHANGED <<data, ckpt, exec>>

Cancel ==
  /\ "cancel" \in Ops
  /\ status \notin {"running", "completed", "failed", "cancelled", "archived"}
  /\ Legal(lifecycle, "cancelled")
  /\ SetLifecycle("cancelled")
  /\ UNCHANGED <<started, data, ckpt, exec>>

Archive ==
  /\ "archive" \in Ops
  /\ status \notin {"running", "archived"}
  /\ Legal(lifecycle, "archived")
  /\ SetLifecycle("archived")
  /\ UNCHANGED <<started, data, ckpt, exec>>

\* bulk_archive_failed_tasks, as it treats this task.
BulkArchivable ==
  /\ status \in {"failed", "quality_failed", "timeout", "cancelled"} \/ gate = "blocked"
  /\ status \notin {"completed", "running", "archived"}

BulkArchive ==
  /\ "bulk_archive" \in Ops
  /\ BulkArchivable
  /\ Legal(lifecycle, "archived")
  /\ SetLifecycle("archived")
  /\ UNCHANGED <<started, data, ckpt, exec>>

\* ClaimReviewService: a decision changes review marks, whatever the task is
\* doing, and never the verification of a claim.
Review ==
  /\ "review" \in Ops
  /\ claims # {}
  /\ claims' \in ClaimStates \ {{}}
  /\ "unsupported" \in claims' <=> "unsupported" \in claims
  /\ UNCHANGED <<row, gate, verdict, report, covered, ckpt, exec>>

-----------------------------------------------------------------------------
(***************************************************************************)
(* Executor steps.                                                         *)
(***************************************************************************)

\* LangGraph receives the call: a payload restarts the graph at START; None
\* and Command(resume) continue at the pending node, and a resume answers
\* the interrupt that node is pending on.  A finished graph has nothing to do.
FirstNode == "official_evidence_backfill"

\* A bug: what the pending node was doing when it was cut off is taken for done.
ResumeAfterPending ==
  IF NextNode(ckpt.next) = "end" THEN ckpt.next ELSE NextNode(ckpt.next)

ResumePoint == ckpt.next

Begin(w) ==
  /\ at[w] = "starting"
  /\ UNCHANGED <<row, data>>
  /\ \/ /\ entry[w] = "run"
        /\ ckpt' = Pending(FirstNode)
        /\ Goto(w, FirstNode)
     \/ /\ entry[w] # "run" /\ ckpt.next \in Nodes
        /\ ckpt' = IF entry[w] = "resume" /\ ckpt.next = "human_review"
                   THEN [ckpt EXCEPT !.answered = TRUE] ELSE ckpt
        /\ Goto(w, ResumePoint)
     \/ /\ entry[w] # "run" /\ ckpt.next \notin Nodes
        /\ GoIdle(w)
        /\ UNCHANGED ckpt

At(w, n, p) == at[w] = n /\ phase[w] = p

\* The evidence and quality handlers restore a failed or timed-out row; the
\* quality gate and the writer then make an ordinary transition.
EnterEvidence(w) ==
  /\ At(w, "evidence", "enter")
  /\ IF lifecycle \in Interrupted
     THEN SetLifecycle("evidence_checking") ELSE UNCHANGED <<status, stage>>
  /\ Advance(w, "work")
  /\ UNCHANGED <<started, data, ckpt>>

EnterInto(w, n, target) ==
  /\ At(w, n, "enter")
  /\ Legal(AfterRestore(target), target)
  /\ SetLifecycle(target)
  /\ Advance(w, "work")
  /\ UNCHANGED <<started, data, ckpt>>

EnterWriteReportUnchecked(w) ==
  /\ At(w, "write_report", "enter")
  /\ IF lifecycle \in Interrupted
     THEN SetLifecycle("generating") ELSE UNCHANGED <<status, stage>>
  /\ Advance(w, "work")
  /\ UNCHANGED <<started, data, ckpt>>

EnterWriteReport(w) == EnterInto(w, "write_report", "generating")
EnterQuality(w) == EnterInto(w, "quality", "quality_checking")

\* _record_agent_stage: current_stage is overwritten whatever the status is.
AgentStarted(w) ==
  /\ at[w] \in AgentNodes /\ phase[w] = "work"
  /\ stage' = "agent"
  /\ UNCHANGED <<status, started, data, ckpt, exec>>

\* run_evidence_gate: the verdict is stored; only a row in evidence_checking
\* is moved by a blocked gate.  "draft" is a gate that passed or was skipped
\* without being ready for delivery.
EvidenceGate(w) ==
  /\ At(w, "evidence", "work")
  /\ gate' \in {"blocked", "draft", "ready"}
  /\ IF gate' = "blocked" /\ lifecycle = "evidence_checking"
     THEN SetLifecycle("evidence_blocked") ELSE UNCHANGED <<status, stage>>
  /\ Advance(w, "leave")
  /\ UNCHANGED <<started, verdict, claims, report, covered, ckpt>>

\* Official backfill imports the artifacts only when evidence.json exists.
Backfill(w) ==
  /\ At(w, "official_evidence_backfill", "work")
  /\ Advance(w, "import") \/ Advance(w, "leave")
  /\ UNCHANGED <<row, data, ckpt>>

\* The orchestrator writes the report files.  Outside static mode the run ends
\* with a transition to generating at stage artifact_import.
WriteReport(w) ==
  /\ At(w, "write_report", "work")
  /\ report' = IF report = "none" THEN "disk" ELSE report
  /\ covered' = FALSE
  /\ \/ Static /\ UNCHANGED <<status, stage>>
     \/ /\ ~Static /\ Legal(lifecycle, "generating")
        /\ status' = "running" /\ stage' = "artifact_import"
  /\ Advance(w, "import")
  /\ UNCHANGED <<started, gate, verdict, claims, ckpt>>

\* Section repair rewrites the report when a section failed its contract.
RepairSections(w) ==
  /\ At(w, "repair_failed_sections", "work")
  /\ covered' \in {covered, FALSE}
  /\ Advance(w, "leave")
  /\ UNCHANGED <<row, gate, verdict, claims, report, ckpt>>

\* run_quality_gate after its transition: the pipeline reads the report on
\* disk and its verdict is stored.
QualityGate(w) ==
  /\ At(w, "quality", "work")
  /\ verdict' \in {"pass", "fail"}
  /\ covered' = TRUE
  /\ Advance(w, "import")
  /\ UNCHANGED <<row, gate, claims, report, ckpt>>

\* ArtifactImporter.import_for_task: claims are deleted and inserted again
\* from claims.json, report files on disk are registered.
Import(w) ==
  /\ at[w] \in ImportNodes /\ phase[w] = "import"
  /\ claims' \in ClaimStates
  /\ report' = IF report = "none" THEN "none" ELSE "imported"
  /\ Advance(w, "leave")
  /\ UNCHANGED <<row, gate, verdict, covered, ckpt>>

FinalIfJudged == IF verdict # "absent" THEN "generation_completed" ELSE "quality_blocked"

FinalLifecycle == IF verdict = "pass" THEN "generation_completed" ELSE "quality_blocked"

Finalize(w) ==
  /\ At(w, "finalize", "work")
  /\ Legal(AfterRestore("quality_checking"), FinalLifecycle)
  /\ SetLifecycle(FinalLifecycle)
  /\ Advance(w, "leave")
  /\ UNCHANGED <<started, data, ckpt>>

\* human_review: without an answer interrupt() ends the call and leaves the
\* node pending; with one the handler records it and the graph ends.
Interrupt(w) ==
  /\ At(w, "human_review", "work") /\ ~ckpt.answered
  /\ GoIdle(w)
  /\ UNCHANGED <<row, data, ckpt>>

RecordReview(w) ==
  /\ At(w, "human_review", "work") /\ ckpt.answered
  /\ Advance(w, "leave")
  /\ UNCHANGED <<row, data, ckpt>>

\* Every other handler works on files and metadata outside this model.
PlainNodes == Nodes \ (EnterNodes \cup ImportNodes \cup
                       {"repair_failed_sections", "finalize", "human_review"})

PlainWork(w) ==
  /\ at[w] \in PlainNodes /\ phase[w] = "work"
  /\ Advance(w, "leave")
  /\ UNCHANGED <<row, data, ckpt>>

\* The node's patch reaches LangGraph: checkpoint, then the next node; at the
\* end of the graph the call returns.
Leave(w) ==
  /\ at[w] \in Nodes /\ phase[w] = "leave"
  /\ ckpt' = Pending(NextNode(at[w]))
  /\ IF NextNode(at[w]) = "end" THEN GoIdle(w) ELSE Goto(w, NextNode(at[w]))
  /\ UNCHANGED <<row, data>>

\* An exception anywhere between the start of the call and the checkpoint of
\* a node: the checkpoint stays at the node.  run_task and a checkpoint retry
\* catch it and fail the row; resume_runtime has no handler.
Raise(w) ==
  /\ at[w] # "idle"
  /\ IF entry[w] \in Guarded THEN FailRow ELSE UNCHANGED <<status, stage>>
  /\ GoIdle(w)
  /\ UNCHANGED <<started, data, ckpt>>

\* The process dies and starts again: every executor is gone, and
\* recover_stale_running_tasks times out a running task that started more
\* than an hour ago.
Recoverable == status = "running" /\ started = "stale"

CrashRestart ==
  /\ "crash" \in Ops
  /\ at' = [w \in Workers |-> "idle"]
  /\ phase' = [w \in Workers |-> "work"]
  /\ entry' = [w \in Workers |-> "run"]
  /\ IF Recoverable THEN SetLifecycle("timeout") ELSE UNCHANGED <<status, stage>>
  /\ UNCHANGED <<started, data, ckpt>>

\* An hour passes since started_at.
Age ==
  /\ started = "recent"
  /\ started' = "stale"
  /\ UNCHANGED <<status, stage, data, ckpt, exec>>

-----------------------------------------------------------------------------
Handler(w) ==
  \/ EnterEvidence(w) \/ EvidenceGate(w) \/ EnterWriteReport(w) \/ WriteReport(w)
  \/ EnterQuality(w) \/ QualityGate(w) \/ Backfill(w) \/ Import(w)
  \/ RepairSections(w) \/ Finalize(w) \/ Interrupt(w) \/ RecordReview(w)
  \/ PlainWork(w) \/ AgentStarted(w)

ExecutorStep(w) == Begin(w) \/ Handler(w) \/ Leave(w) \/ Raise(w)

ClientStep ==
  \/ RetryTask \/ Cancel \/ Archive \/ BulkArchive \/ Review
  \/ \E w \in Workers : Run(w) \/ RetryCheckpoint(w) \/ Resume(w)

Next ==
  \/ \E w \in Workers : ExecutorStep(w)
  \/ ClientStep
  \/ CrashRestart
  \/ Age

Spec == Init /\ [][Next]_vars

\* A call that has started keeps running: agent calls, tools and models all
\* have timeouts, so every step ends or raises.  Nothing is assumed of the
\* clients, of crashes or of the clock.
FairSpec == Spec /\ \A w \in Workers : WF_vars(ExecutorStep(w))

-----------------------------------------------------------------------------
(***************************************************************************)
(* Properties.                                                             *)
(***************************************************************************)
Ckpts == [next : Nodes \cup {"none", "end"}, answered : BOOLEAN]

\* Every variable has its type, and the two columns always spell a lifecycle.
TypeOK ==
  /\ status \in Statuses /\ stage \in Stages /\ started \in {"none", "recent", "stale"}
  /\ gate \in Gates /\ verdict \in Verdicts /\ claims \in ClaimStates
  /\ report \in {"none", "disk", "imported"} /\ covered \in BOOLEAN
  /\ ckpt \in Ckpts
  /\ at \in [Workers -> Nodes \cup {"idle", "starting"}]
  /\ phase \in [Workers -> {"enter", "work", "import", "leave"}]
  /\ entry \in [Workers -> {"run", "retry", "resume"}]

\* Nothing brings an archived task back, however many executors and requests
\* are in flight: no handler, progress callback, failure handler, checkpoint
\* retry or restart moves its row ("archived" has no successor in the table).
ArchivedIsFinal == [][status = "archived" => status' = "archived"]_vars

\* A task is shown as completed only on a passing quality verdict computed on
\* the very report that is on disk: not one left over from an earlier run, and
\* not one older than the last rewrite or section repair.
CompletedOnFreshVerdict ==
  lifecycle = "generation_completed" => verdict = "pass" /\ covered

PastGate == Nodes \ {"official_evidence_backfill", "evidence"}

\* No agent works, and no checkpoint lets one be retried, past an evidence gate
\* that is missing or blocked.
GateBeforeAgents ==
  ckpt.next \in PastGate \/ (\E w \in Workers : at[w] \in PastGate) => gate \in {"draft", "ready"}

Writing(w) == at[w] \in {"write_report", "quality"} /\ phase[w] \in {"work", "import"}

\* While an executor writes the report, judges it or imports either result the
\* row says running, so no client can cancel, archive or requeue the task under it.
WriterHoldsTask == \A w \in Workers : Writing(w) => status = "running"

Reached(nodes) == ckpt.next \in nodes \/ \E w \in Workers : at[w] \in nodes

PastWriter == {"verify_report", "inspect_agent_execution", "verify_sections",
               "repair_failed_sections", "quality", "finalize", "human_review"}

Judged == covered /\ verdict # "absent"

\* Effects reach the files and the row before the checkpoint moves, and a retry or
\* resume goes on at the checkpoint: whichever crash, exception or restore cut a
\* handler off, no node is reached without what the nodes before it leave.  Past
\* the writer a report is registered, and finalize and the human review find a
\* verdict on the report on disk.
NoEffectSkipped ==
  /\ Reached(PastWriter) => report = "imported"
  /\ Reached({"finalize", "human_review"}) => Judged

\* A row that says running has an executor behind it: run, start and retry
\* requests are refused with "already running" exactly while that is so.
RunningHasExecutor == status = "running" => \E w \in Workers : at[w] # "idle"

\* At most one executor serves a task.
SingleExecutor == \A v, w \in Workers : at[v] # "idle" /\ at[w] # "idle" => v = w

\* A started task reaches an outcome.
RunSettles == status = "running" ~> status # "running"

\* Formal export is open only for a report the machine gate has judged.
DeliverableReportIsJudged ==
  CanDeliver(Blockers(lifecycle, gate, verdict, claims, report = "imported")) => covered

\* The bulk clean-up of failed tasks leaves deliverable and reviewable work alone.
BulkArchiveSparesDeliverable ==
  [][BulkArchive => ~CanDeliver(Blockers(lifecycle, gate, verdict, claims, report = "imported"))
                 /\ ~CanReview(Blockers(lifecycle, gate, verdict, claims, report = "imported"))]_vars

\* Services move a task along the canonical table, through an implicit retry or
\* through a checkpoint restore (that the same commit may follow with one legal
\* transition), and in no other way.
LifecycleFollowsTable ==
  [][\/ Legal(lifecycle, lifecycle')
     \/ \E restored \in RestoreTargets :
          Restorable(lifecycle, restored) /\ Legal(restored, lifecycle')
     \/ lifecycle \notin InProgress /\ lifecycle' = "evidence_checking"]_vars

(***************************************************************************)
(* What has to be added to these to make them inductive for one executor.  *)
(***************************************************************************)
\* The checkpoint is pending at the node in execution.
CheckpointFollowsExecutor ==
  \A w \in Workers : at[w] \in Nodes => ckpt.next = at[w]

\* A call of run_task that has not reached the graph holds the row it started.
StartingRunHoldsTask ==
  \A w \in Workers : at[w] = "starting" /\ entry[w] = "run" => lifecycle = "evidence_checking"

\* The evidence node leaves with a stored gate, the quality node with a verdict
\* on the current report; the checkpoint keeps that until finalize has run.
GateStored == \A w \in Workers : at[w] = "evidence" /\ phase[w] = "leave" => gate # "absent"

\* The writer's report is there to be imported, and then is.
ReportStored ==
  \A w \in Workers : at[w] = "write_report" =>
    /\ phase[w] = "import" => report # "none"
    /\ phase[w] = "leave" => report = "imported"

VerdictStored ==
  \A w \in Workers : at[w] = "quality" /\ phase[w] \in {"import", "leave"} => Judged

\* Where the checkpoint is pending once the row has left generation.
PendingWhere ==
  /\ lifecycle = "evidence_blocked" => ckpt.next \in {"evidence", "end"}
  /\ lifecycle = "quality_checking" => ckpt.next \in {"quality", "finalize", "human_review", "end"}
  /\ lifecycle = "generation_completed" => ckpt.next \in {"finalize", "human_review", "end"}

Inductive ==
  /\ CheckpointFollowsExecutor /\ GateBeforeAgents /\ WriterHoldsTask
  /\ CompletedOnFreshVerdict /\ NoEffectSkipped
  /\ StartingRunHoldsTask /\ GateStored /\ ReportStored /\ VerdictStored /\ PendingWhere

Abstract == INSTANCE TaskLifecycle WITH lifecycle <- lifecycle

\* The lifecycle the two columns spell behaves as the abstract task.
ImplementsTaskLifecycle == Abstract!Spec
=============================================================================
