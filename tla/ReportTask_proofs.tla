-------------------------- MODULE ReportTask_proofs --------------------------
(***************************************************************************)
(* What ReportTask guarantees for every set of executors, every choice of  *)
(* operations and both orchestrator modes.                                 *)
(***************************************************************************)
EXTENDS ReportTask, TLAPS

(***************************************************************************)
(* The two legacy columns.                                                 *)
(***************************************************************************)

\* Writing a lifecycle into status and current_stage and reading it back is
\* the identity (_LEGACY_PROJECTION against resolve_lifecycle_status).
LEMMA ProjectionRoundTrip ==
  ASSUME NEW l \in Lifecycles
  PROVE  /\ Resolve(StatusOf(l), StageOf(l)) = l
         /\ StatusOf(l) \in Statuses /\ StageOf(l) \in Stages
         /\ StatusOf(l) = "running" <=> l \in InProgress
  BY DEF Lifecycles, Resolve, StatusOf, StageOf, Statuses, Stages, InProgress, SameName

\* Whatever the columns hold, they resolve to a lifecycle, and "running" and
\* "archived" are told from the status alone.
LEMMA ResolveIsLifecycle ==
  ASSUME NEW s \in Statuses, NEW g \in Stages
  PROVE  /\ Resolve(s, g) \in Lifecycles
         /\ Resolve(s, g) \in InProgress <=> s = "running"
         /\ Resolve(s, g) = "archived" <=> s = "archived"
         /\ Resolve(s, g) \in Interrupted <=> s \in {"failed", "timeout"}
  BY DEF Resolve, Statuses, Stages, Lifecycles, InProgress, Interrupted, SameName

\* No edge leaves the graph, and a restore always enters a running lifecycle.
LEMMA GraphIsClosed ==
  ASSUME NEW n \in Nodes
  PROVE  /\ NextNode(n) \in Nodes \cup {"end"}
         /\ CheckpointLifecycle(n) \in InProgress
         /\ FirstPhase(n) \in {"enter", "work"}
  BY DEF Nodes, NextNode, RouteAfterEvidence, RouteAfterFinalize, FixedEdge,
         CheckpointLifecycle, InProgress, FirstPhase

\* The running lifecycles are lifecycles.
LEMMA InProgressAreLifecycles == InProgress \subseteq Lifecycles
  BY DEF InProgress, Lifecycles

\* Setting the columns through a lifecycle keeps them well typed.
LEMMA SetLifecycleType ==
  ASSUME NEW l \in Lifecycles, SetLifecycle(l)
  PROVE  status' \in Statuses /\ stage' \in Stages /\ lifecycle' = l
  BY ProjectionRoundTrip DEF SetLifecycle, lifecycle

\* The executor bookkeeping keeps its types.
ExecType ==
  /\ at \in [Workers -> Nodes \cup {"idle", "starting"}]
  /\ phase \in [Workers -> {"enter", "work", "import", "leave"}]
  /\ entry \in [Workers -> {"run", "retry", "resume"}]

\* The moves of an executor keep its node, phase and call typed.
LEMMA ExecMovesType ==
  ASSUME ExecType, NEW w \in Workers
  PROVE  /\ GoIdle(w) => ExecType'
         /\ \A n \in Nodes : Goto(w, n) => ExecType'
         /\ \A p \in {"enter", "work", "import", "leave"} : Advance(w, p) => ExecType'
         /\ \A c \in {"run", "retry", "resume"} : Start(w, c) => ExecType'
         /\ UNCHANGED exec => ExecType'
<1>1. GoIdle(w) => ExecType'
  BY DEF ExecType, GoIdle
<1>2. ASSUME NEW n \in Nodes, Goto(w, n) PROVE ExecType'
  <2>1. FirstPhase(n) \in {"enter", "work"}
    BY GraphIsClosed
  <2> QED
    BY <1>2, <2>1 DEF ExecType, Goto
<1>3. ASSUME NEW p \in {"enter", "work", "import", "leave"}, Advance(w, p) PROVE ExecType'
  BY <1>3 DEF ExecType, Advance
<1>4. ASSUME NEW c \in {"run", "retry", "resume"}, Start(w, c) PROVE ExecType'
  BY <1>4 DEF ExecType, Start
<1>5. UNCHANGED exec => ExecType'
  BY DEF ExecType, exec
<1> QED
  BY <1>1, <1>2, <1>3, <1>4, <1>5

\* The row's part of TypeOK, and what an executor may do to it.
RowType == status \in Statuses /\ stage \in Stages /\ started \in {"none", "recent", "stale"}

DataType ==
  /\ gate \in Gates /\ verdict \in Verdicts /\ claims \in ClaimStates
  /\ report \in {"none", "disk", "imported"} /\ covered \in BOOLEAN

\* A checkpoint is typed whatever node it is pending at.
LEMMA PendingType == \A n \in Nodes \cup {"none", "end"} : Pending(n) \in Ckpts
  BY DEF Pending, Ckpts

\* Every variable keeps its type: in particular the two columns spell a
\* lifecycle after every handler, callback, failure handler and restart.
THEOREM TypeCorrect == Spec => []TypeOK
<1>1. Init => TypeOK
  <2> SUFFICES ASSUME Init PROVE TypeOK
    OBVIOUS
  <2>1. status \in Statuses /\ stage \in Stages
    BY DEF Init, StatusOf, StageOf, Statuses, Stages, SameName, InProgress
  <2>2. ckpt \in Ckpts
    BY PendingType DEF Init
  <2> QED
    BY <2>1, <2>2, ClaimsAssumption DEF Init, TypeOK, Gates, Verdicts
<1>2. TypeOK /\ [Next]_vars => TypeOK'
  <2> SUFFICES ASSUME TypeOK, [Next]_vars PROVE TypeOK'
    OBVIOUS
  <2>a. RowType /\ DataType /\ ExecType /\ ckpt \in Ckpts
    BY DEF TypeOK, RowType, DataType, ExecType
  <2>b. (RowType /\ DataType /\ ExecType /\ ckpt \in Ckpts)' => TypeOK'
    BY DEF TypeOK, RowType, DataType, ExecType
  <2>c. UNCHANGED row => RowType'
    BY <2>a DEF RowType, row
  <2>d. UNCHANGED data => DataType'
    BY <2>a DEF DataType, data
  <2>e. \A l \in Lifecycles : SetLifecycle(l) => status' \in Statuses /\ stage' \in Stages
    BY SetLifecycleType
  <2>f. UNCHANGED <<status, stage>> => status' \in Statuses /\ stage' \in Stages
    BY <2>a DEF RowType
  <2>g. lifecycle \in Lifecycles
    BY <2>a, ResolveIsLifecycle DEF RowType, lifecycle
  <2>1. ASSUME NEW w \in Workers, Run(w) PROVE TypeOK'
    <3>1. "evidence_checking" \in Lifecycles
      BY DEF Lifecycles
    <3>2. ExecType'
      BY <2>1, <2>a, ExecMovesType DEF Run
    <3> QED
      BY <2>1, <2>a, <2>b, <2>d, <2>e, <3>1, <3>2 DEF Run, RowType
  <2>2. ASSUME NEW w \in Workers, RetryCheckpoint(w) PROVE TypeOK'
    <3>1. CheckpointLifecycle(ckpt.next) \in Lifecycles
      BY <2>2, GraphIsClosed, InProgressAreLifecycles DEF RetryCheckpoint
    <3>2. ExecType'
      BY <2>2, <2>a, ExecMovesType DEF RetryCheckpoint
    <3> QED
      BY <2>2, <2>a, <2>b, <2>d, <2>e, <2>f, <3>1, <3>2 DEF RetryCheckpoint, RowType
  <2>3. ASSUME NEW w \in Workers, Resume(w) PROVE TypeOK'
    <3>1. ExecType'
      BY <2>3, <2>a, ExecMovesType DEF Resume
    <3> QED
      BY <2>3, <2>a, <2>b, <2>c, <2>d, <3>1 DEF Resume
  <2>4. ASSUME RetryTask \/ Cancel \/ Archive \/ BulkArchive PROVE TypeOK'
    <3>1. {"queued", "cancelled", "archived"} \subseteq Lifecycles
      BY DEF Lifecycles
    <3> QED
      BY <2>4, <2>a, <2>b, <2>d, <2>e, <3>1, ExecMovesType
      DEF RetryTask, Cancel, Archive, BulkArchive, RowType, exec, ExecType
  <2>5. CASE Review
    BY <2>5, <2>a, <2>b, <2>c DEF Review, DataType, exec, ExecType
  <2>6. ASSUME NEW w \in Workers, Begin(w) PROVE TypeOK'
    <3>1. FirstNode \in Nodes
      BY DEF FirstNode, Nodes
    <3>2. ckpt' \in Ckpts
      BY <2>6, <2>a, <3>1, PendingType, ZenonT(40) DEF Begin, Ckpts
    <3>3. ExecType'
      BY <2>6, <2>a, <3>1, ExecMovesType DEF Begin, ResumePoint
    <3> QED
      BY <2>6, <2>a, <2>b, <2>c, <2>d, <3>2, <3>3 DEF Begin
  <2>7. ASSUME NEW w \in Workers, Handler(w) PROVE TypeOK'
    <3> DEFINE Phases == {"enter", "work", "import", "leave"}
    <3>m. \A p \in Phases : Advance(w, p) => ExecType'
      BY <2>a, ExecMovesType
    <3>t. {"evidence_checking", "generating", "quality_checking", "evidence_blocked"} \subseteq Lifecycles
      BY DEF Lifecycles
    <3>1. CASE EnterEvidence(w)
      BY <3>1, <2>a, <2>b, <2>d, <2>e, <2>f, <3>m, <3>t DEF EnterEvidence, RowType
    <3>2. CASE EnterWriteReport(w) \/ EnterQuality(w)
      BY <3>2, <2>a, <2>b, <2>d, <2>e, <3>m, <3>t
      DEF EnterWriteReport, EnterQuality, EnterInto, RowType
    <3>3. CASE EvidenceGate(w)
      <4>1. gate' \in Gates
        BY <3>3 DEF EvidenceGate, Gates
      <4> QED
        BY <3>3, <4>1, <2>a, <2>b, <2>e, <2>f, <3>m, <3>t DEF EvidenceGate, RowType, DataType
    <3>4. CASE WriteReport(w)
      <4>1. "running" \in Statuses /\ "artifact_import" \in Stages
        BY DEF Statuses, Stages
      <4> QED
        BY <3>4, <4>1, <2>a, <2>b, <2>f, <3>m DEF WriteReport, RowType, DataType
    <3>5. CASE QualityGate(w)
      <4>1. verdict' \in Verdicts
        BY <3>5 DEF QualityGate, Verdicts
      <4> QED
        BY <3>5, <4>1, <2>a, <2>b, <2>c, <3>m DEF QualityGate, DataType
    <3>6. CASE Backfill(w) \/ PlainWork(w) \/ RecordReview(w)
      BY <3>6, <2>a, <2>b, <2>c, <2>d, <3>m DEF Backfill, PlainWork, RecordReview
    <3>7. CASE Import(w)
      BY <3>7, <2>a, <2>b, <2>c, <3>m DEF Import, DataType
    <3>8. CASE RepairSections(w)
      BY <3>8, <2>a, <2>b, <2>c, <3>m DEF RepairSections, DataType
    <3>9. CASE Finalize(w)
      <4>1. FinalLifecycle \in Lifecycles
        BY DEF FinalLifecycle, Lifecycles
      <4> QED
        BY <3>9, <4>1, <2>a, <2>b, <2>d, <2>e, <3>m DEF Finalize, RowType
    <3>10. CASE Interrupt(w)
      BY <3>10, <2>a, <2>b, <2>c, <2>d, ExecMovesType DEF Interrupt
    <3>11. CASE AgentStarted(w)
      <4>1. "agent" \in Stages
        BY DEF Stages
      <4> QED
        BY <3>11, <4>1, <2>a, <2>b, <2>d, ExecMovesType DEF AgentStarted, RowType, exec, ExecType
    <3> QED
      BY <2>7, <3>1, <3>2, <3>3, <3>4, <3>5, <3>6, <3>7, <3>8, <3>9, <3>10, <3>11 DEF Handler
  <2>8. ASSUME NEW w \in Workers, Leave(w) PROVE TypeOK'
    <3>1. NextNode(at[w]) \in Nodes \cup {"end"}
      BY <2>8, GraphIsClosed DEF Leave
    <3>2. ckpt' \in Ckpts
      BY <2>8, <3>1, PendingType DEF Leave
    <3>3. ExecType'
      BY <2>8, <3>1, <2>a, ExecMovesType DEF Leave
    <3> QED
      BY <2>8, <2>a, <2>b, <2>c, <2>d, <3>2, <3>3 DEF Leave
  <2>9. ASSUME NEW w \in Workers, Raise(w) PROVE TypeOK'
    <3>1. "failed" \in Lifecycles
      BY DEF Lifecycles
    <3>2. ExecType'
      BY <2>9, <2>a, ExecMovesType DEF Raise
    <3> QED
      BY <2>9, <2>a, <2>b, <2>d, <2>e, <2>f, <3>1, <3>2 DEF Raise, FailRow, RowType
  <2>10. CASE CrashRestart
    <3>1. "timeout" \in Lifecycles
      BY DEF Lifecycles
    <3> QED
      BY <2>10, <2>a, <2>b, <2>d, <2>e, <2>f, <3>1 DEF CrashRestart, RowType, ExecType
  <2>11. CASE Age
    BY <2>11, <2>a, <2>b, <2>d DEF Age, RowType, exec, ExecType
  <2>12. CASE UNCHANGED vars
    BY <2>12, <2>a, <2>b DEF vars, RowType, DataType, ExecType
  <2> QED
    BY <2>1, <2>2, <2>3, <2>4, <2>5, <2>6, <2>7, <2>8, <2>9, <2>10, <2>11, <2>12
    DEF Next, ClientStep, ExecutorStep
<1> QED
  BY <1>1, <1>2, PTL DEF Spec

-----------------------------------------------------------------------------
(***************************************************************************)
(* Archived tasks, for any number of executors.                            *)
(***************************************************************************)

\* Once archived always archived, whatever calls are still running: the table
\* gives "archived" no successor, restores and failure handlers look at the
\* lifecycle first, and the progress callback only touches current_stage.
THEOREM ArchivedStays == Spec => ArchivedIsFinal
<1>1. TypeOK /\ [Next]_vars => (status = "archived" => status' = "archived")
  <2> SUFFICES ASSUME TypeOK, [Next]_vars, status = "archived" PROVE status' = "archived"
    OBVIOUS
  <2>a. lifecycle = "archived"
    BY ResolveIsLifecycle DEF TypeOK, lifecycle
  <2>b. lifecycle \notin Interrupted /\ lifecycle \notin InProgress
    BY <2>a DEF Interrupted, InProgress
  <2>c. \A l : Legal(lifecycle, l) => l = "archived"
    BY <2>a DEF Legal, Successors, Settled
  <2>1. ASSUME NEW w \in Workers, Run(w) \/ RetryCheckpoint(w) \/ Resume(w) PROVE status' = "archived"
    BY <2>1, <2>b DEF Run, RetryCheckpoint, Resume, Startable, row
  <2>2. CASE RetryTask \/ Cancel \/ Archive \/ BulkArchive
    BY <2>2 DEF RetryTask, Cancel, Archive, BulkArchive, BulkArchivable
  <2>3. CASE Review
    BY <2>3 DEF Review, row
  <2>4. ASSUME NEW w \in Workers, Handler(w) PROVE status' = "archived"
    <3>1. CASE EnterEvidence(w)
      BY <3>1, <2>b DEF EnterEvidence
    <3>2. CASE EnterWriteReport(w) \/ EnterQuality(w)
      BY <3>2, <2>b, <2>c DEF EnterWriteReport, EnterQuality, EnterInto, AfterRestore
    <3>3. CASE EvidenceGate(w)
      BY <3>3, <2>a DEF EvidenceGate
    <3>4. CASE WriteReport(w)
      BY <3>4, <2>c DEF WriteReport
    <3>5. CASE Finalize(w)
      <4>1. FinalLifecycle # "archived"
        BY DEF FinalLifecycle
      <4> QED
        BY <3>5, <4>1, <2>b, <2>c DEF Finalize, AfterRestore
    <3>6. CASE QualityGate(w) \/ Backfill(w) \/ Import(w) \/ RepairSections(w)
              \/ Interrupt(w) \/ RecordReview(w) \/ PlainWork(w) \/ AgentStarted(w)
      BY <3>6 DEF QualityGate, Backfill, Import, RepairSections, Interrupt, RecordReview,
         PlainWork, AgentStarted, row
    <3> QED
      BY <2>4, <3>1, <3>2, <3>3, <3>4, <3>5, <3>6 DEF Handler
  <2>5. ASSUME NEW w \in Workers, Begin(w) \/ Leave(w) \/ Raise(w) PROVE status' = "archived"
    BY <2>5, <2>b DEF Begin, Leave, Raise, FailRow, row
  <2>6. CASE CrashRestart
    BY <2>6 DEF CrashRestart, Recoverable
  <2>7. CASE Age \/ UNCHANGED vars
    BY <2>7 DEF Age, vars
  <2> QED
    BY <2>1, <2>2, <2>3, <2>4, <2>5, <2>6, <2>7 DEF Next, ClientStep, ExecutorStep
<1> QED
  BY <1>1, TypeCorrect, PTL DEF Spec, ArchivedIsFinal

-----------------------------------------------------------------------------
(***************************************************************************)
(* One executor at a time.                                                 *)
(***************************************************************************)
Single == \A v, w \in Workers : v = w

\* Status and lifecycle speak of the same thing before and after a step.
LEMMA RunningIsInProgress ==
  ASSUME TypeOK
  PROVE  /\ lifecycle \in Lifecycles
         /\ status = "running" <=> lifecycle \in InProgress
  BY ResolveIsLifecycle DEF TypeOK, lifecycle

\* A client request that moves the row finds it at rest and leaves it at rest,
\* in a lifecycle none of the invariants speaks of.
LEMMA ClientMovesKeep ==
  ASSUME TypeOK, Inductive, RetryTask \/ Cancel \/ Archive \/ BulkArchive
  PROVE  Inductive'
<1>1. status # "running" /\ UNCHANGED <<data, ckpt, exec>>
  BY DEF RetryTask, Cancel, Archive, BulkArchive, BulkArchivable, TypeOK, Legal,
     lifecycle, Resolve, Successors, Settled, SameName, Statuses
<1>2. lifecycle' \in {"queued", "cancelled", "archived"}
  <2>1. {"queued", "cancelled", "archived"} \subseteq Lifecycles
    BY DEF Lifecycles
  <2> QED
    BY <2>1, SetLifecycleType DEF RetryTask, Cancel, Archive, BulkArchive
<1>3. lifecycle # "evidence_checking"
  BY <1>1, RunningIsInProgress DEF InProgress
<1> QED
  BY <1>1, <1>2, <1>3 DEF Inductive, CheckpointFollowsExecutor, GateBeforeAgents, WriterHoldsTask,
     Writing, CompletedOnFreshVerdict, StartingRunHoldsTask, GateStored, VerdictStored,
     Judged, NoEffectSkipped, Reached, PastWriter, ReportStored, PendingWhere, data, exec

\* The same for a step that changes neither the row's columns nor the checkpoint
\* nor an executor, and only claims or started_at.
LEMMA QuietStepsKeep ==
  ASSUME Inductive, UNCHANGED <<status, stage, gate, verdict, report, covered, ckpt, exec>>
  PROVE  Inductive'
BY DEF Inductive, CheckpointFollowsExecutor, GateBeforeAgents, WriterHoldsTask,
   Writing, CompletedOnFreshVerdict, StartingRunHoldsTask, GateStored, VerdictStored,
   Judged, NoEffectSkipped, Reached, PastWriter, ReportStored, PendingWhere, exec, lifecycle

\* With one executor (no second start, no retry of a running task) every action of
\* ReportTask keeps the strengthened invariant: the inductive step of the theorems below.
THEOREM SingleExecutorInduction ==
  ASSUME Single, TypeOK, TypeOK', Inductive, [Next]_vars
  PROVE  Inductive'
<1> USE DEF Single
<1>r. status = "running" <=> lifecycle \in InProgress
  BY RunningIsInProgress
<1>s. status' = "running" <=> lifecycle' \in InProgress
  BY ResolveIsLifecycle DEF TypeOK, lifecycle
<1>u. UNCHANGED <<status, stage>> => lifecycle' = lifecycle
  BY DEF lifecycle
<1>l. \A l \in Lifecycles : SetLifecycle(l) => lifecycle' = l
  BY SetLifecycleType
<1> DEFINE
    Late == {"quality", "finalize", "human_review", "end"}
<1>1. ASSUME NEW w \in Workers, Run(w) PROVE Inductive'
  <2>1. lifecycle' = "evidence_checking"
    BY <1>1, <1>l DEF Run, Lifecycles
  <2>2. status' = "running"
    BY <1>s, <2>1 DEF InProgress
  <2> QED
    BY <1>1, <2>1, <2>2 DEF Run, Start, data, Inductive, CheckpointFollowsExecutor,
       GateBeforeAgents, WriterHoldsTask, Writing, CompletedOnFreshVerdict, StartingRunHoldsTask,
       GateStored, VerdictStored, Judged,
       NoEffectSkipped, Reached, PastWriter, ReportStored, PendingWhere, Nodes, PastGate, TypeOK
<1>2. ASSUME NEW w \in Workers, RetryCheckpoint(w) PROVE Inductive'
  <2>1. CASE lifecycle \in Interrupted
    <3>1. lifecycle' = CheckpointLifecycle(ckpt.next)
      BY <1>2, <2>1, <1>l, GraphIsClosed, InProgressAreLifecycles DEF RetryCheckpoint
    <3>2. lifecycle' = "quality_checking" => ckpt.next \in Late
      BY <3>1, <1>2 DEF CheckpointLifecycle, RetryCheckpoint
    <3>3. lifecycle' \in InProgress
      BY <3>1, <1>2, GraphIsClosed DEF RetryCheckpoint
    <3> QED
      BY <1>2, <3>2, <3>3, <1>s DEF RetryCheckpoint, Start, data, Inductive,
         CheckpointFollowsExecutor, GateBeforeAgents, WriterHoldsTask, Writing,
         CompletedOnFreshVerdict, StartingRunHoldsTask, GateStored, VerdictStored, Judged,
         NoEffectSkipped, Reached, PastWriter, ReportStored,
         PendingWhere, Nodes, PastGate, TypeOK, InProgress
  <2>2. CASE lifecycle \notin Interrupted
    BY <1>2, <2>2, <1>u DEF RetryCheckpoint, Start, data, Inductive,
       CheckpointFollowsExecutor, GateBeforeAgents, WriterHoldsTask, Writing,
       CompletedOnFreshVerdict, StartingRunHoldsTask, GateStored, VerdictStored, Judged,
       NoEffectSkipped, Reached, PastWriter, ReportStored,
       PendingWhere, Nodes, PastGate, TypeOK
  <2> QED
    BY <2>1, <2>2
<1>3. ASSUME NEW w \in Workers, Resume(w) PROVE Inductive'
  BY <1>3, <1>u DEF Resume, Start, row, data, Inductive, CheckpointFollowsExecutor,
     GateBeforeAgents, WriterHoldsTask, Writing, CompletedOnFreshVerdict, StartingRunHoldsTask,
     GateStored, VerdictStored, Judged,
     NoEffectSkipped, Reached, PastWriter, ReportStored, PendingWhere, Nodes, PastGate, TypeOK
<1>4. CASE RetryTask \/ Cancel \/ Archive \/ BulkArchive
  BY <1>4, ClientMovesKeep
<1>5. CASE Review \/ Age
  BY <1>5, QuietStepsKeep DEF Review, Age, row, data
<1>6. ASSUME NEW w \in Workers, Begin(w) PROVE Inductive'
  <2>1. UNCHANGED <<status, stage, gate, verdict, covered>> /\ lifecycle' = lifecycle
    BY <1>6, <1>u DEF Begin, row, data
  <2>2. CASE entry[w] = "run"
    <3>1. lifecycle = "evidence_checking"
      BY <1>6, <2>2 DEF Begin, Inductive, StartingRunHoldsTask
    <3>2. /\ ckpt'.next = "official_evidence_backfill"
          /\ at' = [at EXCEPT ![w] = "official_evidence_backfill"]
          /\ phase' = [phase EXCEPT ![w] = "work"] /\ UNCHANGED entry
      BY <1>6, <2>2 DEF Begin, Goto, Pending, FirstNode, FirstPhase, EnterNodes
    <3> QED
      BY <2>1, <3>1, <3>2 DEF Inductive, CheckpointFollowsExecutor, GateBeforeAgents, WriterHoldsTask, Writing,
         CompletedOnFreshVerdict, StartingRunHoldsTask, GateStored, VerdictStored, Judged,
         NoEffectSkipped, Reached, PastWriter, ReportStored, PendingWhere,
         TypeOK, PastGate, Nodes
  <2>3. CASE entry[w] # "run" /\ ckpt.next \in Nodes
    <3>1. /\ ckpt'.next = ckpt.next
          /\ at' = [at EXCEPT ![w] = ckpt.next]
          /\ phase' = [phase EXCEPT ![w] = FirstPhase(ckpt.next)] /\ UNCHANGED entry
      BY <1>6, <2>3 DEF Begin, Goto, ResumePoint, TypeOK, Ckpts
    <3>2. /\ FirstPhase(ckpt.next) \in {"enter", "work"}
          /\ ckpt.next \in EnterNodes => FirstPhase(ckpt.next) = "enter"
      BY DEF FirstPhase
    <3>3. report' = report /\ \A v \in Workers : at'[v] = ckpt.next /\ phase'[v] = FirstPhase(ckpt.next)
      BY <1>6, <3>1 DEF Begin, data, TypeOK
    <3>4. NoEffectSkipped' /\ ReportStored'
      BY <2>1, <3>1, <3>2, <3>3 DEF Inductive, NoEffectSkipped, Reached, Judged, ReportStored
    <3>5. CheckpointFollowsExecutor' /\ GateBeforeAgents' /\ WriterHoldsTask' /\ GateStored' /\ VerdictStored'
      BY <2>1, <2>3, <3>1, <3>2, <3>3 DEF Inductive, CheckpointFollowsExecutor, GateBeforeAgents,
         WriterHoldsTask, Writing, GateStored, VerdictStored, EnterNodes
    <3>6. CompletedOnFreshVerdict' /\ StartingRunHoldsTask' /\ PendingWhere'
      BY <2>1, <2>3, <3>1, <3>3 DEF Inductive, CompletedOnFreshVerdict, StartingRunHoldsTask, PendingWhere, Nodes
    <3> QED
      BY <3>4, <3>5, <3>6 DEF Inductive
  <2>4. CASE entry[w] # "run" /\ ckpt.next \notin Nodes
    BY <2>1, <2>4, <1>6 DEF Begin, GoIdle, Inductive, CheckpointFollowsExecutor, GateBeforeAgents, WriterHoldsTask, Writing,
       CompletedOnFreshVerdict, StartingRunHoldsTask, GateStored, VerdictStored, Judged,
       NoEffectSkipped, Reached, PastWriter, ReportStored, PendingWhere,
       TypeOK, PastGate, Nodes
  <2> QED
    BY <1>6, <2>2, <2>3, <2>4 DEF Begin
<1>7. ASSUME NEW w \in Workers, EnterEvidence(w) PROVE Inductive'
  <2>1. lifecycle' \in {lifecycle, "evidence_checking"}
    BY <1>7, <1>u, <1>l DEF EnterEvidence, Lifecycles
  <2> QED
    BY <1>7, <2>1 DEF EnterEvidence, At, Advance, data, Inductive, CheckpointFollowsExecutor, GateBeforeAgents, WriterHoldsTask, Writing,
       CompletedOnFreshVerdict, StartingRunHoldsTask, GateStored, VerdictStored, Judged,
       NoEffectSkipped, Reached, PastWriter, ReportStored, PendingWhere,
       TypeOK, PastGate, Nodes
<1>8. ASSUME NEW w \in Workers, EnterWriteReport(w) PROVE Inductive'
  <2>1. lifecycle' = "generating" /\ status' = "running"
    BY <1>8, <1>l, <1>s DEF EnterWriteReport, EnterInto, Lifecycles, InProgress
  <2> QED
    BY <1>8, <2>1 DEF EnterWriteReport, EnterInto, At, Advance, data, Inductive, CheckpointFollowsExecutor, GateBeforeAgents, WriterHoldsTask, Writing,
       CompletedOnFreshVerdict, StartingRunHoldsTask, GateStored, VerdictStored, Judged,
       NoEffectSkipped, Reached, PastWriter, ReportStored, PendingWhere,
       TypeOK, PastGate, Nodes
<1>9. ASSUME NEW w \in Workers, EnterQuality(w) PROVE Inductive'
  <2>1. lifecycle' = "quality_checking" /\ status' = "running"
    BY <1>9, <1>l, <1>s DEF EnterQuality, EnterInto, Lifecycles, InProgress
  <2> QED
    BY <1>9, <2>1 DEF EnterQuality, EnterInto, At, Advance, data, Inductive, CheckpointFollowsExecutor, GateBeforeAgents, WriterHoldsTask, Writing,
       CompletedOnFreshVerdict, StartingRunHoldsTask, GateStored, VerdictStored, Judged,
       NoEffectSkipped, Reached, PastWriter, ReportStored, PendingWhere,
       TypeOK, PastGate, Nodes
<1>10. ASSUME NEW w \in Workers, EvidenceGate(w) PROVE Inductive'
  <2>1. lifecycle' \in {lifecycle, "evidence_blocked"}
    BY <1>10, <1>u, <1>l DEF EvidenceGate, Lifecycles
  <2> QED
    BY <1>10, <2>1 DEF EvidenceGate, At, Advance, Inductive, CheckpointFollowsExecutor, GateBeforeAgents, WriterHoldsTask, Writing,
       CompletedOnFreshVerdict, StartingRunHoldsTask, GateStored, VerdictStored, Judged,
       NoEffectSkipped, Reached, PastWriter, ReportStored, PendingWhere,
       TypeOK, PastGate, Nodes
<1>11. ASSUME NEW w \in Workers, WriteReport(w) PROVE Inductive'
  <2>1. status' = "running" /\ lifecycle' \in {lifecycle, "generating"}
    BY <1>11, <1>u DEF WriteReport, At, Inductive, WriterHoldsTask, Writing, lifecycle, Resolve, SameName
  <2> QED
    BY <1>11, <2>1, <1>s DEF WriteReport, At, Advance, InProgress, Inductive, CheckpointFollowsExecutor, GateBeforeAgents, WriterHoldsTask, Writing,
       CompletedOnFreshVerdict, StartingRunHoldsTask, GateStored, VerdictStored, Judged,
       NoEffectSkipped, Reached, PastWriter, ReportStored, PendingWhere,
       TypeOK, PastGate, Nodes
<1>12. ASSUME NEW w \in Workers, RepairSections(w) PROVE Inductive'
  BY <1>12, <1>u DEF RepairSections, At, Advance, row, Inductive, CheckpointFollowsExecutor, GateBeforeAgents, WriterHoldsTask, Writing,
     CompletedOnFreshVerdict, StartingRunHoldsTask, GateStored, VerdictStored, Judged,
     NoEffectSkipped, Reached, PastWriter, ReportStored, PendingWhere,
     TypeOK, PastGate, Nodes
<1>13. ASSUME NEW w \in Workers, QualityGate(w) PROVE Inductive'
  BY <1>13, <1>u DEF QualityGate, At, Advance, row, Inductive, CheckpointFollowsExecutor, GateBeforeAgents, WriterHoldsTask, Writing,
     CompletedOnFreshVerdict, StartingRunHoldsTask, GateStored, VerdictStored, Judged,
     NoEffectSkipped, Reached, PastWriter, ReportStored, PendingWhere,
     TypeOK, PastGate, Nodes
<1>14. ASSUME NEW w \in Workers, Backfill(w) \/ Import(w) \/ PlainWork(w) \/ RecordReview(w)
       PROVE  Inductive'
  <2>1. at[w] \notin {"evidence", "idle", "starting"}
    BY <1>14 DEF Backfill, Import, PlainWork, RecordReview, At, ImportNodes, PlainNodes, EnterNodes, Nodes
  <2>2. at[w] = "quality" => phase[w] = "import"
    BY <1>14 DEF Backfill, Import, PlainWork, RecordReview, At, ImportNodes, PlainNodes, EnterNodes
  <2>3. at[w] = "write_report" => phase[w] = "import"
    BY <1>14 DEF Backfill, Import, PlainWork, RecordReview, At, ImportNodes, PlainNodes, EnterNodes
  <2>4. /\ UNCHANGED <<status, stage, gate, verdict, covered, ckpt, at, entry>>
        /\ Advance(w, "leave") \/ (at[w] = "official_evidence_backfill" /\ Advance(w, "import"))
    BY <1>14 DEF Backfill, Import, PlainWork, RecordReview, At, Advance, row, data
  <2>5. /\ report' \in {report, "imported"} /\ (report' = "none" <=> report = "none")
        /\ at[w] = "write_report" => report' = "imported"
    BY <1>14, <2>3 DEF Backfill, Import, PlainWork, RecordReview, data, Inductive, ReportStored,
       ImportNodes, PlainNodes, EnterNodes, Nodes, At
  <2> QED
    BY <2>1, <2>2, <2>3, <2>4, <2>5, <1>u DEF Advance, Inductive, CheckpointFollowsExecutor, GateBeforeAgents, WriterHoldsTask, Writing,
       CompletedOnFreshVerdict, StartingRunHoldsTask, GateStored, VerdictStored, Judged,
       NoEffectSkipped, Reached, PastWriter, ReportStored, PendingWhere,
       TypeOK, PastGate, Nodes
<1>15. ASSUME NEW w \in Workers, Finalize(w) PROVE Inductive'
  <2>1. /\ lifecycle' = FinalLifecycle
        /\ FinalLifecycle \in {"generation_completed", "quality_blocked"}
        /\ FinalLifecycle = "generation_completed" => verdict = "pass"
    BY <1>15, <1>l DEF Finalize, FinalLifecycle, Lifecycles
  <2>2. ckpt.next = "finalize" /\ Judged
    BY <1>15 DEF Finalize, At, Inductive, CheckpointFollowsExecutor, NoEffectSkipped, Reached, Nodes
  <2> QED
    BY <1>15, <2>1, <2>2 DEF Finalize, At, Advance, data, Inductive, CheckpointFollowsExecutor, GateBeforeAgents, WriterHoldsTask, Writing,
       CompletedOnFreshVerdict, StartingRunHoldsTask, GateStored, VerdictStored, Judged,
       NoEffectSkipped, Reached, PastWriter, ReportStored, PendingWhere,
       TypeOK, PastGate, Nodes
<1>16. ASSUME NEW w \in Workers, Interrupt(w) PROVE Inductive'
  BY <1>16, <1>u DEF Interrupt, GoIdle, row, data, Inductive, CheckpointFollowsExecutor, GateBeforeAgents, WriterHoldsTask, Writing,
     CompletedOnFreshVerdict, StartingRunHoldsTask, GateStored, VerdictStored, Judged,
     NoEffectSkipped, Reached, PastWriter, ReportStored, PendingWhere,
     TypeOK, PastGate, Nodes
<1>17. ASSUME NEW w \in Workers, AgentStarted(w) PROVE Inductive'
  <2>1. ckpt.next \in AgentNodes
    BY <1>17 DEF AgentStarted, Inductive, CheckpointFollowsExecutor, AgentNodes, Nodes
  <2>2. status' = status /\ at[w] # "starting"
    BY <1>17 DEF AgentStarted, AgentNodes
  <2>3. lifecycle' \in {lifecycle, "generating", "quality_blocked"}
    <3>1. lifecycle' = Resolve(status, "agent")
      BY <1>17 DEF AgentStarted, lifecycle
    <3> QED
      BY <3>1 DEF lifecycle, Resolve, TypeOK, Statuses, SameName
  <2> QED
    BY <1>17, <2>1, <2>2, <2>3 DEF AgentStarted, data, exec, AgentNodes, Inductive, CheckpointFollowsExecutor, GateBeforeAgents, WriterHoldsTask, Writing,
       CompletedOnFreshVerdict, StartingRunHoldsTask, GateStored, VerdictStored, Judged,
       NoEffectSkipped, Reached, PastWriter, ReportStored, PendingWhere,
       TypeOK, PastGate, Nodes
<1>18. ASSUME NEW w \in Workers, Leave(w) PROVE Inductive'
  <2> DEFINE n == NextNode(at[w])
  <2>1. /\ UNCHANGED <<status, stage, gate, verdict, report, covered>> /\ lifecycle' = lifecycle
        /\ ckpt'.next = n /\ ckpt.next = at[w]
    BY <1>18, <1>u DEF Leave, row, data, Pending, Inductive, CheckpointFollowsExecutor
  <2>2. /\ at' = [at EXCEPT ![w] = IF n = "end" THEN "idle" ELSE n]
        /\ phase'[w] \in {"enter", "work"}
        /\ n \in EnterNodes => phase'[w] = "enter"
    <3>1. FirstPhase(n) \in {"enter", "work"} /\ (n \in EnterNodes => FirstPhase(n) = "enter")
      BY DEF FirstPhase
    <3> QED
      BY <1>18, <3>1 DEF Leave, GoIdle, Goto, TypeOK, EnterNodes
  <2>3. /\ n \in PastGate => gate \in {"draft", "ready"}
        /\ n = "finalize" => at[w] = "quality"
        /\ lifecycle = "evidence_blocked" /\ at[w] = "evidence" => n = "end"
        /\ lifecycle = "quality_checking" /\ at[w] \in Late => n \in Late
        /\ at[w] \in {"finalize", "human_review"} => n \in {"human_review", "end"}
        /\ n = "human_review" => at[w] = "finalize"
        /\ n \in PastWriter => at[w] \in PastWriter \cup {"write_report"}
    <3>1. CASE at[w] = "evidence"
      BY <1>18, <3>1 DEF Leave, NextNode, RouteAfterEvidence, Inductive, GateStored, TypeOK, Gates, PastGate, PastWriter, Nodes
    <3>2. CASE at[w] = "finalize"
      BY <1>18, <3>2 DEF Leave, NextNode, RouteAfterFinalize, Inductive, GateBeforeAgents, PastGate, PastWriter, Nodes
    <3>3. CASE at[w] \notin {"evidence", "finalize"}
      BY <1>18, <3>3, ZenonT(40) DEF Leave, NextNode, FixedEdge, Inductive, GateBeforeAgents, PastGate, PastWriter, Nodes
    <3> QED
      BY <3>1, <3>2, <3>3
  <2>4. /\ n \in {"finalize", "human_review"} => Judged
        /\ n \in PastWriter => report = "imported"
    BY <1>18, <2>3 DEF Leave, Inductive, VerdictStored, ReportStored, NoEffectSkipped, Reached, PastWriter
  <2>5. \A v \in Workers : at'[v] = IF n = "end" THEN "idle" ELSE n
    BY <2>2 DEF TypeOK
  <2>6. at[w] \in Nodes
    BY <1>18 DEF Leave
  <2> HIDE DEF n
  <2>7. CheckpointFollowsExecutor' /\ GateBeforeAgents'
    BY <2>1, <2>3, <2>5 DEF CheckpointFollowsExecutor, GateBeforeAgents, PastGate, Nodes
  <2>8. WriterHoldsTask' /\ GateStored' /\ StartingRunHoldsTask'
    BY <2>1, <2>2, <2>5, <1>18 DEF WriterHoldsTask, Writing, GateStored, StartingRunHoldsTask,
       EnterNodes, TypeOK, Nodes, Ckpts
  <2>9. NoEffectSkipped' /\ VerdictStored' /\ ReportStored'
    BY <2>1, <2>2, <2>4, <2>5 DEF NoEffectSkipped, Reached, PastWriter, VerdictStored, ReportStored,
       Judged, EnterNodes
  <2>10. CompletedOnFreshVerdict' /\ PendingWhere'
    BY <2>1, <2>3, <2>6 DEF Inductive, CompletedOnFreshVerdict, PendingWhere, Nodes
  <2> QED
    BY <2>7, <2>8, <2>9, <2>10 DEF Inductive
<1>19. ASSUME NEW w \in Workers, Raise(w) PROVE Inductive'
  <2>1. lifecycle' \in {lifecycle, "failed"}
    BY <1>19, <1>u, <1>l DEF Raise, FailRow, Lifecycles
  <2> QED
    BY <1>19, <2>1 DEF Raise, GoIdle, data, Inductive, CheckpointFollowsExecutor, GateBeforeAgents, WriterHoldsTask, Writing,
       CompletedOnFreshVerdict, StartingRunHoldsTask, GateStored, VerdictStored, Judged,
       NoEffectSkipped, Reached, PastWriter, ReportStored, PendingWhere,
       TypeOK, PastGate, Nodes
<1>20. CASE CrashRestart
  <2>1. lifecycle' \in {lifecycle, "timeout"}
    BY <1>20, <1>u, <1>l DEF CrashRestart, Lifecycles
  <2> QED
    BY <1>20, <2>1 DEF CrashRestart, data, Inductive, CheckpointFollowsExecutor, GateBeforeAgents, WriterHoldsTask, Writing,
       CompletedOnFreshVerdict, StartingRunHoldsTask, GateStored, VerdictStored, Judged,
       NoEffectSkipped, Reached, PastWriter, ReportStored, PendingWhere,
       TypeOK, PastGate, Nodes
<1>21. CASE UNCHANGED vars
  BY <1>21, QuietStepsKeep DEF vars, exec
<1> QED
  BY <1>1, <1>2, <1>3, <1>4, <1>5, <1>6, <1>7, <1>8, <1>9, <1>10, <1>11, <1>12, <1>13, <1>14,
     <1>15, <1>16, <1>17, <1>18, <1>19, <1>20, <1>21
  DEF Next, ClientStep, ExecutorStep, Handler

\* For one executor the strengthened invariant holds throughout.
THEOREM SingleExecutorInvariant == Single => (Spec => []Inductive)
<1> SUFFICES ASSUME Single PROVE Spec => []Inductive
  OBVIOUS
<1>1. Init => Inductive
  <2> SUFFICES ASSUME Init PROVE Inductive
    OBVIOUS
  <2>1. lifecycle = "queued" /\ status = "queued"
    BY DEF Init, lifecycle, Resolve, StatusOf, StageOf, SameName, InProgress
  <2> QED
    BY <2>1 DEF Init, Pending, Inductive, CheckpointFollowsExecutor, GateBeforeAgents,
       WriterHoldsTask, Writing, CompletedOnFreshVerdict, StartingRunHoldsTask, GateStored,
       VerdictStored, Judged, NoEffectSkipped, Reached, PastWriter, ReportStored, PendingWhere, PastGate, Nodes
<1>2. TypeOK /\ TypeOK' /\ Inductive /\ [Next]_vars => Inductive'
  BY SingleExecutorInduction
<1> QED
  BY <1>1, <1>2, TypeCorrect, PTL DEF Spec

\* A completed task rests on a passing verdict about the report on disk.
THEOREM CompletedIsJudged == Single => (Spec => []CompletedOnFreshVerdict)
<1>1. Inductive => CompletedOnFreshVerdict
  BY DEF Inductive
<1> QED
  BY <1>1, SingleExecutorInvariant, PTL

\* No agent runs, or can be retried from a checkpoint, past a blocked gate.
THEOREM AgentsAreGated == Single => (Spec => []GateBeforeAgents)
<1>1. Inductive => GateBeforeAgents
  BY DEF Inductive
<1> QED
  BY <1>1, SingleExecutorInvariant, PTL

\* Nobody cancels, archives or requeues a task while its report is written or judged.
THEOREM WriterIsSafe == Single => (Spec => []WriterHoldsTask)
<1>1. Inductive => WriterHoldsTask
  BY DEF Inductive
<1> QED
  BY <1>1, SingleExecutorInvariant, PTL

\* Through every crash, exception, restore and retry, nobody gets past the writer or to
\* finalize without the report and the verdict that the nodes before them leave.
THEOREM NoEffectIsSkipped == Single => (Spec => []NoEffectSkipped)
<1>1. Inductive => NoEffectSkipped
  BY DEF Inductive
<1> QED
  BY <1>1, SingleExecutorInvariant, PTL

-----------------------------------------------------------------------------
\* The steps that keep to the table by their own guards.
LEMMA TableFollowed ==
  ASSUME TypeOK, Inductive, [Next]_vars, Single
  PROVE  \/ Legal(lifecycle, lifecycle')
         \/ \E restored \in RestoreTargets :
              Restorable(lifecycle, restored) /\ Legal(restored, lifecycle')
         \/ lifecycle \notin InProgress /\ lifecycle' = "evidence_checking"
<1> DEFINE
    Ok == \/ Legal(lifecycle, lifecycle')
          \/ \E restored \in RestoreTargets :
               Restorable(lifecycle, restored) /\ Legal(restored, lifecycle')
          \/ lifecycle \notin InProgress /\ lifecycle' = "evidence_checking"
<1>r. lifecycle \in Lifecycles /\ (status = "running" <=> lifecycle \in InProgress)
  BY RunningIsInProgress
<1>u. UNCHANGED <<status, stage>> => Ok
  BY DEF lifecycle, Legal
<1>l. \A l \in Lifecycles : SetLifecycle(l) => lifecycle' = l
  BY SetLifecycleType
<1>t. \A l \in RestoreTargets : lifecycle \in Interrupted /\ SetLifecycle(l) => Ok
  BY <1>l, InProgressAreLifecycles DEF RestoreTargets, Restorable, Legal
<1>k. /\ Legal("evidence_checking", "evidence_blocked") /\ Legal("evidence_checking", "generating")
      /\ \A l \in InProgress : Legal(l, "failed") /\ Legal(l, "timeout")
  <2>1. /\ Successors("evidence_checking") = {"evidence_blocked", "generating", "failed", "timeout", "cancelled"}
        /\ Successors("generating") = {"quality_checking", "failed", "timeout", "cancelled"}
        /\ Successors("quality_checking") = {"quality_blocked", "generation_completed", "failed", "timeout"}
    BY DEF Successors, Settled
  <2> QED
    BY <2>1 DEF Legal, InProgress
<1>1. ASSUME NEW w \in Workers, Run(w) PROVE Ok
  BY <1>1, <1>l, <1>r DEF Run, Startable, Lifecycles
<1>2. ASSUME NEW w \in Workers, RetryCheckpoint(w) PROVE Ok
  BY <1>2, <1>t, <1>u, GraphIsClosed DEF RetryCheckpoint, RestoreTargets
<1>3. CASE RetryTask \/ Cancel \/ Archive \/ BulkArchive
  BY <1>3, <1>l DEF RetryTask, Cancel, Archive, BulkArchive, Lifecycles
<1>4. ASSUME NEW w \in Workers, EnterEvidence(w) PROVE Ok
  BY <1>4, <1>t, <1>u DEF EnterEvidence, RestoreTargets, InProgress
<1>5. ASSUME NEW w \in Workers, EnterWriteReport(w) \/ EnterQuality(w) PROVE Ok
  <2>1. ASSUME NEW n, NEW l \in RestoreTargets, EnterInto(w, n, l) PROVE Ok
    <3>1. CASE lifecycle \in Interrupted
      BY <2>1, <3>1, <1>t DEF EnterInto
    <3>2. CASE lifecycle \notin Interrupted
      BY <2>1, <3>2, <1>l, InProgressAreLifecycles DEF EnterInto, AfterRestore, RestoreTargets
    <3> QED
      BY <3>1, <3>2
  <2> QED
    BY <1>5, <2>1 DEF EnterWriteReport, EnterQuality, RestoreTargets, InProgress
<1>6. ASSUME NEW w \in Workers, EvidenceGate(w) PROVE Ok
  BY <1>6, <1>l, <1>u, <1>k DEF EvidenceGate, Lifecycles
<1>7. ASSUME NEW w \in Workers, WriteReport(w) PROVE Ok
  <2>1. CASE Static
    BY <1>7, <2>1, <1>u DEF WriteReport
  <2>2. CASE ~Static
    <3>1. Legal(lifecycle, "generating") /\ status' = "running" /\ stage' = "artifact_import"
      BY <1>7, <2>2 DEF WriteReport
    <3>2. lifecycle' = "generating"
      BY <3>1 DEF lifecycle, Resolve, SameName
    <3> QED
      BY <3>1, <3>2
  <2> QED
    BY <2>1, <2>2
<1>8. ASSUME NEW w \in Workers, Finalize(w) PROVE Ok
  <2>1. lifecycle' = FinalLifecycle
    BY <1>8, <1>l DEF Finalize, FinalLifecycle, Lifecycles
  <2>2. Legal(AfterRestore("quality_checking"), lifecycle')
    BY <1>8, <2>1 DEF Finalize
  <2> QED
    BY <2>2 DEF AfterRestore, RestoreTargets, Restorable, InProgress
<1>9. ASSUME NEW w \in Workers, AgentStarted(w) PROVE Ok
  <2>1. ckpt.next \in AgentNodes
    BY <1>9 DEF AgentStarted, Inductive, CheckpointFollowsExecutor, AgentNodes, Nodes
  <2>2. lifecycle \notin {"evidence_blocked", "quality_checking"}
    BY <2>1 DEF AgentNodes, Inductive, PendingWhere
  <2>3. lifecycle' = Resolve(status, "agent")
    BY <1>9 DEF AgentStarted, lifecycle
  <2>4. lifecycle' = lifecycle \/ (lifecycle = "evidence_checking" /\ lifecycle' = "generating")
    BY <2>2, <2>3 DEF lifecycle, Resolve, TypeOK, Statuses, SameName
  <2>5. Legal(lifecycle, lifecycle)
    BY DEF Legal
  <2> QED
    BY <2>4, <2>5, <1>k
<1>10. ASSUME NEW w \in Workers, Raise(w) PROVE Ok
  <2>1. CASE lifecycle \in InProgress /\ SetLifecycle("failed")
    BY <2>1, <1>l, <1>k DEF Lifecycles
  <2> QED
    BY <1>10, <2>1, <1>u DEF Raise, FailRow
<1>11. CASE CrashRestart
  <2>1. CASE status = "running" /\ SetLifecycle("timeout")
    BY <2>1, <1>l, <1>r, <1>k DEF Lifecycles
  <2> QED
    BY <1>11, <2>1, <1>u DEF CrashRestart, Recoverable
<1>12. ASSUME UNCHANGED <<status, stage>> PROVE Ok
  BY <1>12, <1>u
<1>13. Review \/ Age \/ UNCHANGED vars => UNCHANGED <<status, stage>>
  BY DEF Review, Age, vars, row
<1>14. ASSUME NEW w \in Workers,
              Resume(w) \/ Begin(w) \/ Leave(w) \/ QualityGate(w) \/ Backfill(w) \/ Import(w)
              \/ RepairSections(w) \/ Interrupt(w) \/ RecordReview(w) \/ PlainWork(w)
       PROVE  UNCHANGED <<status, stage>>
  BY <1>14 DEF Resume, Begin, Leave, QualityGate, Backfill, Import, RepairSections, Interrupt,
     RecordReview, PlainWork, row
<1> QED
  BY <1>1, <1>2, <1>3, <1>4, <1>5, <1>6, <1>7, <1>8, <1>9, <1>10, <1>11, <1>12, <1>13, <1>14
  DEF Next, ClientStep, ExecutorStep, Handler

\* With one executor the row follows the canonical table through every retry,
\* failure and restart.  The progress callback writes its stage without looking
\* at the row, so this rests on where the checkpoint can be pending.
THEOREM TableIsFollowed == Single => (Spec => LifecycleFollowsTable)
<1> SUFFICES ASSUME Single PROVE Spec => LifecycleFollowsTable
  OBVIOUS
<1>1. TypeOK /\ Inductive /\ [Next]_vars =>
        \/ Legal(lifecycle, lifecycle')
        \/ \E restored \in RestoreTargets :
             Restorable(lifecycle, restored) /\ Legal(restored, lifecycle')
        \/ lifecycle \notin InProgress /\ lifecycle' = "evidence_checking"
  BY TableFollowed
<1> QED
  BY <1>1, TypeCorrect, SingleExecutorInvariant, PTL DEF Spec, LifecycleFollowsTable

-----------------------------------------------------------------------------
(***************************************************************************)
(* The plain operations: no checkpoint is retried or resumed, no process   *)
(* dies.  Then a row that runs has its executor and a row that failed has  *)
(* none, so that no handler ever finds one to restore and the task moves   *)
(* as TaskLifecycle says.                                                  *)
(***************************************************************************)
PlainOps == Ops \cap {"retry_checkpoint", "resume", "crash"} = {}

Active(w) == at[w] # "idle"

\* The places from which the graph ends.
AtTheEnd(w) ==
  \/ at[w] = "evidence" /\ phase[w] = "leave" /\ gate = "blocked"
  \/ at[w] = "finalize" /\ phase[w] = "leave"
  \/ at[w] = "human_review"

\* An executor came through run_task, and the row has not failed under it.  Until
\* the evidence gate has decided the row is where run_task put it, and where the
\* graph may end the row does not run any more.
Fits(w) ==
  /\ entry[w] = "run"
  /\ lifecycle \notin Interrupted
  /\ at[w] = "official_evidence_backfill" \/ (at[w] = "evidence" /\ phase[w] # "leave")
       => lifecycle = "evidence_checking"
  /\ AtTheEnd(w) => status # "running"

Plain == RunningHasExecutor /\ \A w \in Workers : Active(w) => Fits(w)

\* It is enough to look at the executor that moves.
LEMMA OneMoves ==
  ASSUME Single, NEW w \in Workers, status' = "running" => at'[w] # "idle", at'[w] # "idle" => Fits(w)'
  PROVE  Plain'
<1>1. \A v \in Workers : v = w
  BY DEF Single
<1> QED BY <1>1 DEF Plain, Active, RunningHasExecutor

\* Every step keeps it.
LEMMA PlainStep ==
  ASSUME Single, PlainOps, TypeOK, TypeOK', Inductive, Plain, [Next]_vars
  PROVE  Plain'
<1>r. lifecycle \in Lifecycles /\ (status = "running" <=> lifecycle \in InProgress)
  BY RunningIsInProgress
<1>l. \A l \in Lifecycles : SetLifecycle(l) => lifecycle' = l
  BY SetLifecycleType
<1>s. status' = "running" <=> lifecycle' \in InProgress
  BY ResolveIsLifecycle DEF TypeOK, lifecycle
<1>t. /\ at \in [Workers -> Nodes \cup {"idle", "starting"}]
      /\ phase \in [Workers -> {"enter", "work", "import", "leave"}]
      /\ entry \in [Workers -> {"run", "retry", "resume"}]
  BY DEF TypeOK
<1>u. UNCHANGED <<status, stage>> => lifecycle' = lifecycle
  BY DEF lifecycle
\* An executor that has done its part where nothing depends on it.
<1>a. ASSUME NEW w \in Workers, at[w] # "idle", NEW p, Advance(w, p), UNCHANGED <<status, stage, gate>>,
             at[w] # "evidence", at[w] # "finalize"
      PROVE  Plain'
  <2>1. at'[w] = at[w] /\ entry'[w] = entry[w] /\ lifecycle' = lifecycle
    BY <1>a, <1>u DEF Advance
  <2>2. Fits(w)
    BY <1>a DEF Plain, Active
  <2>3. Fits(w)'
    BY <1>a, <2>1, <2>2 DEF Fits, AtTheEnd
  <2> QED BY <1>a, <2>1, <2>3, OneMoves
<1>1. ASSUME NEW w \in Workers, Run(w) PROVE Plain'
  <2>1. /\ at'[w] = "starting" /\ entry'[w] = "run" /\ SetLifecycle("evidence_checking")
    BY <1>1, <1>t DEF Run, Start
  <2>2. lifecycle' = "evidence_checking"
    BY <2>1, <1>l DEF Lifecycles
  <2>3. Fits(w)'
    BY <2>1, <2>2 DEF Fits, AtTheEnd, Interrupted
  <2> QED BY <2>1, <2>3, OneMoves
<1>2. ASSUME NEW w \in Workers, Resume(w) \/ RetryCheckpoint(w) PROVE Plain'
  BY <1>2 DEF PlainOps, Resume, RetryCheckpoint
<1>3. CASE RetryTask \/ Cancel \/ Archive \/ BulkArchive
  <2>1. status # "running" /\ UNCHANGED <<gate, exec>>
    BY <1>3, <1>r DEF RetryTask, Cancel, Archive, BulkArchive, BulkArchivable, TypeOK, Legal, data,
       lifecycle, Resolve, Successors, Settled, SameName, Statuses
  <2>2. lifecycle' \in {"queued", "cancelled", "archived"}
    BY <1>3, <1>l DEF RetryTask, Cancel, Archive, BulkArchive, Lifecycles
  <2>3. status' # "running" /\ lifecycle' \notin Interrupted
    BY <2>2, <1>s DEF InProgress, Interrupted
  <2>4. lifecycle # "evidence_checking"
    BY <2>1, <1>r DEF InProgress
  <2>5. ASSUME NEW v \in Workers, Active(v)' PROVE Fits(v)'
    BY <2>1, <2>3, <2>4, <2>5 DEF Plain, Active, Fits, AtTheEnd, exec
  <2> QED BY <2>3, <2>5 DEF Plain, RunningHasExecutor
<1>4. CASE Review \/ Age \/ UNCHANGED vars
  <2>1. UNCHANGED <<status, stage, gate, at, phase, entry>>
    BY <1>4 DEF Review, Age, row, data, exec, vars
  <2> QED BY <2>1 DEF Plain, Active, Fits, AtTheEnd, RunningHasExecutor, lifecycle
<1>5. CASE CrashRestart
  BY <1>5 DEF CrashRestart, PlainOps
<1>6. ASSUME NEW w \in Workers, Begin(w) PROVE Plain'
  <2>1. at[w] = "starting" /\ entry[w] = "run" /\ lifecycle = "evidence_checking" /\ Fits(w)
    BY <1>6 DEF Begin, Plain, Active, Fits, AtTheEnd, Inductive, StartingRunHoldsTask
  <2>2. Goto(w, FirstNode) /\ UNCHANGED <<status, stage, gate>>
    BY <1>6, <2>1 DEF Begin, row, data
  <2>3. at'[w] = "official_evidence_backfill" /\ entry'[w] = "run" /\ lifecycle' = "evidence_checking"
    BY <2>1, <2>2, <1>t, <1>u DEF Goto, FirstNode
  <2>4. Fits(w)'
    BY <2>3 DEF Fits, AtTheEnd, Interrupted
  <2> QED BY <2>3, <2>4, OneMoves
<1>7. ASSUME NEW w \in Workers, EnterEvidence(w) PROVE Plain'
  <2>1. at[w] = "evidence" /\ phase[w] = "enter" /\ Fits(w)
    BY <1>7 DEF EnterEvidence, At, Plain, Active
  <2>2. /\ at'[w] = "evidence" /\ phase'[w] = "work" /\ entry'[w] = entry[w]
        /\ UNCHANGED <<status, stage, gate>>
    BY <1>7, <2>1, <1>t DEF EnterEvidence, Advance, data, Fits, AtTheEnd
  <2>3. Fits(w)'
    BY <2>1, <2>2, <1>u DEF Fits, AtTheEnd
  <2> QED BY <2>2, <2>3, OneMoves
<1>8. ASSUME NEW w \in Workers, EvidenceGate(w) PROVE Plain'
  <2>1. at[w] = "evidence" /\ phase[w] = "work" /\ Fits(w) /\ lifecycle = "evidence_checking"
    BY <1>8 DEF EvidenceGate, At, Plain, Active, Fits, AtTheEnd
  <2>2. at'[w] = "evidence" /\ phase'[w] = "leave" /\ entry'[w] = entry[w]
    BY <1>8, <2>1, <1>t DEF EvidenceGate, Advance
  <2>3. IF gate' = "blocked" THEN lifecycle' = "evidence_blocked" ELSE lifecycle' = lifecycle
    BY <1>8, <2>1, <1>l, <1>u DEF EvidenceGate, Lifecycles
  <2>4. Fits(w)'
    BY <2>1, <2>2, <2>3, <1>s DEF Fits, AtTheEnd, Interrupted, InProgress
  <2> QED BY <2>2, <2>4, OneMoves
<1>9. ASSUME NEW w \in Workers, EnterWriteReport(w) \/ EnterQuality(w) PROVE Plain'
  <2>1. /\ at[w] \in {"write_report", "quality"} /\ Fits(w)
        /\ Advance(w, "work") /\ (SetLifecycle("generating") \/ SetLifecycle("quality_checking"))
    BY <1>9 DEF EnterWriteReport, EnterQuality, EnterInto, At, Plain, Active
  <2>2. at'[w] = at[w] /\ entry'[w] = entry[w] /\ lifecycle' \in {"generating", "quality_checking"}
    BY <2>1, <1>l DEF Advance, Lifecycles
  <2>3. Fits(w)'
    BY <2>1, <2>2 DEF Fits, AtTheEnd, Interrupted
  <2> QED BY <2>1, <2>2, <2>3, OneMoves
<1>10. ASSUME NEW w \in Workers, WriteReport(w) PROVE Plain'
  <2>1. at[w] = "write_report" /\ Fits(w) /\ Advance(w, "import") /\ UNCHANGED gate
    BY <1>10 DEF WriteReport, At, Plain, Active
  <2>2. CASE UNCHANGED <<status, stage>>
    BY <2>1, <2>2, <1>a
  <2>3. CASE status' = "running" /\ stage' = "artifact_import"
    <3>1. lifecycle' = "generating"
      BY <2>3 DEF lifecycle, Resolve, SameName
    <3>2. at'[w] = at[w] /\ entry'[w] = entry[w]
      BY <2>1 DEF Advance
    <3>3. Fits(w)'
      BY <2>1, <3>1, <3>2 DEF Fits, AtTheEnd, Interrupted
    <3> QED BY <2>1, <3>2, <3>3, OneMoves
  <2> QED BY <1>10, <2>2, <2>3 DEF WriteReport
<1>11. ASSUME NEW w \in Workers,
              Backfill(w) \/ Import(w) \/ QualityGate(w) \/ RepairSections(w) \/ RecordReview(w) \/ PlainWork(w)
       PROVE  Plain'
  <2>1. /\ at[w] \notin {"idle", "evidence", "finalize"} /\ UNCHANGED <<status, stage, gate>>
        /\ \E p \in {"import", "leave"} : Advance(w, p)
    BY <1>11 DEF Backfill, Import, QualityGate, RepairSections, RecordReview, PlainWork, At, row, data,
       ImportNodes, PlainNodes, EnterNodes, Nodes
  <2> QED BY <2>1, <1>a
<1>12. ASSUME NEW w \in Workers, AgentStarted(w) PROVE Plain'
  <2>1. /\ at[w] \in AgentNodes /\ Fits(w) /\ stage' = "agent"
        /\ UNCHANGED <<status, gate, at, phase, entry>>
    BY <1>12 DEF AgentStarted, AgentNodes, Plain, Active, data, exec
  <2>2. at[w] \notin {"idle", "official_evidence_backfill", "evidence", "finalize", "human_review"}
    BY <2>1 DEF AgentNodes
  <2>3. lifecycle' \notin Interrupted
    BY <2>1, ResolveIsLifecycle DEF Fits, AtTheEnd, TypeOK, lifecycle
  <2>4. Fits(w)'
    BY <2>1, <2>2, <2>3 DEF Fits, AtTheEnd
  <2> QED BY <2>1, <2>2, <2>4, OneMoves
<1>13. ASSUME NEW w \in Workers, Finalize(w) PROVE Plain'
  <2>1. at[w] = "finalize" /\ Fits(w) /\ Advance(w, "leave") /\ SetLifecycle(FinalLifecycle)
    BY <1>13 DEF Finalize, At, Plain, Active
  <2>2. lifecycle' \in {"generation_completed", "quality_blocked"}
    BY <2>1, <1>l DEF FinalLifecycle, Lifecycles
  <2>3. status' # "running" /\ lifecycle' \notin Interrupted
    BY <2>2, <1>s DEF InProgress, Interrupted
  <2>4. at'[w] = at[w] /\ entry'[w] = entry[w]
    BY <2>1 DEF Advance
  <2>5. Fits(w)'
    BY <2>1, <2>3, <2>4 DEF Fits, AtTheEnd
  <2> QED BY <2>1, <2>3, <2>4, <2>5, OneMoves
<1>14. ASSUME NEW w \in Workers, Interrupt(w) PROVE Plain'
  <2>1. status' # "running" /\ at'[w] = "idle"
    BY <1>14, <1>t DEF Interrupt, At, Plain, Active, Fits, AtTheEnd, GoIdle, row
  <2> QED BY <2>1, OneMoves
<1>15. ASSUME NEW w \in Workers, Raise(w) PROVE Plain'
  <2>1. entry[w] \in Guarded /\ at'[w] = "idle" /\ FailRow
    BY <1>15, <1>t DEF Raise, Plain, Active, Fits, AtTheEnd, GoIdle, Guarded
  <2>2. status' # "running"
    BY <2>1, <1>l, <1>r, <1>s, <1>u DEF FailRow, Lifecycles, InProgress
  <2> QED BY <2>1, <2>2, OneMoves
<1>16. ASSUME NEW w \in Workers, Leave(w) PROVE Plain'
  <2>1. at[w] \in Nodes /\ phase[w] = "leave" /\ Fits(w) /\ UNCHANGED <<status, stage, gate>>
    BY <1>16 DEF Leave, Plain, Active, Nodes, row, data
  <2>2. CASE NextNode(at[w]) = "end"
    <3>1. at'[w] = "idle"
      BY <1>16, <2>2, <1>t DEF Leave, GoIdle
    <3>2. at[w] \in {"evidence", "finalize", "human_review"}
      BY <2>1, <2>2 DEF NextNode, FixedEdge, Nodes
    <3>3. at[w] = "evidence" => lifecycle = "evidence_blocked" \/ gate = "blocked"
      BY <2>2 DEF NextNode, RouteAfterEvidence
    <3>4. lifecycle = "evidence_blocked" => status # "running"
      BY <1>r DEF InProgress
    <3>5. at[w] = "evidence" /\ gate = "blocked" => status # "running"
      BY <2>1 DEF Fits, AtTheEnd
    <3>6. at[w] = "finalize" \/ at[w] = "human_review" => status # "running"
      BY <2>1 DEF Fits, AtTheEnd
    <3>7. status' # "running"
      BY <2>1, <3>2, <3>3, <3>4, <3>5, <3>6
    <3> QED BY <3>1, <3>7, OneMoves
  <2>3. CASE NextNode(at[w]) # "end"
    <3>1. at'[w] = NextNode(at[w]) /\ phase'[w] = FirstPhase(NextNode(at[w])) /\ entry'[w] = entry[w]
      BY <1>16, <2>3, <1>t DEF Leave, Goto
    <3>2. at'[w] \in Nodes /\ phase'[w] \in {"enter", "work"}
      BY <2>1, <2>3, <3>1, GraphIsClosed
    <3>3. at'[w] # "official_evidence_backfill"
      BY <2>1, <3>1 DEF NextNode, FixedEdge, Nodes, RouteAfterEvidence, RouteAfterFinalize
    <3>4. at'[w] = "evidence" => at[w] = "official_evidence_backfill"
      BY <2>1, <3>1 DEF NextNode, FixedEdge, Nodes, RouteAfterEvidence, RouteAfterFinalize
    <3>5. at'[w] = "human_review" => at[w] = "finalize"
      BY <2>1, <3>1 DEF NextNode, FixedEdge, Nodes, RouteAfterEvidence, RouteAfterFinalize
    <3>6. lifecycle' = lifecycle
      BY <2>1, <1>u
    <3>7. at'[w] = "evidence" => lifecycle' = "evidence_checking"
      BY <2>1, <3>4, <3>6 DEF Fits, AtTheEnd
    <3>8. at'[w] = "human_review" => status' # "running"
      BY <2>1, <3>5 DEF Fits, AtTheEnd
    <3>9. entry'[w] = "run" /\ lifecycle' \notin Interrupted
      BY <2>1, <3>1, <3>6 DEF Fits, AtTheEnd
    <3>10. Fits(w)'
      BY <3>2, <3>3, <3>7, <3>8, <3>9 DEF Fits, AtTheEnd
    <3>11. at'[w] # "idle"
      BY <3>2 DEF Nodes
    <3> QED BY <3>10, <3>11, OneMoves
  <2> QED BY <2>2, <2>3
<1> QED
  BY <1>1, <1>2, <1>3, <1>4, <1>5, <1>6, <1>7, <1>8, <1>9, <1>10, <1>11, <1>12, <1>13, <1>14, <1>15, <1>16
  DEF Next, ClientStep, ExecutorStep, Handler

\* Plain holds of every state the plain operations reach.
LEMMA PlainHolds == Single /\ PlainOps => (Spec => []Plain)
<1> SUFFICES ASSUME Single, PlainOps PROVE Spec => []Plain
  OBVIOUS
<1>1. Init => Plain
  BY DEF Init, Plain, Active, RunningHasExecutor, StatusOf, SameName, InProgress
<1>2. TypeOK /\ TypeOK' /\ Inductive /\ Plain /\ [Next]_vars => Plain'
  BY PlainStep
<1> QED
  BY <1>1, <1>2, TypeCorrect, SingleExecutorInvariant, PTL DEF Spec

\* As long as nobody retries or resumes a checkpoint and the process lives, a
\* row that says running has an executor behind it: "already running" is then
\* the truth, and every task that stops can be started again.
THEOREM RunningHasExecutorHolds == Single /\ PlainOps => (Spec => []RunningHasExecutor)
<1>1. Plain => RunningHasExecutor
  BY DEF Plain
<1> QED
  BY <1>1, PlainHolds, PTL

\* While the row has failed nothing is at work, so a step leaves it as it is
\* unless a client requeues, restarts or archives the task.
LEMMA FailedRowRests ==
  ASSUME PlainOps, TypeOK, Plain, [Next]_vars, lifecycle \in Interrupted
  PROVE  lifecycle' \in {lifecycle, "queued", "archived", "evidence_checking"}
<1>1. \A w \in Workers : at[w] = "idle"
  BY DEF Plain, Active, Fits
<1>l. \A l \in Lifecycles : SetLifecycle(l) => lifecycle' = l
  BY SetLifecycleType
<1>2. CASE RetryTask \/ Archive \/ BulkArchive
  BY <1>2, <1>l DEF RetryTask, Archive, BulkArchive, Lifecycles
<1>3. CASE Cancel
  <2>1. lifecycle' = "cancelled" /\ Legal(lifecycle, "cancelled")
    BY <1>3, <1>l DEF Cancel, Lifecycles
  <2>2. Successors(lifecycle) = {"queued", "archived"} /\ lifecycle # "cancelled"
    BY DEF Interrupted, Successors, Settled
  <2> QED BY <2>1, <2>2 DEF Legal
<1>4. ASSUME NEW w \in Workers, Run(w) PROVE lifecycle' = "evidence_checking"
  BY <1>4, <1>l DEF Run, Lifecycles
<1>5. ASSUME NEW w \in Workers, Resume(w) \/ RetryCheckpoint(w) PROVE FALSE
  BY <1>5 DEF PlainOps, Resume, RetryCheckpoint
<1>6. ASSUME NEW w \in Workers, ExecutorStep(w) PROVE FALSE
  <2>1. at[w] = "idle" /\ at[w] \notin Nodes /\ at[w] # "starting"
    BY <1>1 DEF Nodes
  <2>2. ~Begin(w) /\ ~Leave(w) /\ ~Raise(w)
    BY <2>1 DEF Begin, Leave, Raise
  <2>3. ~Handler(w)
    BY <2>1 DEF Handler, EnterEvidence, EvidenceGate, EnterWriteReport, WriteReport, EnterQuality, EnterInto,
       QualityGate, Backfill, Import, RepairSections, Finalize, Interrupt, RecordReview, PlainWork,
       AgentStarted, At, ImportNodes, PlainNodes, AgentNodes
  <2> QED BY <1>6, <2>2, <2>3 DEF ExecutorStep
<1>7. CASE Review \/ Age \/ UNCHANGED vars
  BY <1>7 DEF Review, Age, row, vars, lifecycle
<1>8. CASE CrashRestart
  BY <1>8 DEF CrashRestart, PlainOps
<1> QED
  BY <1>2, <1>3, <1>4, <1>5, <1>6, <1>7, <1>8 DEF Next, ClientStep

\* Each step of the detailed task is a step of the abstract one or leaves the
\* lifecycle alone.
LEMMA StepIsAbstract ==
  ASSUME Single, PlainOps, TypeOK, Inductive, Plain, [Next]_vars, status = "archived" => status' = "archived"
  PROVE  [Abstract!Next]_lifecycle
<1>1. lifecycle \in Lifecycles
  BY RunningIsInProgress
<1>2. lifecycle = "archived" => lifecycle' = "archived"
  BY ResolveIsLifecycle DEF TypeOK, lifecycle, Resolve, SameName
<1>3. ASSUME Legal(lifecycle, lifecycle') PROVE [Abstract!Next]_lifecycle
  BY <1>3 DEF Legal, Abstract!Next, Abstract!Move, Successors, Abstract!Successors, Settled, Abstract!Settled
<1>4. ASSUME lifecycle \notin InProgress, lifecycle' = "evidence_checking" PROVE [Abstract!Next]_lifecycle
  <2>1. CASE lifecycle = "queued"
    BY <1>4, <2>1 DEF Abstract!Next, Abstract!Move, Abstract!Successors, Abstract!Settled
  <2>2. CASE lifecycle \in Settled
    BY <1>4, <2>2 DEF Abstract!Next, Abstract!Restart, InProgress, Abstract!InProgress, Settled,
       Abstract!Settled, Abstract!Successors
  <2> QED BY <1>1, <1>2, <1>4, <2>1, <2>2 DEF Lifecycles, InProgress, Settled
<1>5. ASSUME lifecycle \in Interrupted PROVE [Abstract!Next]_lifecycle
  <2>1. lifecycle' \in {lifecycle, "queued", "archived", "evidence_checking"}
    BY <1>5, FailedRowRests
  <2>2. Successors(lifecycle) = {"queued", "archived"} /\ lifecycle \notin InProgress
    BY <1>5 DEF Interrupted, Successors, Settled, InProgress
  <2> QED BY <1>3, <1>4, <2>1, <2>2 DEF Legal
<1> QED
  BY <1>3, <1>4, <1>5, TableFollowed DEF Restorable

\* With the plain operations the row implements the abstract task, fairness
\* aside: it begins queued, and every commit of every handler, callback and
\* client call is one move along the table, one implicit retry, or no move.
THEOREM ImplementsTheTable ==
  Single /\ PlainOps => (Spec => Abstract!Init /\ [][Abstract!Next]_lifecycle)
<1> SUFFICES ASSUME Single, PlainOps PROVE Spec => Abstract!Init /\ [][Abstract!Next]_lifecycle
  OBVIOUS
<1>1. Init => Abstract!Init
  BY DEF Init, Abstract!Init, lifecycle, Resolve, StatusOf, StageOf, SameName, InProgress
<1>2. TypeOK /\ Inductive /\ Plain /\ [Next]_vars /\ (status = "archived" => status' = "archived")
        => [Abstract!Next]_lifecycle
  BY StepIsAbstract
<1>3. [status = "archived" => status' = "archived"]_vars <=> (status = "archived" => status' = "archived")
  BY DEF vars
<1> QED
  BY <1>1, <1>2, <1>3, TypeCorrect, SingleExecutorInvariant, PlainHolds, ArchivedStays, PTL
  DEF Spec, ArchivedIsFinal
=============================================================================
