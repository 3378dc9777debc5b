-------------------------- MODULE TaskRowRaces_proofs --------------------------
(***************************************************************************)
(* Any number of pool threads and scheduled calls share the row of a task, *)
(* and their transactions overlap.  Until a commit overwrites a row that   *)
(* has changed since it was read, the guards of the services are enough:   *)
(* no two calls execute the task, no row is left running, and no archived  *)
(* task comes back.                                                        *)
(***************************************************************************)
EXTENDS TaskRowRaces, TLAPS

\* A lifecycle survives its projection, and the projection of what a row spells
\* has the status of the row.
LEMMA Spelled ==
  ASSUME NEW l \in Lifecycles
  PROVE  /\ StatusOf(l) \in Statuses /\ StageOf(l) \in Stages
         /\ Resolve(StatusOf(l), StageOf(l)) = l
         /\ StatusOf(l) = "running" <=> l \in InProgress
BY DEF Lifecycles, InProgress, SameName, Statuses, Stages, StatusOf, StageOf, Resolve

LEMMA Spelling ==
  ASSUME NEW s \in Statuses, NEW g \in Stages
  PROVE  Resolve(s, g) \in Lifecycles /\ StatusOf(Resolve(s, g)) = s
BY DEF Lifecycles, InProgress, SameName, Statuses, Stages, StatusOf, Resolve

\* No legal move leads out of archived, and none of the requests but a refused
\* one reads a running or an archived row.
LEMMA Refused ==
  ASSUME NEW request \in Requests, NEW l \in Lifecycles, Accepts(request, l)
  PROVE  StatusOf(l) \notin {"running", "archived"}
BY DEF Requests, Lifecycles, Accepts, StatusOf, InProgress, SameName

-----------------------------------------------------------------------------
(***************************************************************************)
(* Types.  That the calls scheduled stay within the bound needs to be known*)
(* of a request that is open: no other actor schedules one before it       *)
(* commits.                                                                *)
(***************************************************************************)
Typed == TypeOK /\ (tx[Loop].op \in {"start", "retry"} => scheduled < MaxScheduled)

LEMMA TypedStep == Typed /\ [Next]_vars => Typed'
<1> SUFFICES ASSUME Typed, [Next]_vars PROVE Typed'
  OBVIOUS
<1> USE DEF Typed
<1> DEFINE Rows == [op : Steps \cup Requests \cup {"none"}, status : Statuses, stage : Stages]
<1>1. /\ status \in Statuses /\ stage \in Stages /\ scheduled \in 0..MaxScheduled
      /\ at \in [Threads -> Steps \cup {"idle"}] /\ tx \in [Actors -> Rows]
      /\ overwrote \in BOOLEAN
      /\ Loop \in Actors /\ Threads \subseteq Actors /\ MaxScheduled \in Nat /\ Loop \notin Threads
  BY BoundAssumption, LoopAssumption DEF TypeOK, Actors
<1>2. NoTx \in Rows /\ NoTx.op = "none"
  BY DEF NoTx, Statuses, Stages
<1> HIDE DEF Rows
\* What closing a transaction, going on, and writing a row leave.
<1>3. ASSUME NEW a \in Actors, Close(a)
      PROVE  tx' \in [Actors -> Rows] /\ (tx'[Loop].op \in {"start", "retry"} => tx'[Loop] = tx[Loop] /\ a # Loop)
  BY <1>1, <1>2, <1>3 DEF Close
<1>4. ASSUME NEW t \in Threads, NEW s \in Steps \cup {"idle"}, GoTo(t, s)
      PROVE  at' \in [Threads -> Steps \cup {"idle"}]
  BY <1>1, <1>4 DEF GoTo
<1>5. ASSUME NEW a \in Actors, NEW l \in Lifecycles, WriteLifecycle(a, l)
      PROVE  status' \in Statuses /\ stage' \in Stages /\ overwrote' \in BOOLEAN
  BY <1>1, <1>5, Spelled DEF WriteLifecycle, Write
<1>6. ASSUME NEW t \in Threads, status' \in Statuses, stage' \in Stages, overwrote' \in BOOLEAN, Close(t), UNCHANGED scheduled,
             at' \in [Threads -> Steps \cup {"idle"}]
      PROVE  Typed'
  BY <1>1, <1>3, <1>6 DEF TypeOK, Rows
<1>7. CASE UNCHANGED vars
  BY <1>1, <1>7 DEF vars, TypeOK
<1>8. ASSUME NEW request \in Requests, ReadRequest(request) PROVE Typed'
  <2>1. tx' = [tx EXCEPT ![Loop] = [op |-> request, status |-> status, stage |-> stage]]
    BY <1>8 DEF ReadRequest, Read
  <2>2. tx' \in [Actors -> Rows] /\ tx'[Loop].op = request
    BY <1>1, <2>1 DEF Rows
  <2> QED BY <1>1, <1>8, <2>2 DEF ReadRequest, row, TypeOK, Rows
<1>9. CASE CommitRequest
  <2>1. Asks(tx[Loop].op) \in Lifecycles
    BY <1>9 DEF CommitRequest, Requests, Asks, Lifecycles, InProgress, SameName
  <2>2. status' \in Statuses /\ stage' \in Stages /\ overwrote' \in BOOLEAN /\ UNCHANGED at /\ Close(Loop)
    BY <1>1, <1>5, <1>9, <2>1 DEF CommitRequest
  <2>3. scheduled' \in 0..MaxScheduled
    BY <1>1, <1>9 DEF CommitRequest
  <2> QED BY <1>1, <1>3, <2>2, <2>3 DEF TypeOK, Rows
<1>10. CASE RefuseRequest
  BY <1>1, <1>3, <1>10 DEF RefuseRequest, Rollback, row, TypeOK, Rows
<1>11. ASSUME NEW t \in Threads, PickUp(t) PROVE Typed'
  <2>1. at' \in [Threads -> Steps \cup {"idle"}]
    BY <1>4, <1>11 DEF PickUp, Steps
  <2> QED BY <1>1, <1>11, <2>1 DEF PickUp, row, TypeOK
<1>12. ASSUME NEW t \in Threads, ReadStep(t) PROVE Typed'
  <2>1. tx' = [tx EXCEPT ![t] = [op |-> at[t], status |-> status, stage |-> stage]] /\ at[t] \in Steps
    BY <1>12 DEF ReadStep, Read
  <2>2. tx' \in [Actors -> Rows] /\ tx'[Loop] = tx[Loop]
    BY <1>1, <2>1 DEF Rows
  <2> QED BY <1>1, <1>12, <2>2 DEF ReadStep, row, TypeOK, Rows
<1>13. ASSUME NEW t \in Threads,
              \/ CommitRun(t) \/ CommitEvidence(t) \/ CommitEvidenceGate(t) \/ CommitWriteReport(t)
              \/ CommitAgent(t) \/ CommitQuality(t) \/ CommitFinalize(t) \/ CommitFailing(t) \/ Raise(t)
       PROVE  Typed'
  <2>1. Close(t) /\ UNCHANGED scheduled
    BY <1>13 DEF CommitRun, CommitEvidence, CommitEvidenceGate, CommitWriteReport, CommitMove,
       CommitAgent, CommitQuality, CommitFinalize, CommitFailing, Raise
  <2>2. \E s \in Steps \cup {"idle"} : GoTo(t, s)
    BY <1>13 DEF CommitRun, CommitEvidence, CommitEvidenceGate, CommitWriteReport, CommitMove,
       CommitAgent, CommitQuality, CommitFinalize, CommitFailing, Raise, Steps
  <2>3. \/ UNCHANGED row
        \/ \E l \in Lifecycles : WriteLifecycle(t, l)
        \/ Write(t, tx[t].status, "agent")
    BY <1>13 DEF CommitRun, CommitEvidence, CommitEvidenceGate, CommitWriteReport, CommitMove,
       CommitAgent, CommitQuality, CommitFinalize, CommitFailing, Raise, Rollback, Lifecycles,
       InProgress, SameName
  <2>4. status' \in Statuses /\ stage' \in Stages /\ overwrote' \in BOOLEAN
    BY <1>1, <1>5, <2>3 DEF Write, Statuses, Stages, row
  <2> QED BY <1>4, <1>6, <2>1, <2>2, <2>4
<1> QED
  BY <1>7, <1>8, <1>9, <1>10, <1>11, <1>12, <1>13 DEF Next, LoopStep, ThreadStep

\* Whatever transactions overlap, the columns hold values that spell a lifecycle,
\* and no request schedules a call beyond the bound.
THEOREM TypeCorrect == Spec => []TypeOK
<1>1. ASSUME Init PROVE Typed
  <2>1. overwrote \in BOOLEAN
    BY <1>1, Zenon DEF Init
  <2>2. status \in Statuses /\ stage \in Stages
    BY <1>1 DEF Init, StatusOf, StageOf, SameName, InProgress, Statuses, Stages
  <2> QED BY <1>1, <2>1, <2>2, BoundAssumption DEF Init, Typed, TypeOK, NoTx, Statuses, Stages, Actors
<1>2. Typed => TypeOK
  BY DEF Typed
<1> QED BY <1>1, <1>2, TypedStep, PTL DEF Spec

-----------------------------------------------------------------------------
(***************************************************************************)
(* The invariant.  A thread is in the transaction of its step.  And before *)
(* a commit overwrites a row it has not read, the row is running exactly   *)
(* while one thread executes, which is at a step that fits the row and has *)
(* read the row as it is.                                                  *)
(***************************************************************************)
OwnStep ==
  /\ Open(Loop) => tx[Loop].op \in Requests
  /\ \A t \in Threads : Open(t) => tx[t].op = at[t]

RowFits ==
  \A t \in Threads : Executing(t) =>
    /\ status = "running"
    /\ at[t] \in {"evidence", "evidence_gate"} => lifecycle = "evidence_checking"

RowRule == SingleExecutor /\ RunningHasExecutor /\ RowFits

ReadsAsIs == \A t \in Threads : Executing(t) /\ Open(t) => ~Stale(t)

Rule == RowRule /\ ReadsAsIs

Inductive == OwnStep /\ (overwrote \/ Rule)

LEMMA InductiveInit == Init => Inductive
<1> SUFFICES ASSUME Init PROVE Inductive
  OBVIOUS
<1>1. status = "queued" /\ stage = "queued"
  BY DEF Init, StatusOf, StageOf, InProgress, SameName
<1>2. \A a \in Actors : ~Open(a)
  BY DEF Init, Open, NoTx
<1>3. \A t \in Threads : ~Executing(t)
  BY DEF Init, Executing
<1>4. Loop \in Actors /\ Threads \subseteq Actors
  BY DEF Actors
<1> QED BY <1>1, <1>2, <1>3, <1>4
  DEF Inductive, Rule, RowRule, ReadsAsIs, OwnStep, SingleExecutor, RunningHasExecutor, RowFits

-----------------------------------------------------------------------------
(* What a step does to the transactions and to the threads. *)

\* A commit on a row as it was read stores what it names.
LEMMA Stored ==
  ASSUME NEW a \in Actors, ~Stale(a), NEW l \in Lifecycles, WriteLifecycle(a, l)
  PROVE  /\ status' = StatusOf(l) /\ stage' = StageOf(l) /\ lifecycle' = l
         /\ status' = "running" <=> l \in InProgress
<1>1. status' = StatusOf(l) /\ stage' = StageOf(l)
  BY DEF Stale, WriteLifecycle, Write
<1> QED BY <1>1, Spelled DEF lifecycle

\* A thread in a transaction stays in that of its step, whoever reads, closes or goes on.
LEMMA OwnStepKept ==
  ASSUME TypeOK, OwnStep, [Next]_vars
  PROVE  OwnStep'
<1>1. Loop \in Actors /\ Threads \subseteq Actors /\ Loop \notin Threads
  BY LoopAssumption DEF Actors
<1>2. \A a \in Actors : Close(a) => /\ ~Open(a)'
                                   /\ \A b \in Actors \ {a} : tx'[b] = tx[b]
  BY DEF TypeOK, Close, Open, NoTx
<1>3. \A t \in Threads, step \in Steps \cup {"idle"} :
        GoTo(t, step) => /\ \A u \in Threads \ {t} : at'[u] = at[u]
                         /\ at'[t] = step
  BY DEF TypeOK, GoTo
<1>4. ASSUME NEW request \in Requests, ReadRequest(request) PROVE OwnStep'
  BY <1>1, <1>4 DEF ReadRequest, Read, OwnStep, Open, TypeOK
<1>5. CASE LoopStep
  BY <1>1, <1>2, <1>5 DEF LoopStep, CommitRequest, RefuseRequest, OwnStep, Open
<1>6. ASSUME NEW t \in Threads, PickUp(t) PROVE OwnStep'
  <2>1. ~Open(t)
    <3>1. tx[t].op \in Steps \cup Requests \cup {"none"} /\ (Open(t) => tx[t].op = "idle")
      BY <1>1, <1>6 DEF TypeOK, OwnStep, PickUp
    <3> QED BY <3>1 DEF Steps, Requests, Open
  <2>2. "run" \in Steps
    BY DEF Steps
  <2> QED BY <1>1, <1>3, <1>6, <2>1, <2>2 DEF PickUp, OwnStep, Open
<1>7. ASSUME NEW t \in Threads, ReadStep(t) PROVE OwnStep'
  BY <1>1, <1>7 DEF ReadStep, Read, OwnStep, Open, TypeOK
<1>8. ASSUME NEW t \in Threads,
             \/ CommitRun(t) \/ CommitEvidence(t) \/ CommitEvidenceGate(t) \/ CommitWriteReport(t)
             \/ CommitAgent(t) \/ CommitQuality(t) \/ CommitFinalize(t) \/ CommitFailing(t) \/ Raise(t)
      PROVE  OwnStep'
  <2>1. Close(t) /\ \E step \in Steps \cup {"idle"} : GoTo(t, step)
    BY <1>8 DEF CommitRun, CommitEvidence, CommitEvidenceGate, CommitWriteReport, CommitMove,
       CommitAgent, CommitQuality, CommitFinalize, CommitFailing, Raise, Steps
  <2> QED BY <1>1, <1>2, <1>3, <2>1 DEF OwnStep, Open
<1>9. CASE UNCHANGED vars
  BY <1>9 DEF vars, OwnStep, Open
<1> QED BY <1>4, <1>5, <1>6, <1>7, <1>8, <1>9 DEF Next, ThreadStep

\* What was overwritten stays so.
LEMMA OverwroteStays ==
  ASSUME [Next]_vars, overwrote
  PROVE  overwrote'
<1>1. \A a, s, g : Write(a, s, g) => overwrote'
  BY DEF Write
<1>2. ASSUME NEW t \in Threads, ThreadStep(t) PROVE overwrote'
  BY <1>1, <1>2 DEF ThreadStep, ReadStep, CommitRun, CommitEvidence, CommitEvidenceGate,
     CommitWriteReport, CommitMove, CommitAgent, CommitQuality, CommitFinalize, CommitFailing,
     WriteLifecycle, Rollback, row
<1>3. CASE LoopStep
  BY <1>1, <1>3 DEF LoopStep, CommitRequest, RefuseRequest, WriteLifecycle, Rollback, row
<1> QED BY <1>2, <1>3 DEF Next, ReadRequest, PickUp, Raise, row, vars

\* The executing thread closes its transaction and goes on while the row stays running.
LEMMA GoesOn ==
  ASSUME TypeOK, Rule, NEW t \in Threads, Executing(t), Close(t),
         NEW next \in Steps \ {"run"}, GoTo(t, next), status' = "running",
         next \in {"evidence", "evidence_gate"} => lifecycle' = "evidence_checking"
  PROVE  Rule'
<1>1. at'[t] = next /\ Executing(t)' /\ ~Open(t)'
  BY DEF TypeOK, GoTo, Executing, Steps, Close, Open, NoTx, Actors
<1>2. \A s \in Threads : s # t => ~Executing(s)'
  BY DEF TypeOK, GoTo, Executing, Rule, RowRule, SingleExecutor
<1> QED BY <1>1, <1>2 DEF Rule, RowRule, ReadsAsIs, SingleExecutor, RunningHasExecutor, RowFits

\* The executing thread returns and the row has settled.
LEMMA Returns ==
  ASSUME TypeOK, Rule, NEW t \in Threads, Executing(t),
         GoTo(t, "idle"), status' # "running"
  PROVE  Rule'
<1>1. \A s \in Threads : ~Executing(s)'
  BY DEF TypeOK, GoTo, Executing, Rule, RowRule, SingleExecutor
<1> QED BY <1>1 DEF Rule, RowRule, ReadsAsIs, SingleExecutor, RunningHasExecutor, RowFits

\* A thread that executes nothing begins or returns while the row stays.
LEMMA Apart ==
  ASSUME TypeOK, Rule, NEW t \in Threads, ~Executing(t), NEW next \in {"idle", "run"},
         GoTo(t, next), UNCHANGED <<status, stage>>, \A s \in Threads \ {t} : tx'[s] = tx[s]
  PROVE  Rule'
<1>1. \A s \in Threads : Executing(s)' <=> Executing(s)
  BY DEF TypeOK, GoTo, Executing
<1>2. \A s \in Threads : Executing(s) => at'[s] = at[s] /\ tx'[s] = tx[s]
  BY DEF TypeOK, GoTo, Executing
<1> QED BY <1>1, <1>2
  DEF Rule, RowRule, ReadsAsIs, SingleExecutor, RunningHasExecutor, RowFits, lifecycle, Stale, Open

\* When nobody executes, the row may become anything that is not running.
LEMMA Quiet ==
  ASSUME Rule, status # "running", status' # "running", UNCHANGED at
  PROVE  Rule'
<1>1. \A s \in Threads : ~Executing(s)
  BY DEF Rule, RowRule, RowFits
<1>2. \A s \in Threads : ~Executing(s)'
  BY <1>1 DEF Executing
<1> QED BY <1>2 DEF Rule, RowRule, ReadsAsIs, SingleExecutor, RunningHasExecutor, RowFits

\* Nor does it matter who else opens or closes a transaction.
LEMMA Bystanders ==
  ASSUME Rule, UNCHANGED <<status, stage, at>>,
         \A t \in Threads : tx'[t] = tx[t] \/ ~Stale(t)'
  PROVE  Rule'
BY DEF Rule, RowRule, ReadsAsIs, SingleExecutor, RunningHasExecutor, RowFits, Executing, lifecycle,
   Stale, Open

-----------------------------------------------------------------------------
(* The steps. *)

\* A transaction begins with the row as it is.
LEMMA ReadKeeps ==
  ASSUME TypeOK, Rule, NEW a \in Actors, NEW op, Read(a, op), UNCHANGED <<status, stage, at>>
  PROVE  Rule'
<1>1. tx'[a] = [op |-> op, status |-> status, stage |-> stage] /\ \A b \in Actors \ {a} : tx'[b] = tx[b]
  BY DEF TypeOK, Read
<1>2. ~Stale(a)'
  BY <1>1 DEF Stale
<1> QED BY <1>1, <1>2, Bystanders DEF Actors

\* A request changes only rows that nobody executes.
LEMMA RequestKeeps ==
  ASSUME TypeOK, Rule, LoopStep, ~overwrote'
  PROVE  Rule'
<1>1. /\ Loop \in Actors /\ Threads \subseteq Actors /\ Loop \notin Threads
      /\ Close(Loop) /\ UNCHANGED at /\ tx[Loop].op \in Requests
  BY LoopAssumption DEF LoopStep, CommitRequest, RefuseRequest, Actors
<1>2. \A t \in Threads : tx'[t] = tx[t]
  BY <1>1 DEF TypeOK, Close
<1>3. CASE UNCHANGED <<status, stage>>
  BY <1>1, <1>2, <1>3, Bystanders
<1>4. CASE CommitRequest /\ ~Stale(Loop)
  <2> DEFINE l == Asks(tx[Loop].op)
  <2>1. l \in Lifecycles /\ l \notin InProgress
    BY <1>1 DEF Asks, Requests, Lifecycles, InProgress
  <2>2. Seen(Loop) \in Lifecycles /\ StatusOf(Seen(Loop)) = status
    BY <1>1, <1>4, Spelling DEF TypeOK, Stale, Seen
  <2>3. status # "running"
    BY <1>1, <1>4, <2>2, Refused DEF CommitRequest
  <2>4. status' # "running"
    BY <1>1, <1>4, <2>1, Stored DEF CommitRequest
  <2> QED BY <1>1, <2>3, <2>4, Quiet
<1>5. CASE CommitRequest /\ Stale(Loop)
  <2>1. UNCHANGED <<status, stage>>
    BY <1>5 DEF CommitRequest, WriteLifecycle, Write
  <2> QED BY <1>3, <2>1
<1> QED BY <1>3, <1>4, <1>5 DEF LoopStep, RefuseRequest, Rollback, row

\* A thread that executes has read a running row.
LEMMA Executor ==
  ASSUME TypeOK, OwnStep, Rule, NEW t \in Threads, Open(t), tx[t].op # "run"
  PROVE  /\ t \in Actors /\ Executing(t) /\ status = "running" /\ ~Stale(t)
         /\ Seen(t) = lifecycle /\ Seen(t) \in InProgress
         /\ tx[t].op \in {"evidence", "evidence_gate"} => Seen(t) = "evidence_checking"
<1>1. t \in Actors /\ tx[t].op = at[t]
  BY DEF Actors, OwnStep
<1>2. Executing(t)
  <2>1. at[t] # "idle"
    BY <1>1 DEF TypeOK, Open, OwnStep, Steps, Requests
  <2> QED BY <1>1, <2>1 DEF Executing
<1>3. status = "running" /\ ~Stale(t)
  BY <1>2 DEF Rule, RowRule, RowFits, ReadsAsIs
<1>4. Seen(t) = lifecycle
  BY <1>3 DEF Stale, Seen, lifecycle
<1>5. lifecycle \in InProgress
  BY <1>3, Spelling, Spelled DEF lifecycle, TypeOK
<1> QED BY <1>1, <1>2, <1>3, <1>4, <1>5 DEF Rule, RowRule, RowFits

\* The commits of a thread that executes.
LEMMA ExecutorKeeps ==
  ASSUME TypeOK, OwnStep, Rule, NEW t \in Threads,
         \/ CommitEvidence(t) \/ CommitEvidenceGate(t) \/ CommitWriteReport(t)
         \/ CommitAgent(t) \/ CommitQuality(t) \/ CommitFinalize(t) \/ CommitFailing(t)
  PROVE  Rule'
<1>1. Open(t) /\ Close(t) /\ tx[t].op # "run"
  BY DEF CommitEvidence, CommitEvidenceGate, CommitWriteReport, CommitAgent, CommitQuality,
         CommitFinalize, CommitFailing, CommitMove, Open
<1>2. /\ t \in Actors /\ Executing(t) /\ status = "running" /\ ~Stale(t)
      /\ Seen(t) = lifecycle /\ Seen(t) \in InProgress
      /\ tx[t].op \in {"evidence", "evidence_gate"} => Seen(t) = "evidence_checking"
  BY <1>1, Executor
<1>3. /\ InProgress \subseteq Lifecycles /\ "evidence_blocked" \in Lifecycles \ InProgress
      /\ {"failed", "generation_completed", "quality_blocked"} \subseteq Lifecycles \ InProgress
      /\ {"generating", "quality_checking", "evidence_checking"} \subseteq InProgress
      /\ InProgress \cap Interrupted = {}
  BY DEF InProgress, Lifecycles, Interrupted
<1>4. {"evidence_gate", "write_report", "agent", "quality", "finalize", "failing"} \subseteq Steps \ {"run"}
  BY DEF Steps
\* Rolling back, or writing an outcome, and going on or returning.
<1>5. ASSUME Rollback, NEW next \in Steps \ {"run"}, GoTo(t, next),
             next \in {"evidence", "evidence_gate"} => lifecycle = "evidence_checking"
      PROVE  Rule'
  <2>1. status' = "running" /\ lifecycle' = lifecycle
    BY <1>2, <1>5 DEF Rollback, row, lifecycle
  <2> QED BY <1>1, <1>2, <1>5, <2>1, GoesOn
<1>6. ASSUME NEW l \in Lifecycles \ InProgress, WriteLifecycle(t, l), GoTo(t, "idle") PROVE Rule'
  <2>1. status' # "running"
    BY <1>2, <1>6, Stored
  <2> QED BY <1>2, <1>6, <2>1, Returns
<1>7. ASSUME NEW op, NEW target \in {"generating", "quality_checking"},
             NEW next \in {"agent", "finalize"}, CommitMove(t, op, target, next)
      PROVE  Rule'
  <2>1. CASE WriteLifecycle(t, target) /\ GoTo(t, next)
    <3>1. status' = "running"
      BY <1>2, <1>3, <2>1, Stored
    <3> QED BY <1>1, <1>2, <1>4, <2>1, <3>1, GoesOn
  <2>2. CASE Rollback /\ GoTo(t, "failing")
    BY <1>4, <1>5, <2>2
  <2> QED BY <1>7, <2>1, <2>2 DEF CommitMove
<1>8. CASE CommitEvidence(t)
  <2>1. Rollback /\ GoTo(t, "evidence_gate") /\ lifecycle = "evidence_checking"
    BY <1>2, <1>3, <1>8 DEF CommitEvidence
  <2> QED BY <1>4, <1>5, <2>1
<1>9. CASE CommitEvidenceGate(t)
  <2>1. Seen(t) = "evidence_checking" /\ lifecycle = "evidence_checking"
    BY <1>2, <1>9 DEF CommitEvidenceGate
  <2>2. CASE WriteLifecycle(t, "evidence_blocked") /\ GoTo(t, "idle")
    BY <1>3, <1>6, <2>2
  <2>3. CASE Rollback /\ GoTo(t, "write_report")
    BY <1>4, <1>5, <2>3
  <2> QED BY <1>9, <2>1, <2>2, <2>3 DEF CommitEvidenceGate
<1>10. CASE CommitWriteReport(t)
  BY <1>7, <1>10 DEF CommitWriteReport
<1>11. CASE CommitQuality(t)
  BY <1>7, <1>11 DEF CommitQuality
<1>12. CASE CommitAgent(t)
  <2>1. status' = "running" /\ GoTo(t, "quality")
    BY <1>2, <1>12 DEF CommitAgent, Write, Stale
  <2> QED BY <1>1, <1>2, <1>4, <2>1, GoesOn
<1>13. CASE CommitFinalize(t)
  <2>1. PICK outcome \in {"generation_completed", "quality_blocked"} :
          \/ WriteLifecycle(t, outcome) /\ GoTo(t, "idle")
          \/ Rollback /\ GoTo(t, "failing")
    BY <1>13 DEF CommitFinalize
  <2> QED BY <1>3, <1>4, <1>5, <1>6, <2>1
<1>14. CASE CommitFailing(t)
  <2>1. WriteLifecycle(t, "failed") /\ GoTo(t, "idle")
    BY <1>2, <1>14 DEF CommitFailing, FailsFrom
  <2> QED BY <1>3, <1>6, <2>1
<1> QED BY <1>8, <1>9, <1>10, <1>11, <1>12, <1>13, <1>14

\* A call that begins takes the row only when nobody executes.
LEMMA RunKeeps ==
  ASSUME TypeOK, OwnStep, Rule, NEW t \in Threads, CommitRun(t), ~overwrote'
  PROVE  Rule'
<1>1. t \in Actors /\ Close(t) /\ at[t] = "run" /\ ~Executing(t) /\ tx[t].status \in Statuses /\ tx[t].stage \in Stages
  BY DEF CommitRun, Open, Actors, OwnStep, Executing, TypeOK
<1>2. ~Open(t)' /\ \A s \in Threads \ {t} : tx'[s] = tx[s]
  BY <1>1 DEF Close, Open, NoTx, TypeOK, Actors
<1>3. CASE Seen(t) \in StartFrom /\ WriteLifecycle(t, "evidence_checking") /\ GoTo(t, "evidence")
  <2>1. StatusOf(Seen(t)) = tx[t].status
    BY <1>1, Spelling DEF Seen
  <2>2. tx[t].status # "running"
    BY <1>3, <2>1 DEF StartFrom, StatusOf, InProgress, SameName
  <2>3. StatusOf("evidence_checking") = "running" /\ "evidence_checking" \in Lifecycles \cap InProgress
    BY Spelled DEF Lifecycles, InProgress
  <2>4. ~Stale(t)
    <3> DEFINE new == <<StatusOf("evidence_checking"), StageOf("evidence_checking")>>
    <3>1. new # <<tx[t].status, tx[t].stage>>
      BY <2>2, <2>3
    <3>2. overwrote' = (overwrote \/ (Stale(t) /\ new # <<tx[t].status, tx[t].stage>>))
      BY <1>3, Zenon DEF WriteLifecycle, Write
    <3> HIDE DEF new
    <3> QED BY <3>1, <3>2, Zenon
  <2>5. \A s \in Threads : ~Executing(s)
    BY <2>2, <2>4 DEF Rule, RowRule, RowFits, Stale
  <2>6. status' = "running" /\ lifecycle' = "evidence_checking"
    BY <1>1, <1>3, <2>3, <2>4, Stored
  <2>7. at' = [at EXCEPT ![t] = "evidence"]
    BY <1>3 DEF GoTo
  <2>8. Executing(t)' /\ \A s \in Threads : Executing(s)' => s = t
    BY <2>5, <2>7 DEF Executing, TypeOK
  <2> QED BY <1>2, <2>6, <2>8 DEF Rule, RowRule, ReadsAsIs, SingleExecutor, RunningHasExecutor, RowFits
<1>4. CASE Rollback /\ GoTo(t, "idle")
  BY <1>1, <1>2, <1>4, Apart DEF Rollback, row
<1> QED BY <1>3, <1>4 DEF CommitRun

\* An exception rolls back and goes to the handler, which is still executing.
LEMMA RaiseKeeps ==
  ASSUME TypeOK, Rule, NEW t \in Threads, Raise(t)
  PROVE  Rule'
<1>1. Executing(t) /\ GoTo(t, "failing") /\ Close(t) /\ status' = status /\ "failing" \in Steps \ {"run"}
  BY DEF Raise, Executing, Steps, row
<1>2. status = "running"
  BY <1>1 DEF Rule, RowRule, RowFits
<1> QED BY <1>1, <1>2, GoesOn

LEMMA InductiveNext == TypeOK /\ Inductive /\ [Next]_vars => Inductive'
<1> SUFFICES ASSUME TypeOK, Inductive, [Next]_vars, ~overwrote' PROVE Rule'
  BY OwnStepKept DEF Inductive
<1>1. OwnStep /\ Rule
  BY OverwroteStays DEF Inductive
<1>2. CASE \E request \in Requests : ReadRequest(request)
  BY <1>1, <1>2, ReadKeeps DEF ReadRequest, row, Actors
<1>3. CASE LoopStep
  BY <1>1, <1>3, RequestKeeps
<1>4. ASSUME NEW t \in Threads, PickUp(t) PROVE Rule'
  BY <1>1, <1>4, Apart DEF PickUp, Executing, row
<1>5. ASSUME NEW t \in Threads, ThreadStep(t) \/ Raise(t) PROVE Rule'
  <2>1. CASE ReadStep(t)
    BY <1>1, <2>1, ReadKeeps DEF ReadStep, row, Actors
  <2> QED BY <1>1, <1>5, <2>1, RaiseKeeps, RunKeeps, ExecutorKeeps DEF ThreadStep
<1>6. CASE UNCHANGED vars
  BY <1>1, <1>6, Bystanders DEF vars
<1> QED BY <1>2, <1>3, <1>4, <1>5, <1>6 DEF Next

LEMMA InductiveHolds == Spec => []Inductive
BY InductiveInit, InductiveNext, TypeCorrect, PTL DEF Spec

\* However many accepted starts and retries schedule run_task, and whatever of their
\* transactions overlap, a second call executes only after a commit has overwritten a
\* row that had changed since it was read.
THEOREM OverwritingStartsSecondHolds == Spec => []OverwritingStartsSecond
<1>1. Inductive => OverwritingStartsSecond
  BY DEF Inductive, Rule, RowRule, OverwritingStartsSecond
<1> QED BY <1>1, InductiveHolds, PTL

\* Until then a running row has a thread that executes it: after every commit,
\* exception and request.
THEOREM OverwritingOrphansRowHolds == Spec => []OverwritingOrphansRow
<1>1. Inductive => OverwritingOrphansRow
  BY DEF Inductive, Rule, RowRule, OverwritingOrphansRow
<1> QED BY <1>1, InductiveHolds, PTL

-----------------------------------------------------------------------------
\* Who has read an archived row rolls back or writes no status.
LEMMA ArchivedStep ==
  ASSUME TypeOK, [Next]_vars, status = "archived"
  PROVE  status' = "archived" \/ overwrote'
<1> SUFFICES ASSUME ~overwrote' PROVE status' = "archived"
  OBVIOUS
\* A write by who has not read the row as it is would overwrite it.
<1>1. ASSUME NEW a \in Actors, NEW newStatus, NEW newStage, Write(a, newStatus, newStage),
             tx[a].status # "archived"
      PROVE  status' = "archived"
  BY <1>1 DEF Write, Stale
<1>2. ASSUME NEW a \in Actors, tx[a].status = "archived" PROVE Seen(a) = "archived"
  BY <1>2 DEF Seen, Resolve, SameName
<1>3. CASE LoopStep
  <2>1. Loop \in Actors /\ tx[Loop].op \in Requests
    BY <1>3 DEF LoopStep, CommitRequest, RefuseRequest, Actors
  <2>2. "archived" \in Lifecycles /\ StatusOf("archived") = "archived"
    BY DEF Lifecycles, StatusOf, InProgress, SameName
  <2>3. tx[Loop].status = "archived" => ~Accepts(tx[Loop].op, Seen(Loop))
    BY <1>2, <2>1, <2>2, Refused
  <2> QED BY <1>1, <1>3, <2>1, <2>3 DEF LoopStep, CommitRequest, RefuseRequest, WriteLifecycle, Rollback, row
<1>4. ASSUME NEW t \in Threads, ThreadStep(t) PROVE status' = "archived"
  <2>1. t \in Actors
    BY DEF Actors
  <2>2. CASE tx[t].status # "archived"
    BY <1>1, <1>4, <2>1, <2>2 DEF ThreadStep, ReadStep, CommitRun, CommitEvidence, CommitEvidenceGate,
       CommitWriteReport, CommitMove, CommitAgent, CommitQuality, CommitFinalize, CommitFailing,
       WriteLifecycle, Rollback, row
  <2>3. CASE tx[t].status = "archived"
    <3>1. Seen(t) = "archived"
      BY <1>2, <2>1, <2>3
    <3>2. /\ "archived" \notin StartFrom \cup Interrupted \cup FailsFrom \cup {"evidence_checking"}
          /\ \A l \in {"generating", "quality_checking", "generation_completed", "quality_blocked"} :
               ~Legal("archived", l)
      BY DEF StartFrom, Interrupted, FailsFrom, InProgress, Legal, Successors
    <3>3. \A target : AfterRestore("archived", target) = "archived"
      BY <3>2 DEF AfterRestore
    <3>4. CASE CommitAgent(t)
      BY <2>3, <3>4 DEF CommitAgent, Write
    <3>5. CASE CommitFinalize(t)
      BY <3>1, <3>2, <3>3, <3>5 DEF CommitFinalize, Rollback, row
    <3>6. CASE CommitWriteReport(t) \/ CommitQuality(t)
      BY <3>1, <3>2, <3>3, <3>6 DEF CommitWriteReport, CommitQuality, CommitMove, Rollback, row
    <3>7. CASE CommitRun(t) \/ CommitEvidence(t) \/ CommitEvidenceGate(t) \/ CommitFailing(t)
      BY <3>1, <3>2, <3>7 DEF CommitRun, CommitEvidence, CommitEvidenceGate, CommitFailing, Rollback, row
    <3>8. CASE ReadStep(t)
      BY <3>8 DEF ReadStep, row
    <3> QED BY <1>4, <3>4, <3>5, <3>6, <3>7, <3>8 DEF ThreadStep
  <2> QED BY <2>2, <2>3
<1> QED BY <1>3, <1>4 DEF Next, ReadRequest, PickUp, Raise, row, vars

\* An archived task is brought back by no request or call that has read it as archived,
\* only by a commit that overwrites it unseen, or after one.
THEOREM OverwritingRevivesHolds == Spec => OverwritingRevives
<1>1. TypeOK /\ [Next]_vars => [status = "archived" => status' = "archived" \/ overwrote']_vars
  BY ArchivedStep
<1> QED BY <1>1, TypeCorrect, PTL DEF Spec, OverwritingRevives
=============================================================================
