----------------------------- MODULE TaskRowRaces -----------------------------
(***************************************************************************)
(* The transactions of ReportTask with their read and their commit apart.  *)
(*                                                                         *)
(* _get_task_for_update is a plain SELECT, the row has no version column,  *)
(* and the UPDATE of a commit writes the columns the transaction changed:  *)
(* between the two another thread may commit.  The actors are the event    *)
(* loop, which runs the async endpoints one after the other (src/app/      *)
(* api_fastapi.py), and the threads that run background run_task calls.    *)
(* Checkpoint retries and crashes are left to ReportTask.                  *)
(***************************************************************************)
EXTENDS ReportLifecycle, Naturals

CONSTANTS
  Threads,       \* pool threads that may execute background calls
  Loop,          \* the event loop
  MaxScheduled   \* bound: run_task calls scheduled and not yet picked up

ASSUME LoopAssumption == Loop \notin Threads
ASSUME BoundAssumption == MaxScheduled \in Nat

Actors == Threads \cup {Loop}

VARIABLES
  status, stage,  \* the legacy columns, as committed
  scheduled,      \* accepted starts whose background call has not begun
  at,             \* the step each thread is at
  tx,             \* the open transaction of each actor, with the row it read
  overwrote       \* history: a commit has written a row that was not as it had read it

row == <<status, stage, overwrote>>
vars == <<status, stage, scheduled, at, tx, overwrote>>

lifecycle == Resolve(status, stage)

\* The steps of a background call that are transactions on the row, in order.
Steps == {"run", "evidence", "evidence_gate", "write_report", "agent", "quality",
          "finalize", "failing"}
Requests == {"start", "retry", "cancel", "archive", "bulk_archive"}

NoTx == [op |-> "none", status |-> "queued", stage |-> "queued"]

Init ==
  /\ status = StatusOf("queued") /\ stage = StageOf("queued")
  /\ scheduled = 0
  /\ at = [t \in Threads |-> "idle"]
  /\ tx = [a \in Actors |-> NoTx]
  /\ overwrote = FALSE

Open(a) == tx[a].op # "none"

Read(a, op) ==
  /\ ~Open(a)
  /\ tx' = [tx EXCEPT ![a] = [op |-> op, status |-> status, stage |-> stage]]

Close(a) == tx' = [tx EXCEPT ![a] = NoTx]

\* The lifecycle the open transaction of a has read.
Seen(a) == Resolve(tx[a].status, tx[a].stage)

\* Another commit has changed the row since the open transaction of a read it.
Stale(a) == tx[a].status # status \/ tx[a].stage # stage

\* An UPDATE names only the columns that differ from the values read.
Write(a, newStatus, newStage) ==
  /\ status' = IF newStatus = tx[a].status THEN status ELSE newStatus
  /\ stage' = IF newStage = tx[a].stage THEN stage ELSE newStage
  /\ overwrote' = (overwrote \/ (Stale(a) /\ <<newStatus, newStage>> # <<tx[a].status, tx[a].stage>>))

WriteLifecycle(a, l) == Write(a, StatusOf(l), StageOf(l))

Rollback == UNCHANGED row

-----------------------------------------------------------------------------
(***************************************************************************)
(* The event loop.                                                         *)
(***************************************************************************)

\* The guards of the five requests, on the row as read.
Accepts(request, l) ==
  CASE request = "start"        -> l = "queued"
    [] request = "retry"        -> StatusOf(l) \notin {"running", "archived"} /\ Legal(l, "queued")
    [] request = "cancel"       -> StatusOf(l) \notin {"running", "completed", "failed", "cancelled", "archived"}
                                   /\ Legal(l, "cancelled")
    [] request = "archive"      -> StatusOf(l) \notin {"running", "archived"} /\ Legal(l, "archived")
    [] request = "bulk_archive" -> StatusOf(l) \in {"failed", "quality_failed", "timeout", "cancelled"}
                                   /\ Legal(l, "archived")

Asks(request) ==
  CASE request \in {"start", "retry"}          -> "queued"
    [] request = "cancel"                      -> "cancelled"
    [] request \in {"archive", "bulk_archive"} -> "archived"

ReadRequest(request) ==
  /\ request \in {"start", "retry"} => scheduled < MaxScheduled
  /\ Read(Loop, request)
  /\ UNCHANGED <<row, scheduled, at>>

\* An accepted start or retry schedules run_task after its commit.
CommitRequest ==
  /\ tx[Loop].op \in Requests
  /\ Accepts(tx[Loop].op, Seen(Loop))
  /\ WriteLifecycle(Loop, Asks(tx[Loop].op))
  /\ scheduled' = IF tx[Loop].op \in {"start", "retry"} THEN scheduled + 1 ELSE scheduled
  /\ Close(Loop)
  /\ UNCHANGED at

\* The answer is 409.
RefuseRequest ==
  /\ tx[Loop].op \in Requests
  /\ ~Accepts(tx[Loop].op, Seen(Loop))
  /\ Rollback /\ Close(Loop)
  /\ UNCHANGED <<scheduled, at>>

-----------------------------------------------------------------------------
(***************************************************************************)
(* A pool thread executing run_task.                                       *)
(***************************************************************************)
GoTo(t, step) == at' = [at EXCEPT ![t] = step]

PickUp(t) ==
  /\ at[t] = "idle" /\ scheduled > 0
  /\ scheduled' = scheduled - 1
  /\ GoTo(t, "run")
  /\ UNCHANGED <<row, tx>>

ReadStep(t) ==
  /\ at[t] \in Steps
  /\ Read(t, at[t])
  /\ UNCHANGED <<row, scheduled, at>>

\* run_task starts the task, or finds it running or not startable and returns.
StartFromArchivedToo == Lifecycles \ (InProgress \cup {"generation_completed", "cancelled"})
StartFromRunningToo == InProgress \cup {"queued", "failed", "timeout"}

StartFrom == {"queued", "failed", "timeout", "evidence_blocked", "quality_blocked"}

CommitRun(t) ==
  /\ tx[t].op = "run"
  /\ IF Seen(t) \in StartFrom
     THEN WriteLifecycle(t, "evidence_checking") /\ GoTo(t, "evidence")
     ELSE Rollback /\ GoTo(t, "idle")
  /\ Close(t)
  /\ UNCHANGED scheduled

AfterRestore(l, target) == IF l \in Interrupted THEN target ELSE l

CommitEvidence(t) ==
  /\ tx[t].op = "evidence"
  /\ IF Seen(t) \in Interrupted THEN WriteLifecycle(t, "evidence_checking") ELSE Rollback
  /\ GoTo(t, "evidence_gate") /\ Close(t)
  /\ UNCHANGED scheduled

\* A blocked gate ends the call, and moves the row only from evidence_checking.
\* After a gate that passed the route reads the row again.
CommitEvidenceGate(t) ==
  /\ tx[t].op = "evidence_gate"
  /\ \/ /\ IF Seen(t) = "evidence_checking" THEN WriteLifecycle(t, "evidence_blocked") ELSE Rollback
        /\ GoTo(t, "idle")
     \/ /\ Rollback
        /\ GoTo(t, IF lifecycle = "evidence_blocked" THEN "idle" ELSE "write_report")
  /\ Close(t)
  /\ UNCHANGED scheduled

\* A transition to target from the row as read, or an exception.
CommitMove(t, op, target, next) ==
  /\ tx[t].op = op
  /\ IF Legal(AfterRestore(Seen(t), target), target)
     THEN WriteLifecycle(t, target) /\ GoTo(t, next)
     ELSE Rollback /\ GoTo(t, "failing")
  /\ Close(t)
  /\ UNCHANGED scheduled

CommitWriteReport(t) == CommitMove(t, "write_report", "generating", "agent")
CommitQuality(t) == CommitMove(t, "quality", "quality_checking", "finalize")

\* An agent reports that it started: only current_stage is written.
CommitAgent(t) ==
  /\ tx[t].op = "agent"
  /\ Write(t, tx[t].status, "agent")
  /\ GoTo(t, "quality") /\ Close(t)
  /\ UNCHANGED scheduled

CommitFinalize(t) ==
  /\ tx[t].op = "finalize"
  /\ \E outcome \in {"generation_completed", "quality_blocked"} :
       IF Legal(AfterRestore(Seen(t), "quality_checking"), outcome)
       THEN WriteLifecycle(t, outcome) /\ GoTo(t, "idle")
       ELSE Rollback /\ GoTo(t, "failing")
  /\ Close(t)
  /\ UNCHANGED scheduled

\* The exception handler of run_task.
FailsFromEarly == {"evidence_checking", "generating"}

FailsFrom == InProgress

CommitFailing(t) ==
  /\ tx[t].op = "failing"
  /\ IF Seen(t) \in FailsFrom THEN WriteLifecycle(t, "failed") ELSE Rollback
  /\ GoTo(t, "idle") /\ Close(t)
  /\ UNCHANGED scheduled

\* An exception outside the transactions, or a commit the database refuses.
Raise(t) ==
  /\ at[t] \in Steps \ {"run", "failing"}
  /\ GoTo(t, "failing") /\ Close(t)
  /\ UNCHANGED <<row, scheduled>>

-----------------------------------------------------------------------------
LoopStep == CommitRequest \/ RefuseRequest

ThreadStep(t) ==
  \/ ReadStep(t)
  \/ CommitRun(t) \/ CommitEvidence(t) \/ CommitEvidenceGate(t) \/ CommitWriteReport(t)
  \/ CommitAgent(t) \/ CommitQuality(t) \/ CommitFinalize(t) \/ CommitFailing(t)

Next ==
  \/ \E request \in Requests : ReadRequest(request)
  \/ LoopStep
  \/ \E t \in Threads : PickUp(t) \/ ThreadStep(t) \/ Raise(t)

Spec == Init /\ [][Next]_vars

-----------------------------------------------------------------------------
\* Every variable has its type, and the columns spell a lifecycle.
TypeOK ==
  /\ status \in Statuses /\ stage \in Stages
  /\ scheduled \in 0..MaxScheduled
  /\ at \in [Threads -> Steps \cup {"idle"}]
  /\ tx \in [Actors -> [op : Steps \cup Requests \cup {"none"}, status : Statuses, stage : Stages]]
  /\ overwrote \in BOOLEAN

Executing(t) == at[t] \notin {"idle", "run"}

\* Of all calls scheduled for one task at most one executes at a time.
SingleExecutor == \A s, t \in Threads : Executing(s) /\ Executing(t) => s = t

\* A row that says running has an executor behind it, whatever requests were
\* accepted and however many calls they scheduled.
RunningHasExecutor == status = "running" => \E t \in Threads : Executing(t)

\* No request or call in flight brings an archived task back.
ArchivedIsFinal == [][status = "archived" => status' = "archived"]_vars

(***************************************************************************)
(* The code has none of these three, because nothing checks at commit that *)
(* the row is still as it was read.  What it has: until a commit overwrites*)
(* a row that has changed since it was read, the guards of the services    *)
(* are enough, however the transactions overlap.                           *)
(***************************************************************************)

\* Without such a commit no two calls execute a task at once, though any number of
\* start requests may have been accepted and read the queued row together.
OverwritingStartsSecond == overwrote \/ SingleExecutor

\* Without such a commit no row says running that nobody executes: no exception and
\* no gate leaves it behind.
OverwritingOrphansRow == overwrote \/ RunningHasExecutor

\* The step that brings an archived task back is itself such a commit, or follows one.
OverwritingRevives == [][status = "archived" => status' = "archived" \/ overwrote']_vars
=============================================================================
