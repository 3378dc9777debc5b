---------------------------- MODULE TaskLifecycle ----------------------------
(***************************************************************************)
(* What a report task promises its consumers, with no executor, graph or   *)
(* checkpoint in sight: its lifecycle moves along the table of legal       *)
(* transitions, a stopped task may be requeued and started in one          *)
(* transaction, and a task that is in progress does not stay so.           *)
(* ReportTask implements it when no process dies and no call resumes a     *)
(* checkpoint.                                                             *)
(***************************************************************************)
EXTENDS ReportLifecycle

VARIABLE lifecycle

Init == lifecycle = "queued"

Move ==
  \E target \in Successors(lifecycle) : lifecycle' = target

\* run_task's implicit retry: two legal transitions, one commit.
Restart ==
  /\ lifecycle \notin InProgress
  /\ "queued" \in Successors(lifecycle)
  /\ lifecycle' = "evidence_checking"

Next == Move \/ Restart

Stop == lifecycle \in InProgress /\ Move

Spec == Init /\ [][Next]_lifecycle /\ WF_lifecycle(Stop)
=============================================================================
