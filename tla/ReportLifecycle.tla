--------------------------- MODULE ReportLifecycle ---------------------------
(***************************************************************************)
(* The canonical lifecycle of a report task (src/runtime/                  *)
(* report_run_state.py): the table of legal transitions, the projection of *)
(* a lifecycle onto the two legacy columns the database keeps, its         *)
(* inverse, and the delivery decision derived from a task.  Everything     *)
(* here is a pure operator; ReportTask is the machine that uses them.      *)
(***************************************************************************)

Lifecycles == {"queued", "evidence_checking", "evidence_blocked", "generating",
               "quality_checking", "quality_blocked", "generation_completed",
               "failed", "timeout", "cancelled", "archived"}

\* The lifecycles in which some executor is expected to be at work.
InProgress == {"evidence_checking", "generating", "quality_checking"}

\* What a checkpoint restore may leave, and what it may enter.
Interrupted == {"failed", "timeout"}
RestoreTargets == InProgress

\* A run that has stopped, for whatever reason, can be requeued or archived.
Settled == {"evidence_blocked", "quality_blocked", "generation_completed",
            "failed", "timeout", "cancelled"}

\* Lifecycles whose legacy columns both carry the lifecycle's own name.
SameName == {"queued", "failed", "timeout", "cancelled", "archived"}

Successors(l) ==
  CASE l = "queued"            -> {"evidence_checking", "cancelled", "archived"}
    [] l = "evidence_checking" -> {"evidence_blocked", "generating", "failed", "timeout", "cancelled"}
    [] l = "generating"        -> {"quality_checking", "failed", "timeout", "cancelled"}
    [] l = "quality_checking"  -> {"quality_blocked", "generation_completed", "failed", "timeout"}
    [] l = "archived"          -> {}
    [] l \in Settled          -> {"queued", "archived"}

\* apply_report_transition raises unless this holds.
Legal(current, target) == target = current \/ target \in Successors(current)

\* restore_report_transition raises unless this holds.
Restorable(current, target) == current \in Interrupted /\ target \in RestoreTargets

(***************************************************************************)
(* The legacy columns.  "agent" stands for every agent_<key> stage the     *)
(* progress callback writes and "artifact_import" is the one override a    *)
(* transition passes.                                                      *)
(***************************************************************************)
StatusOf(l) ==
  CASE l \in InProgress                              -> "running"
    [] l \in {"evidence_blocked", "quality_blocked"} -> "quality_failed"
    [] l = "generation_completed"                    -> "completed"
    [] l \in SameName                                -> l

StageOf(l) ==
  CASE l = "evidence_checking"    -> "evidence_gate"
    [] l = "evidence_blocked"     -> "evidence_gate_failed"
    [] l = "generating"           -> "orchestrator"
    [] l = "quality_checking"     -> "quality_gate"
    [] l = "quality_blocked"      -> "quality_failed"
    [] l = "generation_completed" -> "completed"
    [] l \in SameName             -> l

Statuses == {"queued", "running", "quality_failed", "completed", "failed",
             "timeout", "cancelled", "archived"}
Stages == {"queued", "evidence_gate", "evidence_gate_failed", "orchestrator",
           "quality_gate", "quality_failed", "completed", "failed", "timeout",
           "cancelled", "archived", "artifact_import", "agent"}

\* resolve_lifecycle_status: read the lifecycle back from the two columns.
Resolve(status, stage) ==
  CASE status = "running" /\ stage = "evidence_gate" -> "evidence_checking"
    [] status = "running" /\ stage = "quality_gate"  -> "quality_checking"
    [] status = "running" /\ stage \notin {"evidence_gate", "quality_gate"} -> "generating"
    [] status = "quality_failed" /\ stage = "evidence_gate_failed"  -> "evidence_blocked"
    [] status = "quality_failed" /\ stage # "evidence_gate_failed"  -> "quality_blocked"
    [] status = "completed" -> "generation_completed"
    [] status \in SameName -> status

(***************************************************************************)
(* Delivery readiness.  The inputs are kept to what the decision tells     *)
(* apart: the stored evidence gate, the stored quality verdict, the set of *)
(* marks borne by the imported claims (review decisions, and "unsupported" *)
(* for a failed verification), and whether a report file is registered.    *)
(***************************************************************************)
Gates == {"absent", "blocked", "draft", "ready"}
Verdicts == {"absent", "pass", "fail"}
ClaimMarks == {"pending", "approved", "rejected", "unsupported"}

Blockers(lifecycle, gate, verdict, claims, reportAvailable) ==
     {b \in {"report_task_not_completed"} :
          lifecycle \notin {"generation_completed", "quality_blocked"} /\ ~reportAvailable}
  \cup {b \in {"rejected_claims_present"}      : "rejected" \in claims}
  \cup {b \in {"pending_claim_review"}         : "pending" \in claims}
  \cup {b \in {"evidence_check_pending"}       : gate = "absent"}
  \cup {b \in {"evidence_not_delivery_ready"}  : gate \in {"blocked", "draft"}}
  \cup {b \in {"quality_check_pending"}        : verdict = "absent"}
  \cup {b \in {"quality_gate_failed"}          : verdict = "fail"}
  \cup {b \in {"unsupported_claims_present"}   : "unsupported" \in claims}
  \cup {b \in {"claims_missing"}               : claims = {}}
  \cup {b \in {"approved_claims_missing"}      : claims # {} /\ "approved" \notin claims}
  \cup {b \in {"report_artifact_missing"}      : ~reportAvailable}

MachineBlockers == {"report_task_not_completed", "evidence_check_pending",
  "evidence_not_delivery_ready", "quality_check_pending", "quality_gate_failed",
  "unsupported_claims_present", "claims_missing", "report_artifact_missing"}
ReviewBlockers == {"pending_claim_review", "rejected_claims_present", "approved_claims_missing"}

MachinePass(blockers) == blockers \cap MachineBlockers = {}

\* can_enter_human_review, and can_deliver_formal_report = can_export_formal_package.
\* No blocker left means the claims exist, none pending or rejected: the
\* review_status the code also asks for is then "completed".
CanReview(blockers) == MachinePass(blockers) /\ blockers \cap ReviewBlockers # {}
CanDeliver(blockers) == blockers = {}
=============================================================================
