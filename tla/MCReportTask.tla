---------------------------- MODULE MCReportTask ----------------------------
(***************************************************************************)
(* Instances of ReportTask for TLC.                                        *)
(***************************************************************************)
EXTENDS ReportTask, TLC

\* No claims, claims waiting for review, all approved, one rejected and unsupported.
MCClaimStates == {{}, {"pending"}, {"approved"}, {"approved", "rejected", "unsupported"}}
MCFewClaimStates == {{}, {"pending"}, {"approved"}}

MCAllOps == AllOps
\* A process that never dies, and clients that only use run, start, retry,
\* cancel, archive and review.
MCPlainOps == {"run", "retry_task", "cancel", "archive", "bulk_archive", "review"}

MCSymmetry == Permutations(Workers)
=============================================================================
