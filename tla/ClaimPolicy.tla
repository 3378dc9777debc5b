----------------------------- MODULE ClaimPolicy -----------------------------
(***************************************************************************)
(* What the artifact importer makes of one claim of claims.json: the three *)
(* check statuses, the review status its policy starts from, and the       *)
(* evidence it links (src/services/artifact_importer.py).  Pure operators; *)
(* ReviewDesk is the machine that uses them.                               *)
(*                                                                         *)
(* A claim of the file is a record                                         *)
(*   critical  flagged critical, or of a critical section                  *)
(*   summary   what verification_report.json says: passed, failed, none    *)
(*   number    the content of the evidence that would carry the claim's    *)
(*             number, or NoNumber                                         *)
(*   cites     the evidence ids it names                                   *)
(*   sure      confidence of at least 0.75                                 *)
(* The agents' claims.json carries no status of its own (schemas/claim.py),*)
(* so the importer's "explicit" branches are not reached.                  *)
(***************************************************************************)
CONSTANTS NoNumber

Summaries == {"passed", "failed", "none"}
Verifications == {"supported", "failed", "pending"}
Reviews == {"pending", "approved", "rejected", "regenerate_requested"}

\* The cited evidence that was imported with this run's evidence.json.
Linked(claim, imported) == claim.cites \cap imported

VerificationStatus(claim, linked) ==
  CASE claim.summary = "passed" /\ linked # {} -> "supported"
    [] claim.summary = "passed" /\ linked = {} -> "failed"
    [] claim.summary = "failed"                -> "failed"
    [] claim.summary = "none" /\ linked # {} /\ claim.number = NoNumber -> "supported"
    [] OTHER -> "pending"

\* The number is looked up in the text of all linked evidence together.
NumericStatus(claim, linked, content) ==
  CASE claim.number = NoNumber -> "none"
    [] claim.number # NoNumber /\ \E e \in linked : content[e] = claim.number -> "passed"
    [] OTHER -> "failed"

CitationStatus(claim, linked) ==
  IF claim.cites # {} /\ claim.cites = linked THEN "passed" ELSE "failed"

\* Only an uncritical claim that passed every check is approved by machine.
ReviewStatus(claim, verification, numeric, citation) ==
  IF /\ ~claim.critical
     /\ verification = "supported"
     /\ citation = "passed"
     /\ numeric \in {"none", "passed"}
     /\ claim.sure
  THEN "approved" ELSE "pending"
=============================================================================
