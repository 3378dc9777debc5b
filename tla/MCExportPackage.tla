---------------------------- MODULE MCExportPackage ----------------------------
(***************************************************************************)
(* Instances of ExportPackage for TLC.                                     *)
(***************************************************************************)
EXTENDS ExportPackage, TLC

CONSTANTS k1, k2, e1, c1, c2, json, csv

MCFormats == <<json, csv>>

\* A claim the policy approves, and a critical one with a number.  Either fails
\* verification when a run leaves no evidence.
Plain(k) == [key |-> k, critical |-> FALSE, summary |-> "passed", number |-> NoNumber,
             cites |-> {e1}, sure |-> TRUE]
Critical(k) == [key |-> k, critical |-> TRUE, summary |-> "passed", number |-> c1,
                cites |-> {e1}, sure |-> TRUE]

MCClaimFiles == {<<Critical(k1), Plain(k2)>>, <<Critical(k1), Critical(k2)>>}
MCEvidenceFiles == {[e \in {} |-> c1], e1 :> c1}
=============================================================================
