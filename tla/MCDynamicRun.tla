----------------------------- MODULE MCDynamicRun -----------------------------
(***************************************************************************)
(* Instance of DynamicRun for TLC: the default plan; a plan of two         *)
(* searches, two analyses and two reports with dependencies the wrong way  *)
(* round; a plan that forgets everything but two reports and a verifier,   *)
(* which wait for each other; a plan whose two searches do; a plan of one  *)
(* search.                                                                 *)
(***************************************************************************)
EXTENDS DynamicRun

MCPlanIds == {"t1", "t2", "t3", "t4", "t5", "t6"}

T(type, deps, priority) == [type |-> type, deps |-> deps, priority |-> priority]

Default ==
  [t1 |-> T("deep_researcher", {}, 5), t2 |-> T("browser", {"t1"}, 4),
   t3 |-> T("deep_analyze", {"t1", "t2"}, 5), t4 |-> T("final_answer", {"t3"}, 4),
   t5 |-> T("verifier", {"t4"}, 3)]

Muddled ==
  [t1 |-> T("final_answer", {}, 5), t2 |-> T("deep_analyze", {"t1", "t6"}, 1),
   t3 |-> T("deep_researcher", {"t2"}, 3), t4 |-> T("deep_analyze", {"t2"}, 5),
   t5 |-> T("deep_researcher", {"t3"}, 5)]

Verdicts ==
  [t1 |-> T("final_answer", {"t2"}, 5), t2 |-> T("verifier", {"t1", "t3"}, 5),
   t3 |-> T("final_answer", {"t1"}, 1)]

Circle ==
  [t1 |-> T("deep_researcher", {"t2"}, 5), t2 |-> T("deep_researcher", {"t1"}, 4)]

Sparse == [t1 |-> T("deep_researcher", {"t4"}, 3)]

MCPlans == {Default, Muddled, Verdicts, Circle, Sparse}

MCProfiles ==
  {[verifier |-> 1, delivery |-> 1], [verifier |-> 0, delivery |-> 1], [verifier |-> 0, delivery |-> 0]}
=============================================================================
