---------------------------- MODULE MCTaskRowRaces ----------------------------
(***************************************************************************)
(* Instances of TaskRowRaces for TLC.                                      *)
(***************************************************************************)
EXTENDS TaskRowRaces, TLC

MCSymmetry == Permutations(Threads)
=============================================================================
