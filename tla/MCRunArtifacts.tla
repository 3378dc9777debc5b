---------------------------- MODULE MCRunArtifacts ----------------------------
(***************************************************************************)
(* Instances of RunArtifacts for TLC.                                      *)
(***************************************************************************)
EXTENDS RunArtifacts, TLC

MCSymmetry == Permutations(Batches) \cup Permutations(Drafts)
=============================================================================
