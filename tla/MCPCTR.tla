------------------------------- MODULE MCPCTR -------------------------------
(* Instances of PCTR for TLC: two edge nodes and the cloud.                *)
EXTENDS PCTRRefinement, TLC

AllMethods == Calls \union {"flink_restore"}
Symmetry == Permutations(Op) \union Permutations(Tier \ {Cloud})
=============================================================================
