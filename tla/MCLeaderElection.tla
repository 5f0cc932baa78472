--------------------------- MODULE MCLeaderElection ---------------------------
(* Instances of LeaderElection for TLC.                                      *)
EXTENDS LeaderElection, TLC

Symmetry == Permutations(Instance) \union Permutations(Lease)
=============================================================================
