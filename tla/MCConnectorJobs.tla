---------------------------- MODULE MCConnectorJobs ----------------------------
(* Instances of ConnectorJobs for TLC.                                       *)
EXTENDS ConnectorJobs, TLC

Symmetry == Permutations(Op) \union Permutations(Call)
=============================================================================
