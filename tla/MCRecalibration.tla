--------------------------- MODULE MCRecalibration ---------------------------
(* An instance of Recalibration: two edge nodes with room for one operator     *)
(* each and the cloud, with the default constants.                              *)
EXTENDS Recalibration

CONSTANTS n1, n2, cloud, main, start

MCNodes    == <<n1, n2>>
MCOps      == <<"PatternDetector", "NormalizerOperator">>   \* only the second has an SLO
MCTiers    == <<n1, n2, cloud>>
MCCapacity == (n1 :> 1) @@ (n2 :> 1) @@ (cloud :> 100)

\* Both operators are fast, or both miss the SLO of the second: the order of the
\* greedy choice is then reversed.
MCLatencies == {[o \in Op |-> ms] : ms \in {1, 10}}

\* One preset that may be asked for beside the initial one, and an unknown name.
MCRequests == {"latency-first", "fastest"}

\* Idle, and saturated: 99 percent is where the resource score is capped.
MCReport   == {[reachable |-> TRUE, cpu |-> c, mem |-> 0, rtt |-> 5] : c \in {0, 99}}
=============================================================================
