--------------------------- MODULE MCOperatorEngine ---------------------------
(* Instance of OperatorEngine for TLC: four situations, each as large as its *)
(* question needs.                                                            *)
EXTENDS OperatorEngine

CONSTANTS detector, logger, join

MCLoads == {
  \* one operator whose queue may exceed the high-water mark
  [op |-> {detector}, cpu |-> {detector}, movable |-> {detector},
   poison |-> {}, records |-> 4, regs |-> 2, faults |-> 0],
  \* a cpu-bound and an io-bound operator that come and go, and a bad record
  [op |-> {detector, logger}, cpu |-> {detector}, movable |-> {detector, logger},
   poison |-> {1}, records |-> 2, regs |-> 3, faults |-> 0],
  \* the same two with a crash, a rebalance or a commit that fails
  [op |-> {detector, logger}, cpu |-> {detector}, movable |-> {},
   poison |-> {}, records |-> 3, regs |-> 3, faults |-> 1],
  \* two cpu-bound operators that share the consumer
  [op |-> {detector, join}, cpu |-> {detector, join}, movable |-> {detector},
   poison |-> {}, records |-> 3, regs |-> 2, faults |-> 0]}
===============================================================================
