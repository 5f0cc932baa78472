SPECIFICATION Spec
CONSTANTS
  Op = {o1, o2}
  Tier = {edge, cloud}
  Caller = {c1, c2, c3}
  PutMayFail = TRUE
  Stragglers = {o1}
SYMMETRY Symmetry
CONSTRAINTS ThreeAboutOne OneMishap
INVARIANTS EtcdFollowsCache PlacementExplained MoveIsRecorded LockIsHeld
