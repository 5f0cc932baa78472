SPECIFICATION Spec
CONSTANTS
  Instance = {a1, a2}
  Lease = {l1, l2, l3}
  TTL = 3
  Lag = 0
  Faults = {}
INVARIANTS NotLeaderWhileOtherHolds
