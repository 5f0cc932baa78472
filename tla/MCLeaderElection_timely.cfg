SPECIFICATION FairSpec
CONSTANTS
  Instance = {a1, a2}
  Lease = {l1, l2, l3}
  TTL = 6
  Lag = 3
  Faults = {"transaction", "refresh", "revoke"}
PROPERTIES LockKept LockFreed
