SPECIFICATION Spec
CONSTANTS
  Op = {o1}
  Tier = {e1, e2, cloud}
  Cloud = cloud
  HeaClients = {e1, e2}
  Methods <- AllMethods
  RestoreReplies = {"ok", "error"}
  Stragglers = {}
  MaxMigrations = 1
  MaxTime = 1
INVARIANTS DstReadyAfterPhase3
CHECK_DEADLOCK FALSE
