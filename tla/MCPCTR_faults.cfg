SPECIFICATION FairSpec
CONSTANTS
  Op = {o1}
  Tier = {e1, e2, cloud}
  Cloud = cloud
  HeaClients = {e1, e2}
  Methods <- AllMethods
  RestoreReplies = {"ok", "error"}
  Stragglers = {1}
  MaxMigrations = 2
  MaxTime = 2
INVARIANTS LossExplained RestoresOwnSnapshot
PROPERTIES EveryMigrationEnds
CHECK_DEADLOCK FALSE
