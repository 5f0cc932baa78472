SPECIFICATION Spec
CONSTANTS
  Op = {o1, o2}
  Tier = {e1, e2, cloud}
  Cloud = cloud
  HeaClients = {e1, e2}
  Methods <- AllMethods
  RestoreReplies = {"ok"}
  Stragglers = {}
  MaxMigrations = 2
  MaxTime = 2
SYMMETRY Symmetry
INVARIANTS TypeOK OneMigrationPerOperator DstReadyAfterPhase3 NeverLost
PROPERTIES CompletedMeansMoved ImplementsHandover
CHECK_DEADLOCK FALSE
