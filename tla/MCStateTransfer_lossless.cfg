SPECIFICATION Spec
CONSTANTS
  One = 10
  WindowSize = 3
  EmitEvery = 2
  Pct = 60
  NZones = 2
  JoinTimeout = 1
  Threshold = 6
  MaxTimes = 2
  Sensors <- MCSensors
  EmitInterval = 1
  Congestion = 7
  MaxHistory = 2
  Limit = 500
  StatEvery = 2
  None = None
  FlinkWindow = 2
  FlinkThreshold = 5
  Inputs <- MCInputs
  Moved <- Kinds
  LocalSchemas <- MCLocalSchemas
  EtcdSchemas <- MCEtcdSchemas
  ConnectorFiles <- MCConnectorFiles
  Restored <- MCRestored
  Garbage = Garbage
  Error = Error
  MaxRecords = 4
  MaxClock = 2
  MaxMoves = 1
INVARIANT SnapshotLossless
CONSTRAINT Apart
CHECK_DEADLOCK FALSE
