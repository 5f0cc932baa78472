SPECIFICATION FairSpec
CONSTANTS
  n1 = n1
  n2 = n2
  cloud = cloud
  main = main
  start = start
  Loop = {main, start}
  Nodes <- MCNodes
  Report <- MCReport
  Ops <- MCOps
  Tiers <- MCTiers
  Cloud = cloud
  Capacity <- MCCapacity
  Kappa = 2
  SloPenalty = 10
  DeltaH = 15
  Latencies <- MCLatencies
  Requests <- MCRequests
INVARIANTS
  AssignmentFits
  AssignmentIsCheapest
PROPERTIES
  TelemetryConverges
  Settles
  LeavesDeadNodes
CHECK_DEADLOCK FALSE
