SPECIFICATION Spec
CONSTANTS
  Interval = 2
  Lag = 1
  Warmup = 3
  Pct = 60
  Cap = 2
  Slo = 1
  Latency <- Latencies
  MaxEvents = 3
  Workload <- OneWorkload
  System <- Systems
  Network <- Networks
  Reps = 2
  Duration = 4
  LoadFrom = 1
  SyntheticSpan = 6
  MaxRestarts = 1
CONSTRAINT EventsInFirst
INVARIANTS
  ResultsInOrder
  ComparisonsMatched
  SavedWindows
  FiguresAgree
CHECK_DEADLOCK FALSE
