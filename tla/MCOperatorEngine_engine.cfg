SPECIFICATION FairSpec
CONSTANTS
  detector = detector
  logger = logger
  join = join
  None = None
  High = 1
  Batch = 2
  Loads <- MCLoads
INVARIANTS
  TypeOK
  DropExplained
  DuplicatesExplained
  CommitCovers
  BacklogBounded
PROPERTIES CommitsResume
CHECK_DEADLOCK FALSE
