\* Two runs of the DAG at a time.
SPECIFICATION Spec
CONSTANTS
  LastDay = 2
  MaxActiveRuns = 2
  Retries = 1
  Lookback = 1
  Backfilled = FALSE
  MaxLoads = 2
  MaxFaults = 2
CONSTANT Loads <- NullLoads
INVARIANTS
  TypeOK
  FeaturesMatchStaging
  MissingTableIsIngests
  MartKeepsFinishedDays
  GateHolds
  LookbackComplete
  BuildBlockedByEarlierDay
PROPERTIES
  RunsOnlyAdvance
  ImplementsRawLayer
CHECK_DEADLOCK FALSE
