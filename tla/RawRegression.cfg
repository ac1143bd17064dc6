\* Two active runs ingest at the same time.
SPECIFICATION Spec
CONSTANTS
  LastDay = 2
  MaxActiveRuns = 2
  Retries = 2
  Lookback = 1
  Backfilled = FALSE
  MaxLoads = 2
  MaxFaults = 0
CONSTANT Loads <- ValidLoads
PROPERTY
  RawNeverRegresses
CHECK_DEADLOCK FALSE
