\* Without faults, with the code's two retries.
SPECIFICATION Spec
CONSTANTS
  LastDay = 2
  MaxActiveRuns = 1
  Retries = 2
  Lookback = 1
  Backfilled = FALSE
  MaxLoads = 1
  MaxFaults = 0
CONSTANT Loads <- ValidLoads
INVARIANT
  RetriesAbsorbFailures
CHECK_DEADLOCK FALSE
