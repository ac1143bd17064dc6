\* Are the features of a finished day in the mart?
SPECIFICATION Spec
CONSTANTS
  LastDay = 2
  MaxActiveRuns = 1
  Retries = 2
  Lookback = 1
  Backfilled = FALSE
  MaxLoads = 1
  MaxFaults = 0
CONSTANT Loads <- ValidLoads
INVARIANT
  MartCarriesFeatures
CHECK_DEADLOCK FALSE
