\* The daily DAG on a lake the Makefile's backfill has staged.
SPECIFICATION Spec
CONSTANTS
  LastDay = 2
  MaxActiveRuns = 1
  Retries = 2
  Lookback = 1
  Backfilled = TRUE
  MaxLoads = 1
  MaxFaults = 0
CONSTANT Loads <- ValidLoads
INVARIANT
  BuildFailsOnlyByFault
CHECK_DEADLOCK FALSE
