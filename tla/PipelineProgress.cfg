\* Three days, two runs of the DAG at a time: does every run end, and does
\* catchup go on?
SPECIFICATION FairSpec
CONSTANTS
  LastDay = 3
  MaxActiveRuns = 2
  Retries = 1
  Lookback = 1
  Backfilled = FALSE
  MaxLoads = 1
  MaxFaults = 0
CONSTANT Loads <- TwinLoads
PROPERTIES
  EveryRunEnds
  CatchupReachesEveryDay
CHECK_DEADLOCK FALSE
