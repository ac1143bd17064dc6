\* The compaction DAG beside the daily DAG.
SPECIFICATION FairSpec
CONSTANTS
  LastDay = 3
  Compactors = {k1, k2}
  Tierers = {t1}
  Retries = 1
  MaxFaults = 1
CONSTANT Rejected <- MCRejected
INVARIANTS
  TypeOK
  OlderPartitionsPresent
PROPERTIES
  LossIsRepaired
  CompactionRunsEnd
CHECK_DEADLOCK FALSE
