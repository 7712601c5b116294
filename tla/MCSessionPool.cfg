SPECIFICATION FairPoolSpec
CONSTANTS
  Runtimes = {r1, r2, r3}
  None = None
CHECK_DEADLOCK FALSE
INVARIANTS PoolTypeOK PoolHolds
PROPERTIES PoolDrains StreamsEnd
