SPECIFICATION PoolSpec
CONSTANTS
  Runtimes = {r1, r2}
  None = None
CHECK_DEADLOCK FALSE
INVARIANT OneTurnAtATime
