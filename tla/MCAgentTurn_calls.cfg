SPECIFICATION FairSpec
CONSTANTS
  MutatingTools = {}
  Targets = {}
  NoTarget = NoTarget
  MaxErrors = 2
  MaxStalled = 2
  MaxAttempts = 2
  PendingCap = 2
  Lease = 2
  MaxBatch = 2
  MaxTurns = 2
CHECK_DEADLOCK FALSE
INVARIANTS TypeOK NewCallsAnswered
PROPERTIES StopMeansStop TurnEnds
