SPECIFICATION Spec
CONSTANTS
  MutatingTools = {"write_file"}
  Targets = {f}
  NoTarget = NoTarget
  MaxErrors = 2
  MaxStalled = 2
  MaxAttempts = 2
  PendingCap = 2
  Lease = 2
  MaxBatch = 2
  MaxTurns = 2
CHECK_DEADLOCK FALSE
INVARIANTS PairedHistory
