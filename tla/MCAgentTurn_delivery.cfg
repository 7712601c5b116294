SPECIFICATION Spec
CONSTANTS
  MutatingTools = {"write_file"}
  Targets = {f}
  NoTarget = NoTarget
  MaxErrors = 1
  MaxStalled = 1
  MaxAttempts = 1
  PendingCap = 2
  Lease = 2
  MaxBatch = 1
  MaxTurns = 2
CHECK_DEADLOCK FALSE
INVARIANTS ObligationsKept
PROPERTIES CompleteMeansDelivered LifecycleSpec
