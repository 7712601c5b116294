SPECIFICATION ChunkCallsSpec
CONSTANTS
  N = 2
  Concurrency = 2
  Threads <- MCThreads
  KindsOf <- MCKindsOf
  KeyOf <- MCKeyOf
  LimiterKeys = {"document"}
  Nobody = Nobody
  MaxEntries = 1
  MaxRetries = 1
  Interval = 1
CHECK_DEADLOCK FALSE
PROPERTIES Ends CallsComeToAnEnd ImplementsRunner
