SPECIFICATION FairSpec
CONSTANTS
  Tasks = {t1, t2}
  MaxTasks = 1
  MaxRuns = 2
  MaxAge = 2
CHECK_DEADLOCK FALSE
INVARIANTS TypeOK SlotIsOrderly DoneHasOutput
PROPERTIES SlotReleased RetryGetsSlot
