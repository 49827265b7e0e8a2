CONSTANTS
  Threads = {t1, t2, t3}
  MaxCalls = 5
  MaxNotifies = 2
SPECIFICATION FairSpec
INVARIANTS
  MutualExclusion
  SleepersHaveAWaker
  SleepersAreFlagged
  NoSleepThroughNotify
PROPERTIES
  EveryLockReturns
CHECK_DEADLOCK FALSE
