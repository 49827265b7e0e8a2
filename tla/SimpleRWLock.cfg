CONSTANTS
  Threads = {t1, t2, t3}
  MaxCalls = 4
SPECIFICATION InitialisedSpec
INVARIANTS
  RWExclusion
  SleepersAreRemembered
  InitialisedBeforeUse
PROPERTIES
  EveryCallReturns
CHECK_DEADLOCK FALSE
