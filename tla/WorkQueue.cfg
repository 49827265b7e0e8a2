SPECIFICATION Spec
CONSTANTS
    p1 = p1
    p2 = p2
    t1 = t1
    t2 = t2
    Worker <- MCWorker
    Permanent <- MCPermanent
    MaximumThreads = 3
    MaxPushes = 4
INVARIANTS CountCoversWaiters IdleWorkersAreCalled
PROPERTIES DispatchesInOrder EveryItemIsTaken DestructorReturns
CHECK_DEADLOCK FALSE
