SPECIFICATION FairSpec
CONSTANTS
    Call = {c1, c2}
    Proc = {p1, p2}
    SingleThreaded = TRUE
    Deadline = {1, 2, 4}
    Leeway = {0, 1}
    UINT64_MAX = 99
    PastAdjustment = 1
    MaxTime = 6
    MaxEnters = 3
INVARIANT TimerIsArmed
PROPERTY EveryTimerFires
CHECK_DEADLOCK FALSE
