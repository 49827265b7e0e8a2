SPECIFICATION FairSpec
CONSTANTS
    Client = {a, b}
    QueueLimit = 1
    Address = {m1}
    EventsAtOnce = 2
    MaxCalls = 2
    MaxReplies = 2
    MaxMonitors = 2
INVARIANTS SleepsOnlyWhenIdle RightMonitor
PROPERTIES EveryMessageIsSent EveryCallIsDispatched
CHECK_DEADLOCK FALSE
