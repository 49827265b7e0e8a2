SPECIFICATION FairSpec
CONSTANTS
    MaxEvents = 4
    MaxModifies = 2
    Closable = TRUE
INVARIANTS InOrder NoMissedEvent OneNotification
PROPERTIES EveryEventIsTaken ClosedIsDestroyed
CHECK_DEADLOCK FALSE
