SPECIFICATION FairSpec
CONSTANTS
    Callers = {"app"}
    MaxFrames = 5
    MaxSessions = 2
INVARIANTS NothingLost
PROPERTIES ImplementsChannel QueueDrains
CHECK_DEADLOCK FALSE
