SPECIFICATION Spec
CONSTANTS
    Callers = {"app"}
    MaxFrames = 3
    MaxSessions = 1
INVARIANTS SentIsWritten
CHECK_DEADLOCK FALSE
