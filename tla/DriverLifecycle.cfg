SPECIFICATION FairSpec
CONSTANTS
    Apps = {"app"}
    CallbackCalls = {"send", "close"}
    MaxEvents = 3
INVARIANTS ThreadInsideSession GapStateOfOpenTransport NoLostWakeup
PROPERTIES ImplementsChannel NoStaleEvent OpenReturns OnlyNestedCloseHangs
CHECK_DEADLOCK FALSE
