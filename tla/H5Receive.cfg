SPECIFICATION FairSpec
CONSTANTS
    Modulus = 3
    MaxEvents = 5
    MaxInFlight = 3
INVARIANTS ExactlyOnce
PROPERTIES DeviceGetsAck
CHECK_DEADLOCK FALSE
