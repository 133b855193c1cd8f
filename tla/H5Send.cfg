SPECIFICATION FairSpec
CONSTANTS
    Modulus = 3
    PacketRetransmissions = 3
    MaxCommands = 5
    MaxInFlight = 4
INVARIANTS NoIrrecoverableSyncError ExactlyOnce
PROPERTIES SendReturns ImplementsChannel
CHECK_DEADLOCK FALSE
