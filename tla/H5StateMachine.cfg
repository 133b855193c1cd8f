SPECIFICATION FairSpec
CONSTANT PacketRetransmissions = 3
INVARIANTS FreshHandshake NeverTerminates SendsOnlyToOpenPort QuietUartClose OnlyLostCloseHangs
PROPERTIES OpenReturns HandshakeEnds StopHonoured
CHECK_DEADLOCK FALSE
