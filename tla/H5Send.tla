------------------------------- MODULE H5Send -------------------------------
(***************************************************************************)
(* H5Transport::send(): a command goes to the device as a reliable packet, *)
(* stop and wait, while the link state is ACTIVE.  Two threads of the host *)
(* share seqNum:                                                           *)
(*                                                                         *)
(*   sender  inside send(), one at a time (isOpenMutex);                   *)
(*   io      processPacket() for the ACK packets that arrive.              *)
(*                                                                         *)
(* The serial line keeps the order of packets and may lose any of them (a  *)
(* packet that fails its checksum is dropped).  Losing a packet where it   *)
(* would be received is as general as losing it anywhere.                  *)
(*                                                                         *)
(* The device is external: it accepts the packet whose sequence number it  *)
(* expects, and answers every reliable packet with the number it expects   *)
(* next, as processPacket() does for the packets of the device.            *)
(***************************************************************************)
EXTENDS Naturals, Sequences

CONSTANTS
    Modulus,                \* sequence numbers are modulo this: 8
    PacketRetransmissions,  \* PACKET_RETRANSMISSIONS
    MaxCommands,            \* bound: calls of send()
    MaxInFlight             \* bound: packets in flight in each direction

ASSUME ModulusAssumption == Modulus \in Nat /\ Modulus > 2
ASSUME BoundsAssumption ==
    /\ PacketRetransmissions \in Nat \ {0}
    /\ MaxCommands \in Nat
    /\ MaxInFlight \in Nat

VARIABLES
    sender,        \* where send() is: "idle" between calls
    command,       \* the number of the call, its data
    seqNum,        \* H5Transport::seqNum
    lastPacket,    \* the encoded packet: sequence number and command
    seqNumBefore,
    remainingRetransmissions,
    result,        \* what the last call returned
    irrecoverableSyncError,
    toDevice,      \* reliable packets on their way to the device
    toHost,        \* ack numbers on their way to the host
    expected,      \* device: the sequence number it accepts
    received,      \* device: the commands accepted
    gaveUp         \* history: some call returned without its ack, with
                   \* NO_RESPONSE or with an error of the port

hostVars   == <<sender, command, seqNum, lastPacket, seqNumBefore,
                remainingRetransmissions, result, irrecoverableSyncError, gaveUp>>
deviceVars == <<expected, received>>
vars       == <<hostVars, deviceVars, toDevice, toHost>>

SeqNums == 0..(Modulus - 1)
Frames  == [seq : SeqNums, cmd : 0..MaxCommands]

(* incrementSeqNum().                                                      *)
Inc(n) == (n + 1) % Modulus

Init ==
    /\ sender = "idle"
    /\ command = 0
    /\ seqNum = 0
    /\ lastPacket = [seq |-> 0, cmd |-> 0]
    /\ seqNumBefore = 0
    /\ remainingRetransmissions = 0
    /\ result = "none"
    /\ irrecoverableSyncError = FALSE
    /\ toDevice = <<>>
    /\ toHost = <<>>
    /\ expected = 0
    /\ received = <<>>
    /\ gaveUp = FALSE

-----------------------------------------------------------------------------
(* The sender.                                                             *)

(* remainingRetransmissions--; NoCountdown forgets it.                     *)
NoCountdown(n) == n
Countdown(n)   == n - 1

(* What goes on the line: the packet encoded once per call.  Reencoded is  *)
(* the slip of encoding it anew, with the current seqNum, for every try.   *)
Reencoded   == [lastPacket EXCEPT !.seq = seqNum]
Transmitted == lastPacket

(* A call of send() up to its loop: the packet is encoded once.            *)
Send ==
    /\ sender = "idle"
    /\ command < MaxCommands
    /\ command' = command + 1
    /\ lastPacket' = [seq |-> seqNum, cmd |-> command']
    /\ remainingRetransmissions' = PacketRetransmissions
    /\ sender' = "loop"
    /\ UNCHANGED <<seqNum, seqNumBefore, result, irrecoverableSyncError, gaveUp,
                   deviceVars, toDevice, toHost>>

(* while (remainingRetransmissions--) seqNumBefore = seqNum, or give up.   *)
Snapshot ==
    /\ sender = "loop"
    /\ remainingRetransmissions > 0
    /\ remainingRetransmissions' = Countdown(remainingRetransmissions)
    /\ seqNumBefore' = seqNum
    /\ sender' = "transmit"
    /\ UNCHANGED <<command, seqNum, lastPacket, result, irrecoverableSyncError, gaveUp,
                   deviceVars, toDevice, toHost>>

GiveUp ==
    /\ sender = "loop"
    /\ remainingRetransmissions = 0
    /\ result' = "NO_RESPONSE"
    /\ gaveUp' = TRUE
    /\ sender' = "idle"
    /\ UNCHANGED <<command, seqNum, lastPacket, seqNumBefore, remainingRetransmissions,
                   irrecoverableSyncError, deviceVars, toDevice, toHost>>

Transmit ==
    /\ sender = "transmit"
    /\ Len(toDevice) < MaxInFlight
    /\ toDevice' = Append(toDevice, Transmitted)
    /\ sender' = "wait"
    /\ UNCHANGED <<command, seqNum, lastPacket, seqNumBefore, remainingRetransmissions,
                   result, irrecoverableSyncError, gaveUp, deviceVars, toHost>>

(* nextTransportLayer->send() returns an error, and send() returns it at   *)
(* once.  The error may be that of a write that could not be started for a *)
(* packet that is in the queue already: that one may still go out later.   *)
TransmitFails ==
    /\ sender = "transmit"
    /\ result' = "SERIAL_PORT"
    /\ gaveUp' = TRUE
    /\ sender' = "idle"
    /\ \/ UNCHANGED toDevice
       \/ /\ Len(toDevice) < MaxInFlight
          /\ toDevice' = Append(toDevice, Transmitted)
    /\ UNCHANGED <<command, seqNum, lastPacket, seqNumBefore, remainingRetransmissions,
                   irrecoverableSyncError, deviceVars, toHost>>

(* ackReceived.wait_for() ends: its predicate holds, or the time is up.    *)
Acknowledged ==
    /\ sender = "wait"
    /\ seqNum # seqNumBefore
    /\ result' = "SUCCESS"
    /\ sender' = "idle"
    /\ UNCHANGED <<command, seqNum, lastPacket, seqNumBefore, remainingRetransmissions,
                   irrecoverableSyncError, gaveUp, deviceVars, toDevice, toHost>>

TimedOut ==
    /\ sender = "wait"
    /\ seqNum = seqNumBefore
    /\ sender' = "loop"
    /\ UNCHANGED <<command, seqNum, lastPacket, seqNumBefore, remainingRetransmissions,
                   result, irrecoverableSyncError, gaveUp, deviceVars, toDevice, toHost>>

-----------------------------------------------------------------------------
(* The io thread: the ACK_PACKET branch of processPacket() in ACTIVE.      *)

(* Any ack advances seqNum in AcceptAnyAck, as if the packet waited for    *)
(* were the only one that could be acknowledged; in NoDiscard an ack of    *)
(* the packet before is an error.                                          *)
AcceptAnyAck(ack) == Inc(seqNum)
NextSeqNum(ack)   == IF ack = Inc(seqNum) THEN Inc(seqNum) ELSE seqNum

NoDiscard(ack)     == ack # Inc(seqNum)
Irrecoverable(ack) == ack \notin {seqNum, Inc(seqNum)}

ProcessAck ==
    /\ toHost # <<>>
    /\ toHost' = Tail(toHost)
    /\ seqNum' = NextSeqNum(Head(toHost))
    /\ irrecoverableSyncError' = (irrecoverableSyncError \/ Irrecoverable(Head(toHost)))
    /\ UNCHANGED <<sender, command, lastPacket, seqNumBefore, remainingRetransmissions,
                   result, gaveUp, deviceVars, toDevice>>

-----------------------------------------------------------------------------
(* The line and the device.                                                *)

LosePacket ==
    /\ toDevice # <<>>
    /\ toDevice' = Tail(toDevice)
    /\ UNCHANGED <<hostVars, deviceVars, toHost>>

LoseAck ==
    /\ toHost # <<>>
    /\ toHost' = Tail(toHost)
    /\ UNCHANGED <<hostVars, deviceVars, toDevice>>

DeviceReceive ==
    /\ toDevice # <<>>
    /\ Len(toHost) < MaxInFlight
    /\ toDevice' = Tail(toDevice)
    /\ LET packet == Head(toDevice)
       IN  IF packet.seq = expected
           THEN /\ expected' = Inc(expected)
                /\ received' = Append(received, packet.cmd)
           ELSE UNCHANGED deviceVars
    /\ toHost' = Append(toHost, expected')
    /\ UNCHANGED hostVars

-----------------------------------------------------------------------------
Resume == Snapshot \/ GiveUp \/ Transmit \/ Acknowledged \/ TimedOut
Link   == LosePacket \/ LoseAck \/ DeviceReceive
Next   == Send \/ Resume \/ TransmitFails \/ ProcessAck \/ Link

(* A call of send() goes on, its timed wait ends, and the line carries or  *)
(* loses what is in flight.  That a call ends by a failing transmission is *)
(* never relied on.                                                        *)
Fairness == WF_vars(Resume) /\ WF_vars(ProcessAck) /\ WF_vars(Link)

Spec     == Init /\ [][Next]_vars
FairSpec == Spec /\ Fairness

-----------------------------------------------------------------------------
(* Properties.                                                             *)

(* Every variable has its type.                                            *)
TypeOK ==
    /\ sender \in {"idle", "loop", "transmit", "wait"}
    /\ command \in 0..MaxCommands
    /\ seqNum \in SeqNums
    /\ lastPacket \in Frames
    /\ seqNumBefore \in SeqNums
    /\ remainingRetransmissions \in 0..PacketRetransmissions
    /\ result \in {"none", "SUCCESS", "NO_RESPONSE", "SERIAL_PORT"}
    /\ irrecoverableSyncError \in BOOLEAN
    /\ toDevice \in Seq(Frames)
    /\ toHost \in Seq(SeqNums)
    /\ expected \in SeqNums
    /\ received \in Seq(0..MaxCommands)
    /\ gaveUp \in BOOLEAN

(* However packets and acks are lost, retransmitted and late, even after   *)
(* send() has given up or failed and the next call reuses the number, no   *)
(* ACK fits neither seqNum nor its successor: processPacket() never resets *)
(* the link for an irrecoverable sync error within a session.              *)
NoIrrecoverableSyncError == ~irrecoverableSyncError

(* As long as no call has returned without its ack, the device has         *)
(* accepted every command in order, once, up to the last one, whose call   *)
(* may still be running.                                                   *)
ExactlyOnce ==
    ~gaveUp =>
        \E last \in {command - 1, command} :
            /\ received = [i \in 1..last |-> i]
            /\ sender = "idle" => last = command

(* send() returns, whatever is lost.                                       *)
SendReturns == sender # "idle" ~> sender = "idle"

(* Commands reach the device in order and at most once, even after send()  *)
(* has given up or failed.                                                 *)
Channel == INSTANCE AtMostOnceChannel WITH offered <- command, delivered <- received

ImplementsChannel == Channel!Spec
=============================================================================
