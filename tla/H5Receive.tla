----------------------------- MODULE H5Receive ------------------------------
(***************************************************************************)
(* The reliable packets of the device: the VENDOR_SPECIFIC_PACKET branch   *)
(* of H5Transport::processPacket() while the link state is ACTIVE.  The io *)
(* thread is the only one that reads or writes ackNum in a session, and it *)
(* handles a packet from end to end: accept it or not, acknowledge it, and *)
(* hand its data to the layer above.                                       *)
(*                                                                         *)
(* The device is external: it sends one packet at a time and repeats it    *)
(* until the next sequence number is acknowledged.  The line keeps the     *)
(* order of packets and may lose any of them.                              *)
(***************************************************************************)
EXTENDS Naturals, Sequences

CONSTANTS
    Modulus,        \* sequence numbers are modulo this: 8
    MaxEvents,      \* bound: packets the device has to send
    MaxInFlight     \* bound: packets in flight in each direction

ASSUME ModulusAssumption == Modulus \in Nat /\ Modulus > 1
ASSUME BoundsAssumption == MaxEvents \in Nat /\ MaxInFlight \in Nat

VARIABLES
    ackNum,         \* H5Transport::ackNum
    delivered,      \* the data given to upperDataCallback
    event,          \* device: the number of its latest packet
    unacked,        \* device: that packet is not acknowledged yet
    deviceSeq,      \* device: its sequence number
    toHost,         \* reliable packets on their way to the host
    toDevice        \* ack numbers on their way to the device

deviceVars == <<event, unacked, deviceSeq>>
vars       == <<ackNum, delivered, deviceVars, toHost, toDevice>>

SeqNums == 0..(Modulus - 1)
Frames  == [seq : SeqNums, evt : 0..MaxEvents]

(* incrementAckNum().                                                      *)
Inc(n) == (n + 1) % Modulus

Init ==
    /\ ackNum = 0
    /\ delivered = <<>>
    /\ event = 0
    /\ unacked = FALSE
    /\ deviceSeq = 0
    /\ toHost = <<>>
    /\ toDevice = <<>>

-----------------------------------------------------------------------------
(* The io thread.                                                          *)

(* Is the packet accepted?  Variant: whatever its number.                  *)
AcceptsAny(seq) == TRUE
Accepts(seq)    == seq = ackNum

(* The ACK sent for a packet.  Variant: only an accepted packet is         *)
(* acknowledged.                                                           *)
AckIfNew(seq) == IF Accepts(seq) THEN <<ackNum'>> ELSE <<>>
AckFor(seq)   == <<ackNum'>>

ProcessPacket ==
    /\ toHost # <<>>
    /\ Len(toDevice) < MaxInFlight
    /\ toHost' = Tail(toHost)
    /\ LET packet == Head(toHost)
       IN  /\ \/ /\ Accepts(packet.seq)
                 /\ ackNum' = Inc(ackNum)
                 /\ delivered' = Append(delivered, packet.evt)
              \/ /\ ~Accepts(packet.seq)
                 /\ UNCHANGED <<ackNum, delivered>>
           /\ toDevice' = toDevice \o AckFor(packet.seq)
    /\ UNCHANGED deviceVars

-----------------------------------------------------------------------------
(* The device and the line.                                                *)

NewEvent ==
    /\ ~unacked
    /\ event < MaxEvents
    /\ event' = event + 1
    /\ unacked' = TRUE
    /\ UNCHANGED <<ackNum, delivered, deviceSeq, toHost, toDevice>>

DeviceTransmit ==
    /\ unacked
    /\ Len(toHost) < MaxInFlight
    /\ toHost' = Append(toHost, [seq |-> deviceSeq, evt |-> event])
    /\ UNCHANGED <<ackNum, delivered, deviceVars, toDevice>>

DeviceReceiveAck ==
    /\ toDevice # <<>>
    /\ toDevice' = Tail(toDevice)
    /\ \/ /\ unacked /\ Head(toDevice) = Inc(deviceSeq)
          /\ deviceSeq' = Inc(deviceSeq)
          /\ unacked' = FALSE
          /\ UNCHANGED event
       \/ /\ ~(unacked /\ Head(toDevice) = Inc(deviceSeq))
          /\ UNCHANGED deviceVars
    /\ UNCHANGED <<ackNum, delivered, toHost>>

LosePacket ==
    /\ toHost # <<>>
    /\ toHost' = Tail(toHost)
    /\ UNCHANGED <<ackNum, delivered, deviceVars, toDevice>>

LoseAck ==
    /\ toDevice # <<>>
    /\ toDevice' = Tail(toDevice)
    /\ UNCHANGED <<ackNum, delivered, deviceVars, toHost>>

-----------------------------------------------------------------------------
Link == LosePacket \/ LoseAck
Next == ProcessPacket \/ NewEvent \/ DeviceTransmit \/ DeviceReceiveAck \/ Link

(* The device repeats its packet, and a line on which packets arrive again *)
(* and again does not lose all of them.                                    *)
Fairness ==
    /\ WF_vars(DeviceTransmit)
    /\ SF_vars(ProcessPacket)
    /\ SF_vars(DeviceReceiveAck)

Spec     == Init /\ [][Next]_vars
FairSpec == Spec /\ Fairness

-----------------------------------------------------------------------------
(* Properties.                                                             *)

(* Every variable has its type.                                            *)
TypeOK ==
    /\ ackNum \in SeqNums
    /\ delivered \in Seq(0..MaxEvents)
    /\ event \in 0..MaxEvents
    /\ unacked \in BOOLEAN
    /\ deviceSeq \in SeqNums
    /\ toHost \in Seq(Frames)
    /\ toDevice \in Seq(SeqNums)

(* upperDataCallback gets every packet of the device in order and once; a  *)
(* packet the device believes delivered has been.                          *)
ExactlyOnce ==
    \E last \in {event, event - 1} :
        /\ delivered = [i \in 1..last |-> i]
        /\ ~unacked => last = event

(* A packet that was delivered is acknowledged in the end, so the device   *)
(* is never left repeating it: duplicates are acknowledged too.            *)
DeviceGetsAck == unacked ~> ~unacked

(* Packets reach the layer above in order and at most once.                *)
Channel == INSTANCE AtMostOnceChannel WITH offered <- event, delivered <- delivered

ImplementsChannel == Channel!Spec
=============================================================================
