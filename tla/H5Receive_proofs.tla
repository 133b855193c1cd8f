-------------------------- MODULE H5Receive_proofs --------------------------
(***************************************************************************)
(* Proofs about the receiving side of H5Transport.                         *)
(*                                                                         *)
(* H5Receive, the reliable packets of the device, for any modulus above    *)
(* one, any number of packets sent and in flight: the types, that packets  *)
(* are delivered in order and exactly once, and that the receiving side    *)
(* implements AtMostOnceChannel.                                           *)
(*                                                                         *)
(* H5Framing, the packets as bytes, for any packets, noise and pieces of   *)
(* the stream: the decoders give back what the encoders were given, the    *)
(* cuts of the stream do not matter, and what is lost with a damaged       *)
(* packet.  A loop over a sequence is a function of its turns: Fold() and  *)
(* the lemmas about it say of each loop what it is over nothing, and over  *)
(* a sequence with one element more.                                       *)
(***************************************************************************)
EXTENDS H5Receive, H5Framing, SequenceTheorems, WellFoundedInduction, TLAPS

-----------------------------------------------------------------------------
(* Sequence numbers and sequences.                                         *)

LEMMA IncFacts ==
    ASSUME NEW n \in SeqNums
    PROVE  Inc(n) \in SeqNums /\ Inc(n) # n
<1> USE ModulusAssumption DEF SeqNums, Inc
<1>1. CASE n + 1 = Modulus
  BY <1>1
<1>2. CASE n + 1 < Modulus
  BY <1>2
<1>3. QED BY <1>1, <1>2

LEMMA AppendFacts ==
    ASSUME NEW S, NEW s \in Seq(S), NEW e \in S
    PROVE  /\ s \o <<e>> = Append(s, e)
           /\ Append(s, e) \in Seq(S)
           /\ Len(Append(s, e)) = Len(s) + 1 /\ Len(s) \in Nat
           /\ \A i \in 1..Len(s) : Append(s, e)[i] = s[i]
           /\ Append(s, e)[Len(s) + 1] = e
  OBVIOUS

LEMMA TailFacts ==
    ASSUME NEW S, NEW s \in Seq(S), s # <<>>
    PROVE  /\ Tail(s) \in Seq(S)
           /\ Len(Tail(s)) = Len(s) - 1 /\ Len(s) \in Nat \ {0}
           /\ \A i \in 1..Len(Tail(s)) : Tail(s)[i] = s[i + 1] /\ i + 1 \in 1..Len(s)
           /\ Head(s) = s[1] /\ Head(s) \in S /\ 1 \in 1..Len(s)
  OBVIOUS

-----------------------------------------------------------------------------
(* Types.                                                                  *)

LEMMA InitType == Init => TypeOK
<1> SUFFICES ASSUME Init PROVE TypeOK
  OBVIOUS
<1>1. 0 \in SeqNums /\ 0 \in 0..MaxEvents
  BY BoundsAssumption, ModulusAssumption DEF SeqNums
<1>2. delivered \in Seq(0..MaxEvents) /\ toHost \in Seq(Frames) /\ toDevice \in Seq(SeqNums)
  BY DEF Init
<1>3. QED BY <1>1, <1>2 DEF Init, TypeOK

LEMMA StepType == TypeOK /\ [Next]_vars => TypeOK'
<1> SUFFICES ASSUME TypeOK, [Next]_vars PROVE TypeOK'
  OBVIOUS
<1> USE DEF TypeOK, deviceVars
<1>1. CASE ProcessPacket
  <2>1. Head(toHost) \in Frames /\ toHost' \in Seq(Frames)
    BY <1>1, TailFacts DEF ProcessPacket
  <2>2. ackNum' \in SeqNums /\ toDevice' = toDevice \o <<ackNum'>>
    BY <1>1, IncFacts DEF ProcessPacket, AckFor
  <2>3. toDevice' \in Seq(SeqNums)
    BY <2>2, AppendFacts
  <2>4. delivered' \in Seq(0..MaxEvents)
    <3>1. Head(toHost).evt \in 0..MaxEvents
      BY <2>1 DEF Frames
    <3>2. Append(delivered, Head(toHost).evt) \in Seq(0..MaxEvents)
      BY <3>1, AppendFacts
    <3>3. QED BY <1>1, <3>2 DEF ProcessPacket
  <2>5. QED BY <1>1, <2>1, <2>2, <2>3, <2>4 DEF ProcessPacket
<1>2. CASE NewEvent
  BY <1>2, BoundsAssumption DEF NewEvent
<1>3. CASE DeviceTransmit
  <2>1. [seq |-> deviceSeq, evt |-> event] \in Frames
    BY DEF Frames
  <2>2. toHost' \in Seq(Frames)
    BY <1>3, <2>1, AppendFacts DEF DeviceTransmit
  <2>3. QED BY <1>3, <2>2 DEF DeviceTransmit
<1>4. CASE DeviceReceiveAck
  <2>1. toDevice' \in Seq(SeqNums)
    BY <1>4, TailFacts DEF DeviceReceiveAck
  <2>2. deviceSeq' \in SeqNums /\ unacked' \in BOOLEAN /\ event' = event
    BY <1>4, IncFacts DEF DeviceReceiveAck
  <2>3. QED BY <1>4, <2>1, <2>2 DEF DeviceReceiveAck
<1>5. CASE LosePacket
  BY <1>5, TailFacts DEF LosePacket
<1>6. CASE LoseAck
  BY <1>6, TailFacts DEF LoseAck
<1>7. CASE UNCHANGED vars
  BY <1>7 DEF vars
<1>8. QED BY <1>1, <1>2, <1>3, <1>4, <1>5, <1>6, <1>7 DEF Next, Link

(* processPacket(), the line and the device keep their types.              *)
THEOREM TypeCorrect == Spec => []TypeOK
  BY InitType, StepType, PTL DEF Spec

-----------------------------------------------------------------------------
(* The latest packet of the device is delivered as soon as ackNum has left *)
(* its number behind.  Until the device knows, no other packet than this   *)
(* one is on the line; before that, older ones may precede it, and they    *)
(* carry a number that is not accepted.                                    *)

Accepted == IF unacked /\ ackNum = deviceSeq THEN event - 1 ELSE event

PhaseInv ==
    /\ ackNum \in {deviceSeq, Inc(deviceSeq)}
    /\ ~unacked => ackNum = deviceSeq
    /\ unacked => event > 0

CountInv == delivered = [i \in 1..Accepted |-> i]

Current(packet) == unacked /\ packet.seq = deviceSeq /\ packet.evt = event
Old(packet)     == Inc(packet.seq) = deviceSeq

PacketInv ==
    /\ \A i \in 1..Len(toHost) : Current(toHost[i]) \/ Old(toHost[i])
    /\ \A i, j \in 1..Len(toHost) :
          i <= j /\ Current(toHost[i]) => Current(toHost[j])
    /\ ackNum # deviceSeq => \A i \in 1..Len(toHost) : Current(toHost[i])

AckInv ==
    /\ \A i \in 1..Len(toDevice) :
          \/ toDevice[i] = deviceSeq
          \/ toDevice[i] = Inc(deviceSeq) /\ ackNum # deviceSeq
    /\ \A i, j \in 1..Len(toDevice) :
          i <= j /\ toDevice[i] = Inc(deviceSeq) => toDevice[j] = Inc(deviceSeq)

LinkInv == PhaseInv /\ CountInv /\ PacketInv /\ AckInv

LEMMA InitLink == Init => LinkInv
  BY DEF Init, LinkInv, PhaseInv, CountInv, PacketInv, AckInv, Accepted

(* What leaves the line takes nothing from what holds of the rest.         *)
LEMMA PopPacket ==
    ASSUME TypeOK, PacketInv, toHost # <<>>, toHost' = Tail(toHost),
           UNCHANGED <<ackNum, event, unacked, deviceSeq>>
    PROVE  PacketInv'
<1>1. /\ Len(toHost') \in Nat
      /\ \A i \in 1..Len(toHost') : toHost'[i] = toHost[i + 1] /\ i + 1 \in 1..Len(toHost)
  BY TailFacts DEF TypeOK
<1>2. \A i \in 1..Len(toHost') :
          /\ Current(toHost[i])' <=> Current(toHost[i + 1])
          /\ Old(toHost[i])' <=> Old(toHost[i + 1])
  BY <1>1 DEF Current, Old, Inc
<1>3. \A i \in 1..Len(toHost') : Current(toHost[i])' \/ Old(toHost[i])'
  BY <1>1, <1>2 DEF PacketInv
<1>4. ASSUME NEW i \in 1..Len(toHost'), NEW j \in 1..Len(toHost'), i <= j, Current(toHost[i])'
      PROVE  Current(toHost[j])'
  <2>1. i + 1 <= j + 1 /\ Current(toHost[i + 1])
    BY <1>1, <1>2, <1>4
  <2>2. Current(toHost[j + 1])
    BY <1>1, <2>1 DEF PacketInv
  <2>3. QED BY <1>2, <2>2
<1>5. ackNum' # deviceSeq' => \A i \in 1..Len(toHost') : Current(toHost[i])'
  BY <1>1, <1>2 DEF PacketInv
<1>6. QED BY <1>3, <1>4, <1>5 DEF PacketInv

LEMMA PopAck ==
    ASSUME TypeOK, AckInv, toDevice # <<>>, toDevice' = Tail(toDevice),
           UNCHANGED <<ackNum, deviceSeq>>
    PROVE  AckInv'
<1>1. /\ Len(toDevice') \in Nat
      /\ \A i \in 1..Len(toDevice') :
            toDevice'[i] = toDevice[i + 1] /\ i + 1 \in 1..Len(toDevice)
  BY TailFacts DEF TypeOK
<1>2. \A i \in 1..Len(toDevice') :
          \/ toDevice'[i] = deviceSeq
          \/ toDevice'[i] = Inc(deviceSeq) /\ ackNum # deviceSeq
  BY <1>1 DEF AckInv
<1>3. ASSUME NEW i \in 1..Len(toDevice'), NEW j \in 1..Len(toDevice'),
             i <= j, toDevice'[i] = Inc(deviceSeq)
      PROVE  toDevice'[j] = Inc(deviceSeq)
  <2>1. i + 1 <= j + 1 /\ toDevice[i + 1] = Inc(deviceSeq)
    BY <1>1, <1>3
  <2>2. QED BY <1>1, <2>1 DEF AckInv
<1>4. QED BY <1>2, <1>3 DEF AckInv, Inc

(* An accepted packet is the latest one, and new.                          *)
LEMMA AcceptFacts ==
    ASSUME TypeOK, LinkInv, toHost # <<>>, Accepts(Head(toHost).seq)
    PROVE  /\ unacked /\ ackNum = deviceSeq /\ Head(toHost).evt = event
           /\ \A i \in 1..Len(toHost) : Current(toHost[i])
<1>1. Head(toHost) = toHost[1] /\ 1 \in 1..Len(toHost)
  BY TailFacts DEF TypeOK
<1>2. ackNum = deviceSeq
  BY <1>1 DEF LinkInv, PacketInv, Current, Accepts
<1>3. ~Old(toHost[1])
  BY <1>1, <1>2, IncFacts DEF Accepts, Old, TypeOK
<1>4. Current(toHost[1])
  BY <1>1, <1>3 DEF LinkInv, PacketInv
<1>5. \A i \in 1..Len(toHost) : 1 <= i
  BY DEF TypeOK
<1>6. \A i \in 1..Len(toHost) : Current(toHost[i])
  BY <1>1, <1>4, <1>5 DEF LinkInv, PacketInv
<1>7. QED BY <1>1, <1>2, <1>4, <1>6 DEF Current

LEMMA StepLink == TypeOK /\ LinkInv /\ [Next]_vars => LinkInv'
<1> SUFFICES ASSUME TypeOK, LinkInv, [Next]_vars PROVE LinkInv'
  OBVIOUS
<1>a. Inc(deviceSeq) \in SeqNums /\ Inc(deviceSeq) # deviceSeq
  BY IncFacts DEF TypeOK
<1>b. event \in Nat /\ Accepted \in Nat
  BY DEF TypeOK, LinkInv, PhaseInv, Accepted
<1>1. CASE ProcessPacket
  <2>1. UNCHANGED <<event, unacked, deviceSeq>> /\ toHost # <<>> /\ toHost' = Tail(toHost)
    BY <1>1 DEF ProcessPacket, deviceVars
  <2>2. ackNum' \in SeqNums /\ toDevice' = Append(toDevice, ackNum')
    <3>1. ackNum' \in SeqNums /\ toDevice' = toDevice \o <<ackNum'>>
      BY <1>1, StepType DEF ProcessPacket, AckFor, TypeOK
    <3>2. QED BY <3>1, AppendFacts DEF TypeOK
  <2>3. /\ Len(toDevice') = Len(toDevice) + 1 /\ Len(toDevice) \in Nat
        /\ \A i \in 1..Len(toDevice) : toDevice'[i] = toDevice[i]
        /\ toDevice'[Len(toDevice) + 1] = ackNum'
    BY <2>2, AppendFacts DEF TypeOK
  <2>4. \A i \in 1..Len(toDevice') :
            \/ i \in 1..Len(toDevice) /\ toDevice'[i] = toDevice[i]
            \/ i = Len(toDevice) + 1 /\ toDevice'[i] = ackNum'
    BY <2>3
  <2>5. CASE Accepts(Head(toHost).seq)
    <3>1. /\ unacked /\ ackNum = deviceSeq /\ Head(toHost).evt = event
          /\ \A i \in 1..Len(toHost) : Current(toHost[i])
      BY <2>1, <2>5, AcceptFacts
    <3>2. ackNum' = Inc(deviceSeq) /\ delivered' = Append(delivered, event)
      BY <1>1, <2>5, <3>1 DEF ProcessPacket
    <3>3. PhaseInv'
      BY <2>1, <3>1, <3>2 DEF LinkInv, PhaseInv, Inc
    <3>4. CountInv'
      <4>1. Accepted = event - 1 /\ Accepted' = event
        BY <1>a, <2>1, <3>1, <3>2 DEF Accepted
      <4>2. delivered = [i \in 1..(event - 1) |-> i] /\ event \in Nat \ {0}
        BY <1>b, <3>1, <4>1 DEF LinkInv, CountInv, PhaseInv
      <4>3. delivered' = [i \in 1..event |-> i]
        BY <3>2, <4>2
      <4>4. QED BY <4>1, <4>3 DEF CountInv
    <3>5. PacketInv'
      <4>1. \A i \in 1..Len(toHost') : toHost'[i] = toHost[i + 1] /\ i + 1 \in 1..Len(toHost)
        BY <2>1, TailFacts DEF TypeOK
      <4>2. \A i \in 1..Len(toHost') : Current(toHost[i])'
        BY <2>1, <3>1, <4>1 DEF Current
      <4>3. QED BY <4>2 DEF PacketInv
    <3>6. AckInv'
      <4>1. \A i \in 1..Len(toDevice) : toDevice'[i] = deviceSeq
        BY <2>3, <3>1 DEF LinkInv, AckInv
      <4>2. deviceSeq' = deviceSeq /\ Inc(deviceSeq)' = Inc(deviceSeq)
        BY <2>1 DEF Inc
      <4>3. QED BY <1>a, <2>3, <2>4, <3>2, <4>1, <4>2 DEF AckInv
    <3>7. QED BY <3>3, <3>4, <3>5, <3>6 DEF LinkInv
  <2>6. CASE ~Accepts(Head(toHost).seq)
    <3>1. UNCHANGED <<ackNum, delivered>>
      BY <1>1, <2>6 DEF ProcessPacket
    <3>2. PhaseInv' /\ CountInv'
      BY <2>1, <3>1 DEF LinkInv, PhaseInv, CountInv, Accepted, Inc
    <3>3. PacketInv'
      BY <2>1, <3>1, PopPacket DEF LinkInv
    <3>4. AckInv'
      <4>1. Inc(deviceSeq)' = Inc(deviceSeq)
        BY <2>1 DEF Inc
      <4>2. QED BY <1>a, <2>1, <2>3, <2>4, <3>1, <4>1 DEF LinkInv, AckInv, PhaseInv
    <3>5. QED BY <3>2, <3>3, <3>4 DEF LinkInv
  <2>7. QED BY <2>5, <2>6
<1>2. CASE NewEvent
  <2>1. /\ UNCHANGED <<ackNum, delivered, deviceSeq, toHost, toDevice>>
        /\ ~unacked /\ unacked' /\ event' = event + 1
    BY <1>2 DEF NewEvent
  <2>2. PhaseInv' /\ CountInv'
    BY <1>b, <2>1 DEF LinkInv, PhaseInv, CountInv, Accepted, Inc
  <2>3. \A i \in 1..Len(toHost') : Old(toHost[i])' /\ toHost'[i].seq # deviceSeq'
    BY <1>a, <2>1 DEF LinkInv, PacketInv, Current, Old, Inc
  <2>4. PacketInv'
    BY <2>1, <2>3 DEF LinkInv, PhaseInv, PacketInv, Current
  <2>5. AckInv'
    BY <2>1 DEF LinkInv, AckInv, Inc
  <2>6. QED BY <2>2, <2>4, <2>5 DEF LinkInv
<1>3. CASE DeviceTransmit
  <2> DEFINE packet == [seq |-> deviceSeq, evt |-> event]
  <2>1. UNCHANGED <<ackNum, delivered, event, unacked, deviceSeq, toDevice>> /\ unacked
    BY <1>3 DEF DeviceTransmit, deviceVars
  <2>2. /\ Len(toHost') = Len(toHost) + 1 /\ Len(toHost) \in Nat
        /\ \A i \in 1..Len(toHost) : toHost'[i] = toHost[i]
        /\ toHost'[Len(toHost) + 1] = packet
    <3>1. packet \in Frames
      BY DEF TypeOK, Frames
    <3>2. QED BY <1>3, <3>1, AppendFacts DEF DeviceTransmit, TypeOK
  <2>3. \A i \in 1..Len(toHost') :
            \/ i \in 1..Len(toHost) /\ toHost'[i] = toHost[i]
            \/ i = Len(toHost) + 1 /\ Current(toHost[i])'
    BY <2>1, <2>2 DEF Current
  <2>4. \A i \in 1..Len(toHost) :
            /\ Current(toHost[i])' <=> Current(toHost[i])
            /\ Old(toHost[i])' <=> Old(toHost[i])
    BY <2>1, <2>2 DEF Current, Old, Inc
  <2>5. PacketInv'
    <3>1. \A i \in 1..Len(toHost') : Current(toHost[i])' \/ Old(toHost[i])'
      BY <2>3, <2>4 DEF LinkInv, PacketInv
    <3>2. ASSUME NEW i \in 1..Len(toHost'), NEW j \in 1..Len(toHost'),
                 i <= j, Current(toHost[i])'
          PROVE  Current(toHost[j])'
      <4>1. CASE j = Len(toHost) + 1
        BY <2>2, <2>3, <4>1
      <4>2. CASE j \in 1..Len(toHost)
        <5>1. i \in 1..Len(toHost)
          BY <2>2, <3>2, <4>2
        <5>2. QED BY <2>4, <3>2, <4>2, <5>1 DEF LinkInv, PacketInv
      <4>3. QED BY <2>2, <4>1, <4>2
    <3>3. ackNum' # deviceSeq' => \A i \in 1..Len(toHost') : Current(toHost[i])'
      BY <2>1, <2>3, <2>4 DEF LinkInv, PacketInv
    <3>4. QED BY <3>1, <3>2, <3>3 DEF PacketInv
  <2>6. PhaseInv' /\ CountInv' /\ AckInv'
    BY <2>1 DEF LinkInv, PhaseInv, CountInv, Accepted, AckInv, Inc
  <2>7. QED BY <2>5, <2>6 DEF LinkInv
<1>4. CASE DeviceReceiveAck
  <2>1. UNCHANGED <<ackNum, delivered, toHost>> /\ toDevice # <<>> /\ toDevice' = Tail(toDevice)
    BY <1>4 DEF DeviceReceiveAck
  <2>2. CASE unacked /\ Head(toDevice) = Inc(deviceSeq)
    <3>1. deviceSeq' = Inc(deviceSeq) /\ ~unacked' /\ event' = event
      BY <1>4, <2>2 DEF DeviceReceiveAck
    <3>2. /\ Head(toDevice) = toDevice[1] /\ 1 \in 1..Len(toDevice)
          /\ \A i \in 1..Len(toDevice') :
                toDevice'[i] = toDevice[i + 1] /\ i + 1 \in 1..Len(toDevice) /\ 1 <= i + 1
      BY <2>1, TailFacts DEF TypeOK
    <3>3. ackNum # deviceSeq /\ ackNum = Inc(deviceSeq)
      BY <1>a, <2>2, <3>2 DEF LinkInv, AckInv, PhaseInv
    <3>4. \A i \in 1..Len(toDevice') : toDevice'[i] = deviceSeq'
      BY <2>2, <3>1, <3>2 DEF LinkInv, AckInv
    <3>5. AckInv'
      BY <3>4 DEF AckInv
    <3>6. \A i \in 1..Len(toHost') : Old(toHost[i])' /\ ~Current(toHost[i])'
      BY <2>1, <3>1, <3>3 DEF LinkInv, PacketInv, Current, Old, Inc
    <3>7. PacketInv' /\ PhaseInv'
      BY <2>1, <3>1, <3>3, <3>6 DEF PacketInv, PhaseInv
    <3>8. CountInv'
      BY <2>1, <3>1, <3>3 DEF LinkInv, CountInv, Accepted
    <3>9. QED BY <3>5, <3>7, <3>8 DEF LinkInv
  <2>3. CASE ~(unacked /\ Head(toDevice) = Inc(deviceSeq))
    <3>1. UNCHANGED <<event, unacked, deviceSeq>>
      BY <1>4, <2>3 DEF DeviceReceiveAck, deviceVars
    <3>2. AckInv'
      BY <2>1, <3>1, PopAck DEF LinkInv
    <3>3. PhaseInv' /\ CountInv' /\ PacketInv'
      BY <2>1, <3>1 DEF LinkInv, PhaseInv, CountInv, Accepted, PacketInv, Current, Old, Inc
    <3>4. QED BY <3>2, <3>3 DEF LinkInv
  <2>4. QED BY <2>2, <2>3
<1>5. CASE LosePacket
  <2>1. /\ UNCHANGED <<ackNum, delivered, event, unacked, deviceSeq, toDevice>>
        /\ toHost # <<>> /\ toHost' = Tail(toHost)
    BY <1>5 DEF LosePacket, deviceVars
  <2>2. PacketInv'
    BY <2>1, PopPacket DEF LinkInv
  <2>3. PhaseInv' /\ CountInv' /\ AckInv'
    BY <2>1 DEF LinkInv, PhaseInv, CountInv, Accepted, AckInv, Inc
  <2>4. QED BY <2>2, <2>3 DEF LinkInv
<1>6. CASE LoseAck
  <2>1. /\ UNCHANGED <<ackNum, delivered, event, unacked, deviceSeq, toHost>>
        /\ toDevice # <<>> /\ toDevice' = Tail(toDevice)
    BY <1>6 DEF LoseAck, deviceVars
  <2>2. AckInv'
    BY <2>1, PopAck DEF LinkInv
  <2>3. PhaseInv' /\ CountInv' /\ PacketInv'
    BY <2>1 DEF LinkInv, PhaseInv, CountInv, Accepted, PacketInv, Current, Old, Inc
  <2>4. QED BY <2>2, <2>3 DEF LinkInv
<1>7. CASE UNCHANGED vars
  BY <1>7 DEF vars, deviceVars, LinkInv, PhaseInv, CountInv, Accepted, PacketInv, AckInv,
              Current, Old, Inc
<1>8. QED BY <1>1, <1>2, <1>3, <1>4, <1>5, <1>6, <1>7 DEF Next, Link

LEMMA LinkIsSound == Spec => [](TypeOK /\ LinkInv)
  BY InitType, StepType, InitLink, StepLink, PTL DEF Spec

-----------------------------------------------------------------------------
(* The packets of the device are given to the layer above in order, each   *)
(* of them once, up to the last or last but one; one that the device takes *)
(* for delivered has been.                                                 *)
THEOREM DeliveredOnce == Spec => []ExactlyOnce
<1>1. TypeOK /\ LinkInv => ExactlyOnce
  <2> SUFFICES ASSUME TypeOK, LinkInv PROVE ExactlyOnce
    OBVIOUS
  <2>1. Accepted \in {event, event - 1} /\ (~unacked => Accepted = event)
    BY DEF Accepted
  <2>2. QED BY <2>1 DEF LinkInv, CountInv, ExactlyOnce
<1>2. QED BY <1>1, LinkIsSound, PTL

(* Each step is a step of the abstract channel or changes nothing it sees: *)
(* processPacket() delivers in order and at most once.                     *)
THEOREM Refinement == Spec => ImplementsChannel
<1>1. Init => Channel!Init
  BY DEF Init, Channel!Init
<1>2. TypeOK /\ LinkInv /\ [Next]_vars => [Channel!Next]_<<event, delivered>>
  <2> SUFFICES ASSUME TypeOK, LinkInv, [Next]_vars
               PROVE  [Channel!Next]_<<event, delivered>>
    OBVIOUS
  <2>1. CASE NewEvent
    BY <2>1 DEF NewEvent, Channel!Next, Channel!Offer
  <2>2. CASE ProcessPacket /\ Accepts(Head(toHost).seq)
    <3>1. /\ unacked /\ ackNum = deviceSeq /\ Head(toHost).evt = event
          /\ event' = event /\ delivered' = Append(delivered, event)
      BY <2>2, AcceptFacts DEF ProcessPacket, deviceVars
    <3>2. event \in Nat \ {0} /\ delivered = [i \in 1..(event - 1) |-> i]
      BY <3>1 DEF TypeOK, LinkInv, PhaseInv, CountInv, Accepted
    <3>3. Channel!Latest(delivered) = event - 1
      <4>1. Len(delivered) = event - 1
        BY <3>2
      <4>2. CASE event = 1
        BY <3>2, <4>1, <4>2 DEF Channel!Latest
      <4>3. CASE event > 1
        BY <3>2, <4>1, <4>3 DEF Channel!Latest
      <4>4. QED BY <3>2, <4>2, <4>3
    <3>4. event \in (Channel!Latest(delivered) + 1)..event
      BY <3>2, <3>3
    <3>5. QED BY <3>1, <3>4 DEF Channel!Next, Channel!Deliver
  <2>3. CASE ProcessPacket /\ ~Accepts(Head(toHost).seq)
    BY <2>3 DEF ProcessPacket, deviceVars
  <2>4. CASE DeviceTransmit \/ DeviceReceiveAck \/ LosePacket \/ LoseAck \/ UNCHANGED vars
    BY <2>4 DEF DeviceTransmit, DeviceReceiveAck, LosePacket, LoseAck, vars, deviceVars
  <2>5. QED BY <2>1, <2>2, <2>3, <2>4 DEF Next, Link
<1>3. QED
  BY <1>1, <1>2, LinkIsSound, PTL DEF Spec, ImplementsChannel, Channel!Spec

-----------------------------------------------------------------------------
(* Loops over sequences.                                                   *)

(* Induction from 0 to k, about a set of numbers.                          *)
LEMMA UpTo ==
    ASSUME NEW k \in Nat, NEW T, 0 \in T, \A n \in 1..k : n - 1 \in T => n \in T
    PROVE  \A n \in 0..k : n \in T
<1> DEFINE missing == {n \in 0..k : n \notin T}
<1> SUFFICES ASSUME missing # {} PROVE FALSE
  OBVIOUS
<1>1. PICK m \in missing : \A n \in missing : ~(<<n, m>> \in OpToRel(<, Nat))
  <2>1. missing \subseteq Nat
    OBVIOUS
  <2> HIDE DEF missing
  <2>2. QED BY <2>1, NatLessThanWellFounded, WFMin
<1>2. m \in 1..k /\ m - 1 \in 0..k /\ m - 1 < m
  OBVIOUS
<1>3. m - 1 \notin missing
  <2>1. <<m - 1, m>> \in OpToRel(<, Nat)
    BY <1>2 DEF OpToRel
  <2>2. QED BY <1>1, <2>1
<1>4. QED BY <1>2, <1>3

(* A loop over s has a value after each of its turns.                      *)
LoopOver(s, D, base, step, f) ==
    /\ f \in [0..Len(s) -> D]
    /\ f[0] = base
    /\ \A n \in 1..Len(s) : f[n] = step[<<f[n - 1], s[n]>>]

LEMMA LoopExists ==
    ASSUME NEW D, NEW B, NEW step \in [D \X B -> D], NEW base \in D, NEW s \in Seq(B)
    PROVE  \E f : LoopOver(s, D, base, step, f)
<1> DEFINE Is(f, m) == f[0] = base /\ \A n \in 1..m : f[n] = step[<<f[n - 1], s[n]>>]
           T == {m \in 0..Len(s) : \E f \in [0..m -> D] : Is(f, m)}
<1>0. Len(s) \in Nat
  OBVIOUS
<1>1. 0 \in T
  <2> DEFINE f == [n \in 0..0 |-> base]
  <2>1. f \in [0..0 -> D] /\ f[0] = base
    OBVIOUS
  <2>2. Is(f, 0)
    BY <2>1
  <2> HIDE DEF f, Is
  <2>3. QED BY <1>0, <2>1, <2>2
<1>2. ASSUME NEW m \in 1..Len(s), m - 1 \in T PROVE m \in T
  <2>1. PICK f \in [0..(m - 1) -> D] : Is(f, m - 1)
    BY <1>2
  <2> DEFINE g == [n \in 0..m |-> IF n = m THEN step[<<f[m - 1], s[m]>>] ELSE f[n]]
  <2>2. s[m] \in B /\ f[m - 1] \in D
    BY <2>1
  <2>3. g \in [0..m -> D]
    BY <2>2
  <2>4. ASSUME NEW n \in 1..m PROVE g[n] = step[<<g[n - 1], s[n]>>]
    <3>1. CASE n = m
      <4>1. g[m] = step[<<f[m - 1], s[m]>>] /\ g[m - 1] = f[m - 1]
        OBVIOUS
      <4>2. QED BY <3>1, <4>1
    <3>2. CASE n # m
      <4>1. n \in 1..(m - 1) /\ g[n] = f[n] /\ g[n - 1] = f[n - 1]
        BY <3>2
      <4>2. QED BY <2>1, <4>1
    <3>3. QED BY <3>1, <3>2
  <2>5. g[0] = base
    BY <2>1
  <2>6. Is(g, m)
    BY <2>4, <2>5
  <2> HIDE DEF g, Is
  <2>7. QED BY <2>3, <2>6
<1>3. Len(s) \in T
  <2> HIDE DEF T
  <2>1. \A m \in 1..Len(s) : m - 1 \in T => m \in T
    BY <1>2
  <2>2. \A m \in 0..Len(s) : m \in T
    BY <1>0, <1>1, <2>1, UpTo
  <2>3. QED BY <1>0, <2>2
<1>4. QED BY <1>3 DEF LoopOver

(* Loops over sequences that begin alike have had the same values.         *)
LEMMA LoopUnique ==
    ASSUME NEW D, NEW base, NEW step, NEW s, NEW t,
           NEW f, NEW g, LoopOver(s, D, base, step, f), LoopOver(t, D, base, step, g),
           NEW k \in Nat, Len(s) \in Nat, Len(t) \in Nat, k <= Len(s), k <= Len(t),
           \A i \in 1..k : s[i] = t[i]
    PROVE  f[k] = g[k]
<1> DEFINE T == {n \in 0..k : f[n] = g[n]}
<1>1. 0 \in T
  BY DEF LoopOver
<1>2. ASSUME NEW n \in 1..k, n - 1 \in T PROVE n \in T
  <2>1. n \in 1..Len(s) /\ n \in 1..Len(t) /\ s[n] = t[n] /\ f[n - 1] = g[n - 1]
    BY <1>2
  <2>2. f[n] = step[<<f[n - 1], s[n]>>] /\ g[n] = step[<<g[n - 1], t[n]>>]
    BY <2>1 DEF LoopOver
  <2>3. QED BY <2>1, <2>2
<1>3. \A n \in 0..k : n \in T
  <2> HIDE DEF T
  <2>1. \A n \in 1..k : n - 1 \in T => n \in T
    BY <1>2
  <2>2. QED BY <1>1, <2>1, UpTo
<1>4. QED BY <1>3

(* The last value of a loop, and what it is after one turn more.           *)
Fold(s, D, base, step) == (CHOOSE f : LoopOver(s, D, base, step, f))[Len(s)]

IsStep(step, D, B) == step \in [D \X B -> D]

LEMMA FoldIs ==
    ASSUME NEW D, NEW B, NEW step, IsStep(step, D, B), NEW base \in D, NEW s \in Seq(B),
           NEW f, LoopOver(s, D, base, step, f)
    PROVE  f[Len(s)] = Fold(s, D, base, step)
<1> DEFINE g == CHOOSE h : LoopOver(s, D, base, step, h)
<1>1. LoopOver(s, D, base, step, g)
  OBVIOUS
<1>2. Fold(s, D, base, step) = g[Len(s)]
  BY DEF Fold
<1> HIDE DEF g
<1>3. Len(s) \in Nat /\ Len(s) <= Len(s) /\ \A i \in 1..Len(s) : s[i] = s[i]
  OBVIOUS
<1>4. f[Len(s)] = g[Len(s)]
  BY <1>1, <1>3, LoopUnique
<1>5. QED BY <1>2, <1>4

LEMMA FoldLoop ==
    ASSUME NEW D, NEW B, NEW step, IsStep(step, D, B), NEW base \in D, NEW s \in Seq(B)
    PROVE  \E f : LoopOver(s, D, base, step, f) /\ f[Len(s)] = Fold(s, D, base, step)
<1>1. PICK f : LoopOver(s, D, base, step, f)
  BY LoopExists DEF IsStep
<1>2. f[Len(s)] = Fold(s, D, base, step)
  BY <1>1, FoldIs
<1>3. QED BY <1>1, <1>2

LEMMA FoldType ==
    ASSUME NEW D, NEW B, NEW step, IsStep(step, D, B), NEW base \in D, NEW s \in Seq(B)
    PROVE  Fold(s, D, base, step) \in D
<1>1. PICK f : LoopOver(s, D, base, step, f) /\ f[Len(s)] = Fold(s, D, base, step)
  BY FoldLoop
<1>2. Len(s) \in 0..Len(s)
  OBVIOUS
<1>3. QED BY <1>1, <1>2 DEF LoopOver

LEMMA FoldEmpty ==
    ASSUME NEW D, NEW B, NEW step, IsStep(step, D, B), NEW base \in D
    PROVE  Fold(<<>>, D, base, step) = base
<1> DEFINE s == <<>>
<1>1. s \in Seq(B) /\ Len(s) = 0
  OBVIOUS
<1> HIDE DEF s
<1>2. PICK f : LoopOver(s, D, base, step, f) /\ f[Len(s)] = Fold(s, D, base, step)
  BY <1>1, FoldLoop
<1>3. Fold(s, D, base, step) = base
  BY <1>1, <1>2 DEF LoopOver
<1>4. QED BY <1>3 DEF s

OneMore(t, s, b)  == t = Append(s, b)
Turn(step, x, b) == step[<<x, b>>]

LEMMA FoldAppend ==
    ASSUME NEW D, NEW B, NEW step, IsStep(step, D, B), NEW base \in D,
           NEW s \in Seq(B), NEW b \in B, NEW t, OneMore(t, s, b)
    PROVE  Fold(t, D, base, step) = Turn(step, Fold(s, D, base, step), b)
<1>1. /\ t \in Seq(B) /\ Len(t) = Len(s) + 1 /\ t[Len(t)] = b /\ Len(s) \in Nat /\ Len(t) \in Nat
      /\ \A i \in 1..Len(s) : s[i] = t[i]
  BY DEF OneMore
<1>2. PICK f : LoopOver(s, D, base, step, f) /\ f[Len(s)] = Fold(s, D, base, step)
  BY FoldLoop
<1>3. PICK g : LoopOver(t, D, base, step, g) /\ g[Len(t)] = Fold(t, D, base, step)
  BY <1>1, FoldLoop
<1>4. f[Len(s)] = g[Len(s)]
  <2>1. Len(s) <= Len(s) /\ Len(s) <= Len(t)
    BY <1>1
  <2>2. QED BY <1>1, <1>2, <1>3, <2>1, LoopUnique
<1>5. g[Len(t)] = step[<<g[Len(s)], b>>]
  <2>1. Len(t) \in 1..Len(t) /\ Len(t) - 1 = Len(s)
    BY <1>1
  <2>2. g[Len(t)] = step[<<g[Len(t) - 1], t[Len(t)]>>]
    BY <1>3, <2>1 DEF LoopOver
  <2>3. QED BY <1>1, <2>1, <2>2
<1>6. QED BY <1>2, <1>3, <1>4, <1>5 DEF Turn

(* A function that a loop defines, with the values the loop is known to    *)
(* have while they are in D, is that loop.                                 *)
LEMMA LoopIs ==
    ASSUME NEW D, NEW B, NEW step, IsStep(step, D, B), NEW base \in D, NEW s \in Seq(B),
           NEW f, f = [n \in 0..Len(s) |-> f[n]], f[0] = base,
           \A n \in 1..Len(s) : f[n - 1] \in D => f[n] = step[<<f[n - 1], s[n]>>]
    PROVE  LoopOver(s, D, base, step, f)
<1> DEFINE T == {n \in 0..Len(s) : f[n] \in D}
<1>0. Len(s) \in Nat
  OBVIOUS
<1>1. 0 \in T
  BY <1>0
<1>2. ASSUME NEW n \in 1..Len(s), n - 1 \in T PROVE n \in T
  <2>1. f[n - 1] \in D /\ s[n] \in B
    BY <1>2
  <2>2. f[n] = step[<<f[n - 1], s[n]>>]
    BY <2>1
  <2>3. f[n] \in D
    BY <2>1, <2>2 DEF IsStep
  <2>4. QED BY <2>3
<1>3. \A n \in 0..Len(s) : n \in T
  <2> HIDE DEF T
  <2>1. \A n \in 1..Len(s) : n - 1 \in T => n \in T
    BY <1>2
  <2>2. QED BY <1>0, <1>1, <2>1, UpTo
<1>4. f \in [0..Len(s) -> D]
  BY <1>3
<1>5. ASSUME NEW n \in 1..Len(s) PROVE f[n] = step[<<f[n - 1], s[n]>>]
  <2>1. n - 1 \in 0..Len(s)
    OBVIOUS
  <2>2. QED BY <1>3, <2>1
<1>6. QED BY <1>4, <1>5 DEF LoopOver

(* Induction over sequences, about a set of them.                          *)
LEMMA OnSequences ==
    ASSUME NEW B, NEW T, <<>> \in T, \A s \in Seq(B), b \in B : s \in T => Append(s, b) \in T
    PROVE  \A s \in Seq(B) : s \in T
<1> SUFFICES ASSUME NEW s \in Seq(B) PROVE s \in T
  OBVIOUS
<1>0. Len(s) \in Nat
  OBVIOUS
<1> DEFINE first(n) == SubSeq(s, 1, n)
           N == {n \in 0..Len(s) : first(n) \in T}
<1>1. 0 \in N
  <2>1. first(0) = <<>>
    BY SubSeqEmpty
  <2> HIDE DEF first
  <2>2. QED BY <1>0, <2>1
<1>2. ASSUME NEW n \in 1..Len(s), n - 1 \in N PROVE n \in N
  <2>1. SubSeq(s, 1, n - 1) \in Seq(B) /\ s[n] \in B
    <3>1. \A i \in 1..(n - 1) : s[i] \in B
      OBVIOUS
    <3>2. QED BY <3>1, SubSeqProperties
  <2>2. SubSeq(s, 1, n) = Append(SubSeq(s, 1, n - 1), s[n])
    <3>1. 1 \in 1..Len(s) /\ n \in 1..Len(s)
      OBVIOUS
    <3>2. SubSeq(s, 1, n) = SubSeq(s, 1, n - 1) \o <<s[n]>>
      BY <3>1, SubSeqRecursiveSecond
    <3>3. QED BY <2>1, <3>2, AppendIsConcat
  <2>3. first(n - 1) \in Seq(B) /\ first(n) = Append(first(n - 1), s[n])
    BY <2>1, <2>2
  <2> HIDE DEF first
  <2>4. first(n - 1) \in T
    BY <1>2
  <2>5. first(n) \in T
    BY <2>1, <2>3, <2>4
  <2>6. n \in 0..Len(s)
    OBVIOUS
  <2>7. QED BY <2>5, <2>6
<1>3. \A n \in 0..Len(s) : n \in N
  <2> HIDE DEF N
  <2>1. \A n \in 1..Len(s) : n - 1 \in N => n \in N
    BY <1>2
  <2>2. QED BY <1>0, <1>1, <2>1, UpTo
<1>4. first(Len(s)) = s
  BY SubSeqFull
<1> HIDE DEF first
<1>5. QED BY <1>0, <1>3, <1>4

-----------------------------------------------------------------------------
(* slip.cpp.                                                               *)

LEMMA ByteFacts ==
    /\ {END, ESC, ESC_END, ESC_ESC} \subseteq Byte
    /\ \A b \in Byte : escape(b) \in Seq(Byte)
BY DEF Byte, END, ESC, ESC_END, ESC_ESC, escape

LEMMA EscapedFacts ==
    /\ \A s \in Seq(Byte) : Escaped(s) \in Seq(Byte)
    /\ Escaped(<<>>) = <<>>
    /\ \A s \in Seq(Byte), b \in Byte : Escaped(Append(s, b)) = Escaped(s) \o escape(b)
<1> DEFINE step == [x \in Seq(Byte) \X Byte |-> x[1] \o escape(x[2])]
           none == <<>>
<1>1. IsStep(step, Seq(Byte), Byte) /\ none \in Seq(Byte)
  BY ByteFacts DEF IsStep
<1>2. \A x \in Seq(Byte), b \in Byte : step[<<x, b>>] = x \o escape(b)
  OBVIOUS
<1> HIDE DEF step, none
<1>3. ASSUME NEW s \in Seq(Byte)
      PROVE  Escaped(s) = Fold(s, Seq(Byte), none, step)
  <2> DEFINE Is(f) == f = [n \in 0..Len(s) |-> IF n = 0 THEN <<>> ELSE f[n - 1] \o escape(s[n])]
             f == CHOOSE g : Is(g)
  <2>1. PICK g : LoopOver(s, Seq(Byte), none, step, g)
    BY <1>1, LoopExists DEF IsStep
  <2>2. Is(g)
    <3>1. g = [n \in 0..Len(s) |-> g[n]]
      BY <2>1 DEF LoopOver
    <3>2. ASSUME NEW n \in 0..Len(s) PROVE g[n] = IF n = 0 THEN <<>> ELSE g[n - 1] \o escape(s[n])
      <4>1. CASE n = 0
        BY <2>1, <4>1 DEF LoopOver, none
      <4>2. CASE n # 0
        <5>1. n \in 1..Len(s) /\ n - 1 \in 0..Len(s) /\ s[n] \in Byte
          BY <4>2
        <5>2. g[n] = step[<<g[n - 1], s[n]>>] /\ g[n - 1] \in Seq(Byte)
          BY <2>1, <5>1 DEF LoopOver
        <5>3. QED BY <1>2, <4>2, <5>1, <5>2
      <4>3. QED BY <4>1, <4>2
    <3>3. QED BY <3>1, <3>2
  <2>3. Is(f)
    <3> HIDE DEF Is
    <3>1. QED BY <2>2
  <2>4. Escaped(s) = f[Len(s)]
    BY DEF Escaped
  <2> HIDE DEF f
  <2>5. /\ f = [n \in 0..Len(s) |-> f[n]]
        /\ f[0] = none
        /\ \A n \in 1..Len(s) : f[n - 1] \in Seq(Byte) => f[n] = step[<<f[n - 1], s[n]>>]
    <3>1. ASSUME NEW n \in 1..Len(s), f[n - 1] \in Seq(Byte) PROVE f[n] = step[<<f[n - 1], s[n]>>]
      <4>1. s[n] \in Byte /\ n \in 0..Len(s) /\ n # 0
        OBVIOUS
      <4>2. f[n] = f[n - 1] \o escape(s[n])
        BY <2>3, <4>1
      <4>3. QED BY <1>2, <3>1, <4>1, <4>2
    <3>2. 0 \in 0..Len(s)
      OBVIOUS
    <3>3. QED BY <2>3, <3>1, <3>2 DEF none
  <2> HIDE DEF Is
  <2>6. LoopOver(s, Seq(Byte), none, step, f)
    BY <1>1, <2>5, LoopIs
  <2>7. f[Len(s)] = Fold(s, Seq(Byte), none, step)
    BY <1>1, <2>6, FoldIs
  <2>8. QED BY <2>4, <2>7
<1>4. ASSUME NEW s \in Seq(Byte) PROVE Escaped(s) \in Seq(Byte)
  BY <1>1, <1>3, FoldType
<1>5. Escaped(<<>>) = <<>>
  <2> DEFINE nothing == <<>>
  <2>1. nothing \in Seq(Byte)
    OBVIOUS
  <2>2. Fold(nothing, Seq(Byte), none, step) = none
    BY <1>1, FoldEmpty
  <2>3. Escaped(nothing) = none
    <3> HIDE DEF nothing
    <3>1. QED BY <1>3, <2>1, <2>2
  <2>4. QED BY <2>3 DEF none
<1>6. ASSUME NEW s \in Seq(Byte), NEW b \in Byte PROVE Escaped(Append(s, b)) = Escaped(s) \o escape(b)
  <2> DEFINE more == Append(s, b)
  <2>1. more \in Seq(Byte) /\ OneMore(more, s, b)
    BY DEF OneMore
  <2> HIDE DEF more
  <2>2. Fold(more, Seq(Byte), none, step) = Turn(step, Fold(s, Seq(Byte), none, step), b)
    BY <1>1, <2>1, FoldAppend
  <2>3. QED BY <1>2, <1>3, <1>4, <2>1, <2>2 DEF more, Turn
<1>7. QED BY <1>4, <1>5, <1>6

Decoding == [out : Seq(Byte), esc : BOOLEAN, err : BOOLEAN]

LEMMA DecodeType ==
    /\ NothingYet \in Decoding
    /\ \A d \in Decoding, b \in Byte : Decode(d, b) \in Decoding
<1>1. NothingYet \in Decoding
  BY DEF NothingYet, Decoding
<1>2. ASSUME NEW d \in Decoding, NEW b \in Byte PROVE Decode(d, b) \in Decoding
  <2>1. \A c \in Byte : [out |-> Append(d.out, c), esc |-> FALSE, err |-> FALSE] \in Decoding
    BY DEF Decoding
  <2>2. [d EXCEPT !.err = TRUE] \in Decoding /\ [d EXCEPT !.esc = TRUE] \in Decoding
    BY DEF Decoding
  <2>3. {d.err, d.esc} \subseteq BOOLEAN
    BY DEF Decoding
  <2>4. QED BY <2>1, <2>2, <2>3, ByteFacts DEF Decode
<1>3. QED BY <1>1, <1>2

LEMMA DecodedFacts ==
    /\ \A s \in Seq(Byte) : Decoded(s) \in Decoding
    /\ Decoded(<<>>) = NothingYet
    /\ \A s \in Seq(Byte), b \in Byte : Decoded(Append(s, b)) = Decode(Decoded(s), b)
<1> DEFINE step == [x \in Decoding \X Byte |-> Decode(x[1], x[2])]
           start == NothingYet
<1>1. IsStep(step, Decoding, Byte) /\ start \in Decoding
  BY DecodeType DEF IsStep
<1>2. \A x \in Decoding, b \in Byte : step[<<x, b>>] = Decode(x, b)
  OBVIOUS
<1> HIDE DEF step, start
<1>3. ASSUME NEW s \in Seq(Byte)
      PROVE  Decoded(s) = Fold(s, Decoding, start, step)
  <2> DEFINE Is(f) == f = [n \in 0..Len(s) |-> IF n = 0 THEN NothingYet ELSE Decode(f[n - 1], s[n])]
             f == CHOOSE g : Is(g)
  <2>1. PICK g : LoopOver(s, Decoding, start, step, g)
    BY <1>1, LoopExists DEF IsStep
  <2>2. Is(g)
    <3>1. g = [n \in 0..Len(s) |-> g[n]]
      BY <2>1 DEF LoopOver
    <3>2. ASSUME NEW n \in 0..Len(s) PROVE g[n] = IF n = 0 THEN NothingYet ELSE Decode(g[n - 1], s[n])
      <4>1. CASE n = 0
        BY <2>1, <4>1 DEF LoopOver, start
      <4>2. CASE n # 0
        <5>1. n \in 1..Len(s) /\ n - 1 \in 0..Len(s) /\ s[n] \in Byte
          BY <4>2
        <5>2. g[n] = step[<<g[n - 1], s[n]>>] /\ g[n - 1] \in Decoding
          BY <2>1, <5>1 DEF LoopOver
        <5>3. QED BY <1>2, <4>2, <5>1, <5>2
      <4>3. QED BY <4>1, <4>2
    <3>3. QED BY <3>1, <3>2
  <2>3. Is(f)
    <3> HIDE DEF Is
    <3>1. QED BY <2>2
  <2>4. Decoded(s) = f[Len(s)]
    BY DEF Decoded
  <2> HIDE DEF f
  <2>5. /\ f = [n \in 0..Len(s) |-> f[n]]
        /\ f[0] = start
        /\ \A n \in 1..Len(s) : f[n - 1] \in Decoding => f[n] = step[<<f[n - 1], s[n]>>]
    <3>1. ASSUME NEW n \in 1..Len(s), f[n - 1] \in Decoding PROVE f[n] = step[<<f[n - 1], s[n]>>]
      <4>1. s[n] \in Byte /\ n \in 0..Len(s) /\ n # 0
        OBVIOUS
      <4>2. f[n] = Decode(f[n - 1], s[n])
        BY <2>3, <4>1
      <4>3. QED BY <1>2, <3>1, <4>1, <4>2
    <3>2. 0 \in 0..Len(s)
      OBVIOUS
    <3>3. QED BY <2>3, <3>1, <3>2 DEF start
  <2> HIDE DEF Is
  <2>6. LoopOver(s, Decoding, start, step, f)
    BY <1>1, <2>5, LoopIs
  <2>7. f[Len(s)] = Fold(s, Decoding, start, step)
    BY <1>1, <2>6, FoldIs
  <2>8. QED BY <2>4, <2>7
<1>4. ASSUME NEW s \in Seq(Byte) PROVE Decoded(s) \in Decoding
  BY <1>1, <1>3, FoldType
<1>5. Decoded(<<>>) = NothingYet
  <2> DEFINE nothing == <<>>
  <2>1. nothing \in Seq(Byte)
    OBVIOUS
  <2>2. Fold(nothing, Decoding, start, step) = start
    BY <1>1, FoldEmpty
  <2>3. Decoded(nothing) = start
    <3> HIDE DEF nothing
    <3>1. QED BY <1>3, <2>1, <2>2
  <2>4. QED BY <2>3 DEF start
<1>6. ASSUME NEW s \in Seq(Byte), NEW b \in Byte PROVE Decoded(Append(s, b)) = Decode(Decoded(s), b)
  <2> DEFINE more == Append(s, b)
  <2>1. more \in Seq(Byte) /\ OneMore(more, s, b)
    BY DEF OneMore
  <2> HIDE DEF more
  <2>2. Fold(more, Decoding, start, step) = Turn(step, Fold(s, Decoding, start, step), b)
    BY <1>1, <2>1, FoldAppend
  <2>3. QED BY <1>2, <1>3, <1>4, <2>1, <2>2 DEF more, Turn
<1>7. QED BY <1>4, <1>5, <1>6

LEMMA EscapeCases ==
    ASSUME NEW b \in Byte
    PROVE  \/ b = END /\ escape(b) = <<ESC, ESC_END>>
           \/ b = ESC /\ escape(b) = <<ESC, ESC_ESC>>
           \/ b \notin {END, ESC} /\ escape(b) = <<b>>
BY DEF escape, END, ESC

LEMMA Regroup ==
    ASSUME NEW S, NEW s \in Seq(S), NEW a \in S, NEW b \in S
    PROVE  s \o <<a, b>> = Append(Append(s, a), b) /\ s \o <<a>> = Append(s, a)
OBVIOUS

Regrouped(s, t, u) == s \o (t \o u) = (s \o t) \o u

LEMMA Chained ==
    ASSUME NEW S, NEW s \in Seq(S), NEW t \in Seq(S), NEW u \in Seq(S)
    PROVE  s \o t \in Seq(S) /\ Regrouped(s, t, u)
<1>1. s \o t \in Seq(S)
  OBVIOUS
<1>2. (s \o t) \o u = s \o (t \o u)
  BY ConcatAssociative
<1>3. QED BY <1>1, <1>2 DEF Regrouped

(* A decoder that is not within an escape sequence takes the bytes of an   *)
(* escaped byte for that byte.                                             *)
LEMMA DecodesEscaped ==
    ASSUME NEW s \in Seq(Byte), NEW b \in Byte, NEW o \in Seq(Byte),
           Decoded(s) = [out |-> o, esc |-> FALSE, err |-> FALSE]
    PROVE  Decoded(s \o escape(b)) = [out |-> Append(o, b), esc |-> FALSE, err |-> FALSE]
<1>0. {END, ESC, ESC_END, ESC_ESC} \subseteq Byte
  BY ByteFacts
<1>1. ASSUME NEW c \in Byte, NEW e \in {ESC_END, ESC_ESC}, escape(b) = <<ESC, e>>,
             c = IF e = ESC_END THEN END ELSE ESC
      PROVE  Decoded(s \o escape(b)) = [out |-> Append(o, c), esc |-> FALSE, err |-> FALSE]
  <2>1. s \o escape(b) = Append(Append(s, ESC), e) /\ Append(s, ESC) \in Seq(Byte) /\ e \in Byte
    BY <1>0, <1>1, Regroup
  <2>2. Decoded(Append(s, ESC)) = [out |-> o, esc |-> TRUE, err |-> FALSE]
    <3>1. Decoded(Append(s, ESC)) = Decode(Decoded(s), ESC)
      BY <1>0, DecodedFacts
    <3>2. QED BY <3>1 DEF Decode, END, ESC, ESC_END, ESC_ESC
  <2>3. Decoded(Append(Append(s, ESC), e)) = Decode(Decoded(Append(s, ESC)), e)
    BY <2>1, DecodedFacts
  <2>4. Decode([out |-> o, esc |-> TRUE, err |-> FALSE], e) = [out |-> Append(o, c), esc |-> FALSE, err |-> FALSE]
    <3>1. CASE e = ESC_END
      <4>1. c = END
        BY <1>1, <3>1
      <4>2. QED BY <3>1, <4>1 DEF Decode, END, ESC, ESC_END, ESC_ESC
    <3>2. CASE e = ESC_ESC
      <4>1. e # ESC_END
        BY <3>2 DEF ESC_END, ESC_ESC
      <4>2. QED BY <1>1, <3>2, <4>1 DEF Decode
    <3>3. QED BY <1>1, <3>1, <3>2
  <2>5. QED BY <2>1, <2>2, <2>3, <2>4
<1>2. CASE b = END
  BY <1>0, <1>1, <1>2, EscapeCases DEF END, ESC, ESC_END, ESC_ESC
<1>3. CASE b = ESC
  BY <1>0, <1>1, <1>3, EscapeCases DEF END, ESC, ESC_END, ESC_ESC
<1>4. CASE b \notin {END, ESC}
  <2>1. s \o escape(b) = Append(s, b)
    BY <1>4, EscapeCases, Regroup
  <2>2. Decoded(Append(s, b)) = Decode(Decoded(s), b)
    BY DecodedFacts
  <2>3. QED BY <1>4, <2>1, <2>2 DEF Decode
<1>5. QED BY <1>2, <1>3, <1>4

LEMMA DecodesPrefix ==
    ASSUME NEW in \in Seq(Byte)
    PROVE  Decoded(<<END>> \o Escaped(in)) = [out |-> in, esc |-> FALSE, err |-> FALSE]
<1> DEFINE T == {s \in Seq(Byte) : Decoded(<<END>> \o Escaped(s)) = [out |-> s, esc |-> FALSE, err |-> FALSE]}
<1>0. END \in Byte /\ <<END>> \in Seq(Byte) /\ <<>> \in Seq(Byte)
  BY ByteFacts
<1>1. <<>> \in T
  <2>1. <<END>> \o Escaped(<<>>) = Append(<<>>, END)
    <3>1. Escaped(<<>>) = <<>>
      BY EscapedFacts
    <3>2. <<END>> \o <<>> = Append(<<>>, END)
      OBVIOUS
    <3>3. QED BY <3>1, <3>2
  <2>2. Decoded(Append(<<>>, END)) = Decode(NothingYet, END)
    BY <1>0, DecodedFacts
  <2>3. Decode(NothingYet, END) = [out |-> <<>>, esc |-> FALSE, err |-> FALSE]
    BY DEF Decode, NothingYet, END, ESC
  <2>4. QED BY <1>0, <2>1, <2>2, <2>3
<1>2. ASSUME NEW s \in Seq(Byte), NEW b \in Byte, s \in T PROVE Append(s, b) \in T
  <2>1. Escaped(s) \in Seq(Byte) /\ escape(b) \in Seq(Byte)
    BY EscapedFacts, ByteFacts
  <2>2. <<END>> \o Escaped(Append(s, b)) = (<<END>> \o Escaped(s)) \o escape(b)
    <3>1. Escaped(Append(s, b)) = Escaped(s) \o escape(b)
      BY EscapedFacts
    <3>2. <<END>> \o (Escaped(s) \o escape(b)) = (<<END>> \o Escaped(s)) \o escape(b)
      <4> DEFINE first == <<END>>
                 then == Escaped(s)
                 last == escape(b)
      <4>1. first \in Seq(Byte) /\ then \in Seq(Byte) /\ last \in Seq(Byte)
        BY <1>0, <2>1
      <4> HIDE DEF first, then, last
      <4>2. Regrouped(first, then, last)
        BY <4>1, Chained
      <4>3. QED BY <4>2 DEF first, then, last, Regrouped
    <3>3. QED BY <3>1, <3>2
  <2> DEFINE e == <<END>> \o Escaped(s)
  <2>3. e \in Seq(Byte)
    BY <1>0, <2>1
  <2>4. Append(s, b) \in Seq(Byte)
    OBVIOUS
  <2>5. Decoded(e) = [out |-> s, esc |-> FALSE, err |-> FALSE]
    BY <1>2
  <2>6. Decoded(<<END>> \o Escaped(Append(s, b))) = Decoded(e \o escape(b))
    BY <2>2
  <2> HIDE DEF e
  <2>7. Decoded(e \o escape(b)) = [out |-> Append(s, b), esc |-> FALSE, err |-> FALSE]
    BY <2>3, <2>5, DecodesEscaped
  <2>8. QED BY <2>4, <2>6, <2>7
<1>3. \A s \in Seq(Byte) : s \in T
  <2> HIDE DEF T
  <2>1. \A s \in Seq(Byte), b \in Byte : s \in T => Append(s, b) \in T
    BY <1>2
  <2>2. QED BY <1>1, <2>1, OnSequences
<1>4. QED BY <1>3

(* What slip_decode() makes of the bytes of slip_encode() is the packet    *)
(* that was encoded, whatever bytes it has (slip.cpp).                     *)
THEOREM SlipRoundTrip ==
    ASSUME NEW in \in Seq(Byte)
    PROVE  slip_decode(slip_encode(in)) = {in}
<1>1. END \in Byte /\ <<END>> \in Seq(Byte) /\ Escaped(in) \in Seq(Byte)
  BY ByteFacts, EscapedFacts
<1>2. slip_encode(in) = Append(<<END>> \o Escaped(in), END) /\ <<END>> \o Escaped(in) \in Seq(Byte)
  BY <1>1, Regroup DEF slip_encode
<1>3. Decoded(slip_encode(in)) = Decode([out |-> in, esc |-> FALSE, err |-> FALSE], END)
  BY <1>1, <1>2, DecodesPrefix, DecodedFacts
<1>4. Decode([out |-> in, esc |-> FALSE, err |-> FALSE], END) = [out |-> in, esc |-> FALSE, err |-> FALSE]
  BY DEF Decode, END, ESC
<1>5. QED BY <1>3, <1>4 DEF slip_decode

(* The only END bytes of an encoded packet are its first and its last.     *)
WithoutEnd == Seq(Byte \ {END})

LEMMA EscapedWithoutEnd ==
    ASSUME NEW in \in Seq(Byte)
    PROVE  Escaped(in) \in WithoutEnd /\ (in # <<>> => Escaped(in) # <<>>)
<1> DEFINE T == {s \in Seq(Byte) : Escaped(s) \in WithoutEnd /\ (s # <<>> => Escaped(s) # <<>>)}
<1>1. <<>> \in T
  <2>1. Escaped(<<>>) = <<>>
    BY EscapedFacts
  <2>2. <<>> \in Seq(Byte) /\ <<>> \in WithoutEnd
    BY DEF WithoutEnd
  <2>3. QED BY <2>1, <2>2
<1>2. ASSUME NEW s \in Seq(Byte), NEW b \in Byte, s \in T PROVE Append(s, b) \in T
  <2>1. escape(b) \in WithoutEnd /\ escape(b) # <<>>
    <3>1. {ESC, ESC_END, ESC_ESC} \subseteq Byte \ {END}
      BY DEF Byte, END, ESC, ESC_END, ESC_ESC
    <3>2. b \notin {END, ESC} => b \in Byte \ {END}
      OBVIOUS
    <3> DEFINE S == Byte \ {END}
    <3>3. \A c, e \in S : <<c, e>> \in Seq(S) /\ <<c>> \in Seq(S) /\ <<c, e>> # <<>> /\ <<c>> # <<>>
      <4> HIDE DEF S
      <4>1. QED OBVIOUS
    <3>4. {ESC, ESC_END, ESC_ESC} \subseteq S /\ WithoutEnd = Seq(S)
      BY <3>1 DEF WithoutEnd
    <3>5. CASE b = END
      <4>1. escape(b) = <<ESC, ESC_END>>
        BY <3>5, EscapeCases DEF END, ESC
      <4> HIDE DEF S
      <4>2. QED BY <3>3, <3>4, <4>1
    <3>6. CASE b = ESC
      <4>1. escape(b) = <<ESC, ESC_ESC>>
        BY <3>6, EscapeCases DEF END, ESC
      <4> HIDE DEF S
      <4>2. QED BY <3>3, <3>4, <4>1
    <3>7. CASE b \notin {END, ESC}
      <4>1. b \in S /\ escape(b) = <<b>>
        BY <3>7, EscapeCases
      <4> HIDE DEF S
      <4>2. QED BY <3>3, <3>4, <4>1
    <3>8. QED BY <3>5, <3>6, <3>7
  <2>2. Escaped(Append(s, b)) = Escaped(s) \o escape(b)
    BY EscapedFacts
  <2>3. Escaped(s) \o escape(b) \in WithoutEnd /\ Escaped(s) \o escape(b) # <<>>
    BY <1>2, <2>1, ConcatEqualIffEmpty DEF WithoutEnd
  <2>4. Append(s, b) \in Seq(Byte)
    OBVIOUS
  <2>5. QED BY <2>2, <2>3, <2>4
<1>3. \A s \in Seq(Byte) : s \in T
  <2> HIDE DEF T
  <2>1. \A s \in Seq(Byte), b \in Byte : s \in T => Append(s, b) \in T
    BY <1>2
  <2>2. QED BY <1>1, <2>1, OnSequences
<1>4. QED BY <1>3

-----------------------------------------------------------------------------
(* h5.cpp.                                                                 *)

(* The CRC is an unsigned number of 16 bits.                               *)
Word == {n \in Nat : n < 65536}

CrcIsWord == \A bytes \in Seq(Byte) : Crc(bytes) \in Word

FirstField(seq, ack, crc, reliable) ==
    (seq % 8) + 8 * (ack % 8) + 64 * Bit(crc) + 128 * Bit(reliable)

LEMMA FirstFieldFacts ==
    ASSUME NEW seq \in 0..7, NEW ack \in 0..7, NEW crc \in BOOLEAN, NEW reliable \in BOOLEAN
    PROVE  LET f == FirstField(seq, ack, crc, reliable) IN
           /\ f \in Byte
           /\ f % 8 = seq /\ (f \div 8) % 8 = ack
           /\ (f \div 64) % 2 = 1 <=> crc
           /\ f \div 128 = 1 <=> reliable
<1> DEFINE f == FirstField(seq, ack, crc, reliable)
<1>1. PICK c \in {0, 1}, r \in {0, 1} : f = seq + 8 * ack + 64 * c + 128 * r /\ (c = 1 <=> crc) /\ (r = 1 <=> reliable)
  BY DEF FirstField, Bit
<1> HIDE DEF f
<1>2. f \in 0..255 /\ f % 8 = seq
  BY <1>1
<1>3. f \div 8 = ack + 8 * c + 16 * r
  BY <1>1
<1>4. (f \div 8) % 8 = ack
  BY <1>3
<1>5. f \div 64 = c + 2 * r
  BY <1>1
<1>6. (f \div 64) % 2 = c
  BY <1>5
<1>7. f \div 128 = r
  BY <1>1
<1>8. QED BY <1>1, <1>2, <1>4, <1>6, <1>7 DEF f, Byte

LengthFields(type, len) == <<(type % 16) + 16 * (len % 16), (len \div 16) % 256>>

HoldsLength(f, type, len) ==
    /\ f[1] \in Byte /\ f[2] \in Byte
    /\ f[1] % 16 = type /\ (f[1] \div 16) + 16 * f[2] = len

LEMMA LengthFacts ==
    ASSUME NEW type \in 0..15, NEW len \in Nat, len < 4096
    PROVE  HoldsLength(LengthFields(type, len), type, len)
<1> DEFINE low  == len % 16
           high == len \div 16
           f    == (type % 16) + 16 * low
<1>1. low \in 0..15 /\ high \in 0..255 /\ len = low + 16 * high
  OBVIOUS
<1> HIDE DEF low, high
<1>2. f \in 0..255 /\ f % 16 = type /\ f \div 16 = low
  BY <1>1
<1>3. high % 256 = high
  BY <1>1
<1>4. QED BY <1>1, <1>2, <1>3 DEF low, high, Byte, LengthFields, HoldsLength

LEMMA TwoBytes ==
    ASSUME NEW x \in Word
    PROVE  x % 256 \in Byte /\ x \div 256 \in Byte /\ (x % 256) + 256 * (x \div 256) = x
<1>1. x \in Nat /\ x < 65536
  BY DEF Word
<1>2. x % 256 \in 0..255
  BY <1>1
<1>3. x \div 256 \in 0..255
  BY <1>1
<1>4. (x % 256) + 256 * (x \div 256) = x
  BY <1>1
<1>5. QED BY <1>2, <1>3, <1>4 DEF Byte

LEMMA Checksum ==
    ASSUME NEW a \in Byte, NEW b \in Byte, NEW c \in Byte, NEW h, h = <<a, b, c>>
    PROVE  LET s == Append(h, calculate_header_checksum(h)) IN
           /\ s \in Seq(Byte) /\ Len(s) = 4 /\ s[1] = a /\ s[2] = b /\ s[3] = c
           /\ calculate_header_checksum(s) = s[4]
<1> DEFINE x == calculate_header_checksum(h)
           s == Append(h, x)
<1>1. x = (256 - ((a + b + c) % 256)) % 256
  BY DEF calculate_header_checksum
<1>2. x \in Byte
  BY <1>1 DEF Byte
<1> HIDE DEF x
<1>3. s \in Seq(Byte) /\ Len(s) = 4 /\ s[1] = a /\ s[2] = b /\ s[3] = c /\ s[4] = x
  BY <1>2
<1> HIDE DEF s
<1>4. calculate_header_checksum(s) = x
  BY <1>1, <1>3 DEF calculate_header_checksum
<1>5. QED BY <1>3, <1>4 DEF s, x

LEMMA Joins ==
    ASSUME NEW B, NEW s \in Seq(B), NEW t \in Seq(B)
    PROVE  /\ s \o t \in Seq(B) /\ Len(s \o t) = Len(s) + Len(t) /\ Len(s) \in Nat /\ Len(t) \in Nat
           /\ \A i \in 1..Len(s) : (s \o t)[i] = s[i]
           /\ \A i \in 1..Len(t) : (s \o t)[Len(s) + i] = t[i]
           /\ SubSeq(s \o t, 1, Len(s)) = s
           /\ SubSeq(s \o t, Len(s) + 1, Len(s \o t)) = t
<1> DEFINE w == s \o t
<1>1. w \in Seq(B) /\ Len(w) = Len(s) + Len(t) /\ Len(s) \in Nat /\ Len(t) \in Nat
  BY ConcatProperties
<1>2. \A i \in 1..Len(s) : w[i] = s[i] /\ w[i] \in B
  OBVIOUS
<1>3. \A i \in 1..Len(t) : w[Len(s) + i] = t[i] /\ t[i] \in B
  <2>1. ASSUME NEW i \in 1..Len(t) PROVE w[Len(s) + i] = t[i]
    <3>1. Len(s) + i \in 1..(Len(s) + Len(t)) /\ Len(s) + i > Len(s) /\ Len(s) + i - Len(s) = i
      BY <1>1
    <3>2. QED BY <3>1, ConcatProperties
  <2>2. QED BY <2>1
<1> HIDE DEF w
<1>4. SubSeq(w, 1, Len(s)) = s
  <2> DEFINE u == SubSeq(w, 1, Len(s))
  <2>1. u \in Seq(B) /\ Len(u) = Len(s) /\ \A i \in 1..Len(s) : u[i] = w[i]
    BY <1>1, <1>2
  <2> HIDE DEF u
  <2>2. u = s
    BY <1>2, <2>1, SeqEqual
  <2>3. QED BY <2>2 DEF u
<1>5. SubSeq(w, Len(s) + 1, Len(w)) = t
  <2> DEFINE u == SubSeq(w, Len(s) + 1, Len(w))
  <2>1. u \in Seq(B) /\ Len(u) = Len(t) /\ \A i \in 1..Len(t) : u[i] = w[Len(s) + i]
    BY <1>1
  <2> HIDE DEF u
  <2>2. u = t
    BY <1>3, <2>1, SeqEqual
  <2>3. QED BY <2>2 DEF u
<1>6. QED BY <1>1, <1>2, <1>3, <1>4, <1>5 DEF w

LEMMA Cut ==
    ASSUME NEW B, NEW h \in Seq(B), NEW q \in Seq(B), NEW t \in Seq(B)
    PROVE  LET s == (h \o q) \o t IN
           /\ s \in Seq(B) /\ Len(s) = Len(h) + Len(q) + Len(t)
           /\ \A i \in 1..Len(h) : s[i] = h[i]
           /\ SubSeq(s, Len(h) + 1, Len(h) + Len(q)) = q /\ SubSeq(s, 1, Len(h) + Len(q)) = h \o q
           /\ \A i \in 1..Len(t) : s[Len(h) + Len(q) + i] = t[i]
<1> DEFINE body == h \o q
           s == body \o t
<1>1. body \in Seq(B) /\ Len(body) = Len(h) + Len(q) /\ Len(q) \in Nat /\ Len(h) \in Nat
      /\ (\A i \in 1..Len(h) : body[i] = h[i]) /\ \A i \in 1..Len(q) : body[Len(h) + i] = q[i]
  BY Joins
<1> HIDE DEF body
<1>2. body \in Seq(B)
  BY <1>1
<1>3. s \in Seq(B) /\ Len(s) = Len(body) + Len(t) /\ Len(t) \in Nat
      /\ (\A i \in 1..Len(body) : s[i] = body[i]) /\ (\A i \in 1..Len(t) : s[Len(body) + i] = t[i])
      /\ SubSeq(s, 1, Len(body)) = body
  BY <1>2, Joins
<1> HIDE DEF s
<1>4. \A i \in 1..Len(h) : s[i] = h[i]
  BY <1>1, <1>3
<1>5. SubSeq(s, Len(h) + 1, Len(body)) = q
  <2> DEFINE u == SubSeq(s, Len(h) + 1, Len(body))
  <2>1. u \in Seq(B) /\ Len(u) = Len(q) /\ \A i \in 1..Len(q) : u[i] = s[Len(h) + i]
    BY <1>1, <1>3
  <2> HIDE DEF u
  <2>2. \A i \in 1..Len(q) : s[Len(h) + i] = q[i]
    BY <1>1, <1>3
  <2>3. u = q
    BY <2>1, <2>2, SeqEqual
  <2>4. QED BY <2>3 DEF u
<1>6. QED BY <1>1, <1>3, <1>4, <1>5 DEF s, body

LEMMA PacketFacts ==
    ASSUME NEW p \in Packet
    PROVE  /\ p.seq \in 0..7 /\ p.ack \in 0..7 /\ p.crc \in BOOLEAN /\ p.reliable \in BOOLEAN
           /\ p.type \in 0..15 /\ p.payload \in Seq(Byte)
           /\ Len(p.payload) \in Nat /\ Len(p.payload) < 4096
<1> DEFINE P == {bytes \in Seq(Byte) : Len(bytes) < 4096}
<1>1. p \in [seq : 0..7, ack : 0..7, crc : BOOLEAN, reliable : BOOLEAN, type : 0..15, payload : P]
  BY DEF Packet
<1>2. \A q \in P : q \in Seq(Byte) /\ Len(q) \in Nat /\ Len(q) < 4096
  OBVIOUS
<1> HIDE DEF P
<1>3. p.payload \in P /\ p.seq \in 0..7 /\ p.ack \in 0..7 /\ p.crc \in BOOLEAN
      /\ p.reliable \in BOOLEAN /\ p.type \in 0..15
  BY <1>1
<1>4. p.payload \in Seq(Byte) /\ Len(p.payload) \in Nat /\ Len(p.payload) < 4096
  BY <1>2, <1>3
<1>5. QED BY <1>3, <1>4

(* The header of a packet.                                                 *)
LEMMA HeaderFacts ==
    ASSUME NEW p \in Packet
    PROVE  LET h == add_h5_header(p) IN
           /\ h \in Seq(Byte) /\ Len(h) = 4 /\ calculate_header_checksum(h) = h[4]
           /\ h[1] % 8 = p.seq /\ (h[1] \div 8) % 8 = p.ack
           /\ (h[1] \div 64) % 2 = 1 <=> p.crc
           /\ h[1] \div 128 = 1 <=> p.reliable
           /\ h[2] % 16 = p.type /\ (h[2] \div 16) + 16 * h[3] = Len(p.payload)
<1> DEFINE a == FirstField(p.seq, p.ack, p.crc, p.reliable)
           f == LengthFields(p.type, Len(p.payload))
           fields == <<a, f[1], f[2]>>
           h == Append(fields, calculate_header_checksum(fields))
<1>1. add_h5_header(p) = h
  BY DEF add_h5_header, FirstField, LengthFields
<1>2. /\ p.seq \in 0..7 /\ p.ack \in 0..7 /\ p.crc \in BOOLEAN /\ p.reliable \in BOOLEAN
      /\ p.type \in 0..15 /\ Len(p.payload) \in Nat /\ Len(p.payload) < 4096
  BY PacketFacts
<1>3. /\ a \in Byte /\ a % 8 = p.seq /\ (a \div 8) % 8 = p.ack
      /\ (a \div 64) % 2 = 1 <=> p.crc
      /\ a \div 128 = 1 <=> p.reliable
  BY <1>2, FirstFieldFacts
<1>4. /\ f[1] \in Byte /\ f[2] \in Byte
      /\ f[1] % 16 = p.type /\ (f[1] \div 16) + 16 * f[2] = Len(p.payload)
  <2> DEFINE len == Len(p.payload)
             type == p.type
  <2>1. type \in 0..15 /\ len \in Nat /\ len < 4096
    BY <1>2
  <2>2. f = LengthFields(type, len)
    OBVIOUS
  <2> HIDE DEF len, type, f
  <2>3. HoldsLength(f, type, len)
    BY <2>1, <2>2, LengthFacts
  <2>4. QED BY <2>3 DEF len, type, HoldsLength
<1> HIDE DEF a, f
<1>5. /\ h \in Seq(Byte) /\ Len(h) = 4 /\ h[1] = a /\ h[2] = f[1] /\ h[3] = f[2]
      /\ calculate_header_checksum(h) = h[4]
  <2>1. fields \in Seq(Byte) /\ fields = <<a, f[1], f[2]>>
    BY <1>3, <1>4
  <2> HIDE DEF fields
  <2>2. QED BY <1>3, <1>4, <2>1, Checksum
<1> HIDE DEF h
<1>6. QED BY <1>1, <1>3, <1>4, <1>5

(* What h5_encode() makes of a packet.                                     *)
Trailer(p) == IF p.crc THEN LET body == add_h5_header(p) \o p.payload
                            IN  <<Crc(body) % 256, Crc(body) \div 256>>
                       ELSE <<>>

LEMMA TrailerFacts ==
    ASSUME CrcIsWord, NEW p \in Packet
    PROVE  LET body == add_h5_header(p) \o p.payload
               t    == Trailer(p) IN
           /\ body \in Seq(Byte) /\ t \in Seq(Byte)
           /\ Len(t) = IF p.crc THEN 2 ELSE 0
           /\ p.crc => t[1] + 256 * t[2] = Crc(body)
           /\ h5_encode(p) = body \o t
<1> DEFINE body == add_h5_header(p) \o p.payload
<1>1. body \in Seq(Byte)
  <2>1. add_h5_header(p) \in Seq(Byte) /\ p.payload \in Seq(Byte)
    BY HeaderFacts, PacketFacts
  <2>2. QED BY <2>1, Joins
<1>2. h5_encode(p) = IF p.crc THEN body \o <<Crc(body) % 256, Crc(body) \div 256>> ELSE body
  BY DEF h5_encode, add_crc16
<1>3. Trailer(p) = IF p.crc THEN <<Crc(body) % 256, Crc(body) \div 256>> ELSE <<>>
  BY DEF Trailer
<1> HIDE DEF body
<1>4. Crc(body) \in Word
  BY <1>1, CrcIsWord DEF CrcIsWord
<1> DEFINE crc == Crc(body)
           low == crc % 256
           high == crc \div 256
<1>5. low \in Byte /\ high \in Byte /\ low + 256 * high = crc
  <2>1. crc \in Word
    BY <1>4
  <2> HIDE DEF crc
  <2>2. QED BY <2>1, TwoBytes
<1>6. h5_encode(p) = (IF p.crc THEN body \o <<low, high>> ELSE body) /\ Trailer(p) = IF p.crc THEN <<low, high>> ELSE <<>>
  BY <1>2, <1>3
<1>7. crc = Crc(body)
  OBVIOUS
<1> HIDE DEF crc, low, high
<1>8. CASE p.crc
  <2>1. Trailer(p) = <<low, high>> /\ h5_encode(p) = body \o <<low, high>>
    BY <1>6, <1>8
  <2>2. QED BY <1>1, <1>5, <1>7, <1>8, <2>1 DEF body
<1>9. CASE ~p.crc
  <2>1. Trailer(p) = <<>> /\ h5_encode(p) = body
    BY <1>6, <1>9
  <2>2. body \o <<>> = body
    BY <1>1, ConcatEmptySeq
  <2>3. QED BY <1>1, <1>9, <2>1, <2>2 DEF body
<1>10. QED BY <1>8, <1>9

(* h5_decode() finds in what h5_encode() makes of a packet that packet.    *)
THEOREM H5RoundTrip ==
    ASSUME CrcIsWord, NEW p \in Packet
    PROVE  h5_decode(h5_encode(p)) = {p}
<1> DEFINE h    == add_h5_header(p)
           q    == p.payload
           t    == Trailer(p)
           body == h \o q
           s    == body \o t
           len  == Len(q)
<1>1. /\ h \in Seq(Byte) /\ Len(h) = 4 /\ calculate_header_checksum(h) = h[4]
      /\ h[1] % 8 = p.seq /\ (h[1] \div 8) % 8 = p.ack
      /\ (h[1] \div 64) % 2 = 1 <=> p.crc
      /\ h[1] \div 128 = 1 <=> p.reliable
      /\ h[2] % 16 = p.type /\ (h[2] \div 16) + 16 * h[3] = len
  BY HeaderFacts
<1>2. /\ q \in Seq(Byte) /\ len \in Nat /\ p.crc \in BOOLEAN /\ p.reliable \in BOOLEAN
  BY PacketFacts
<1>3. /\ t \in Seq(Byte) /\ Len(t) = (IF p.crc THEN 2 ELSE 0)
      /\ p.crc => t[1] + 256 * t[2] = Crc(body)
      /\ h5_encode(p) = s
  BY CrcIsWord, TrailerFacts
<1> HIDE DEF h, t
<1>4. /\ s \in Seq(Byte) /\ Len(s) = Len(h) + Len(q) + Len(t)
      /\ \A i \in 1..Len(h) : s[i] = h[i]
      /\ SubSeq(s, Len(h) + 1, Len(h) + Len(q)) = q /\ SubSeq(s, 1, Len(h) + Len(q)) = h \o q
      /\ \A i \in 1..Len(t) : s[Len(h) + Len(q) + i] = t[i]
  <2>1. h \in Seq(Byte) /\ q \in Seq(Byte) /\ t \in Seq(Byte)
    BY <1>1, <1>2, <1>3
  <2> HIDE DEF q
  <2>2. QED BY <2>1, Cut
<1> HIDE DEF s, body
<1>5. /\ Len(s) = len + 4 + (IF p.crc THEN 2 ELSE 0)
      /\ s[1] = h[1] /\ s[2] = h[2] /\ s[3] = h[3] /\ s[4] = h[4]
      /\ SubSeq(s, 5, len + 4) = q /\ SubSeq(s, 1, len + 4) = body
      /\ p.crc => s[len + 5] + 256 * s[len + 6] = Crc(body)
  <2>1. Len(h) = 4 /\ Len(q) = len /\ len \in Nat /\ 1 \in 1..4 /\ 2 \in 1..4 /\ 3 \in 1..4 /\ 4 \in 1..4
    BY <1>1, <1>2
  <2>2. s[1] = h[1] /\ s[2] = h[2] /\ s[3] = h[3] /\ s[4] = h[4]
    BY <1>4, <2>1
  <2>3. SubSeq(s, 5, len + 4) = q /\ SubSeq(s, 1, len + 4) = body
    <3>1. Len(h) + 1 = 5 /\ Len(h) + Len(q) = len + 4
      BY <2>1
    <3>2. QED BY <1>4, <3>1 DEF body
  <2>4. Len(s) = len + 4 + (IF p.crc THEN 2 ELSE 0)
    <3> DEFINE extra == IF p.crc THEN 2 ELSE 0
    <3>1. extra \in {0, 2} /\ Len(t) = extra
      BY <1>3
    <3> HIDE DEF extra
    <3>2. Len(s) = Len(h) + Len(q) + Len(t) /\ Len(h) = 4 /\ Len(q) = len /\ len \in Nat
      BY <1>4, <2>1
    <3> HIDE DEF len
    <3>3. Len(s) = len + 4 + extra
      BY <3>1, <3>2
    <3>4. QED BY <3>3 DEF extra
  <2>5. ASSUME p.crc PROVE s[len + 5] + 256 * s[len + 6] = Crc(body)
    <3>1. Len(t) = 2 /\ t[1] + 256 * t[2] = Crc(body) /\ 1 \in 1..2 /\ 2 \in 1..2
      BY <1>3, <2>5
    <3>2. s[Len(h) + Len(q) + 1] = t[1] /\ s[Len(h) + Len(q) + 2] = t[2]
      BY <1>4, <3>1
    <3>3. Len(h) + Len(q) + 1 = len + 5 /\ Len(h) + Len(q) + 2 = len + 6
      BY <2>1
    <3>4. QED BY <3>1, <3>2, <3>3
  <2>6. QED BY <2>2, <2>3, <2>4, <2>5
<1>6. calculate_header_checksum(s) = s[4]
  BY <1>1, <1>5 DEF calculate_header_checksum
<1> DEFINE crc == (s[1] \div 64) % 2 = 1
           length == (s[2] \div 16) + 16 * s[3]
           found == [seq |-> s[1] % 8, ack |-> (s[1] \div 8) % 8, crc |-> crc,
                     reliable |-> s[1] \div 128 = 1, type |-> s[2] % 16,
                     payload |-> SubSeq(s, 5, length + 4)]
<1>7. crc = p.crc /\ length = len
  BY <1>1, <1>2, <1>5
<1>8. LengthRight(s, length, crc) /\ HeaderRight(s) /\ (crc => CrcRight(s, length)) /\ ~(Len(s) < 4)
  <2>1. LengthRight(s, length, crc)
    BY <1>5, <1>7 DEF LengthRight
  <2>2. HeaderRight(s)
    BY <1>6 DEF HeaderRight
  <2>3. crc => CrcRight(s, length)
    BY <1>5, <1>7 DEF CrcRight
  <2>4. ~(Len(s) < 4)
    <3>1. Len(s) = len + 4 + 2 \/ Len(s) = len + 4 + 0
      BY <1>5
    <3>2. len \in Nat
      BY <1>2
    <3> HIDE DEF len
    <3>3. QED BY <3>1, <3>2
  <2>5. QED BY <2>1, <2>2, <2>3, <2>4
<1>9. h5_decode(s) = {found}
  BY <1>8 DEF h5_decode
<1>10. found = p
  <2>1. /\ s[1] % 8 = p.seq /\ (s[1] \div 8) % 8 = p.ack /\ crc = p.crc
        /\ (s[1] \div 128 = 1) = p.reliable /\ s[2] % 16 = p.type /\ SubSeq(s, 5, length + 4) = p.payload
    BY <1>1, <1>2, <1>5, <1>7
  <2> DEFINE again == [seq |-> p.seq, ack |-> p.ack, crc |-> p.crc, reliable |-> p.reliable,
                       type |-> p.type, payload |-> p.payload]
  <2>2. found = again
    BY <2>1
  <2>3. again = p
    <3> DEFINE P == {bytes \in Seq(Byte) : Len(bytes) < 4096}
    <3> HIDE DEF P
    <3>1. p \in [seq : 0..7, ack : 0..7, crc : BOOLEAN, reliable : BOOLEAN, type : 0..15, payload : P]
      BY DEF Packet, P
    <3>2. QED BY <3>1
  <2>4. QED BY <2>2, <2>3
<1>11. QED BY <1>3, <1>9, <1>10

-----------------------------------------------------------------------------
(* processPacket().                                                        *)

LEMMA ByteFields ==
    ASSUME NEW x \in Byte
    PROVE  x % 8 \in 0..7 /\ (x \div 8) % 8 \in 0..7 /\ x % 16 \in 0..15 /\ x \div 16 \in 0..15
BY DEF Byte

LEMMA H5DecodeType ==
    ASSUME NEW s \in Seq(Byte)
    PROVE  h5_decode(s) \subseteq Packet
<1> DEFINE crc == (s[1] \div 64) % 2 = 1
           length == (s[2] \div 16) + 16 * s[3]
           found == [seq |-> s[1] % 8, ack |-> (s[1] \div 8) % 8, crc |-> crc,
                     reliable |-> s[1] \div 128 = 1, type |-> s[2] % 16,
                     payload |-> SubSeq(s, 5, length + 4)]
           right == LengthRight(s, length, crc) /\ HeaderRight(s) /\ (crc => CrcRight(s, length))
<1>1. h5_decode(s) = IF Len(s) < 4 THEN {} ELSE IF right THEN {found} ELSE {}
  BY Zenon DEF h5_decode
<1>2. ASSUME ~(Len(s) < 4), right PROVE found \in Packet
  <2>1. s[1] \in Byte /\ s[2] \in Byte /\ s[3] \in Byte
    BY <1>2
  <2>2. length \in Nat /\ length < 4096
    <3> DEFINE low == s[2] \div 16
               high == s[3]
    <3>1. low \in 0..15 /\ high \in 0..255
      BY <2>1, ByteFields DEF Byte
    <3> HIDE DEF low, high
    <3>2. low + 16 * high \in Nat /\ low + 16 * high < 4096
      BY <3>1
    <3>3. QED BY <3>2 DEF low, high
  <2>3. Len(s) = length + 4 \/ Len(s) = length + 6
    BY <1>2, <2>2 DEF LengthRight
  <2> DEFINE payload == SubSeq(s, 5, length + 4)
  <2>4. payload \in Seq(Byte) /\ Len(payload) < 4096
    <3> HIDE DEF length
    <3>1. \A i \in 5..(length + 4) : s[i] \in Byte
      BY <2>2, <2>3
    <3>2. payload \in Seq(Byte) /\ Len(payload) = IF 5 <= length + 4 THEN length + 4 - 5 + 1 ELSE 0
      BY <2>2, <3>1, SubSeqProperties
    <3>3. QED BY <2>2, <3>2
  <2>5. payload \in {bytes \in Seq(Byte) : Len(bytes) < 4096}
    BY <2>4
  <2>6. /\ s[1] % 8 \in 0..7 /\ (s[1] \div 8) % 8 \in 0..7 /\ s[2] % 16 \in 0..15
        /\ crc \in BOOLEAN /\ (s[1] \div 128 = 1) \in BOOLEAN
    BY <2>1, ByteFields
  <2> HIDE DEF crc, payload
  <2>7. QED BY <2>5, <2>6 DEF Packet, payload
<1> HIDE DEF crc, length, found, right
<1>3. QED BY <1>1, <1>2

LEMMA SlipDecodeType ==
    ASSUME NEW s \in Seq(Byte)
    PROVE  slip_decode(s) \subseteq Seq(Byte)
BY DecodedFacts DEF slip_decode, Decoding

LEMMA ProcessPacketType ==
    ASSUME NEW packet \in Seq(Byte), NEW a \in Seq(Packet)
    PROVE  processPacket(packet, a) \in Seq(Packet)
<1> DEFINE decoded == UNION {h5_decode(s) : s \in slip_decode(packet)}
<1>1. decoded \subseteq Packet
  BY SlipDecodeType, H5DecodeType
<1>2. processPacket(packet, a) = IF decoded = {} THEN a ELSE Append(a, CHOOSE p \in decoded : TRUE)
  BY DEF processPacket
<1> HIDE DEF decoded
<1>3. decoded # {} => (CHOOSE p \in decoded : TRUE) \in Packet
  BY <1>1
<1>4. QED BY <1>2, <1>3

LEMMA EncodeType ==
    ASSUME CrcIsWord, NEW p \in Packet
    PROVE  h5_encode(p) \in Seq(Byte)
<1> DEFINE body == add_h5_header(p) \o p.payload
           t == Trailer(p)
<1>1. body \in Seq(Byte) /\ t \in Seq(Byte) /\ h5_encode(p) = body \o t
  BY TrailerFacts, CrcIsWord
<1> HIDE DEF body, t
<1>2. QED BY <1>1

(* A packet that comes as it was sent is accepted.                         *)
LEMMA AcceptsWhatWasSent ==
    ASSUME CrcIsWord, NEW p \in Packet, NEW a \in Seq(Packet)
    PROVE  processPacket(slip_encode(h5_encode(p)), a) = Append(a, p)
<1> DEFINE s == h5_encode(p)
           packet == slip_encode(s)
<1>1. s \in Seq(Byte) /\ h5_decode(s) = {p}
  BY CrcIsWord, EncodeType, H5RoundTrip
<1> HIDE DEF s
<1>2. slip_decode(packet) = {s}
  BY <1>1, SlipRoundTrip
<1> HIDE DEF packet
<1>3. UNION {h5_decode(x) : x \in slip_decode(packet)} = {p}
  BY <1>1, <1>2
<1>4. processPacket(packet, a) = Append(a, CHOOSE x \in {p} : TRUE)
  BY <1>3 DEF processPacket
<1>5. (CHOOSE x \in {p} : TRUE) = p
  OBVIOUS
<1>6. QED BY <1>4, <1>5 DEF packet, s

-----------------------------------------------------------------------------
(* dataHandler().                                                          *)

Handling == [packet : Seq(Byte), unprocessedData : Seq(Byte), c0Found : BOOLEAN, accepted : Seq(Packet)]

AtStart(u, f, a) == [packet |-> Begin(u), unprocessedData |-> u, c0Found |-> f, accepted |-> a]

LEMMA HandlingType ==
    /\ \A u \in Seq(Byte), f \in BOOLEAN, a \in Seq(Packet) : AtStart(u, f, a) \in Handling
    /\ \A d \in Handling, b \in Byte : NextByte(d, b) \in Handling
<1>1. ASSUME NEW u \in Seq(Byte), NEW f \in BOOLEAN, NEW a \in Seq(Packet) PROVE AtStart(u, f, a) \in Handling
  BY DEF AtStart, Begin, Handling
<1>2. ASSUME NEW d \in Handling, NEW b \in Byte PROVE NextByte(d, b) \in Handling
  <2> DEFINE packet == Append(d.packet, b)
             done == processPacket(packet, d.accepted)
  <2>1. packet \in Seq(Byte) /\ d.accepted \in Seq(Packet) /\ d.c0Found \in BOOLEAN /\ <<>> \in Seq(Byte)
    BY DEF Handling
  <2> HIDE DEF packet
  <2>2. done \in Seq(Packet)
    BY <2>1, ProcessPacketType
  <2> HIDE DEF done
  <2>3. <<END>> \in Seq(Byte)
    BY ByteFacts
  <2>4. [d EXCEPT !.packet = packet] \in Handling /\ [d EXCEPT !.packet = <<END>>] \in Handling
    BY <2>1, <2>3 DEF Handling
  <2>5. [d EXCEPT !.packet = <<END>>, !.c0Found = TRUE] \in Handling
    BY <2>3 DEF Handling
  <2>6. [packet |-> <<>>, unprocessedData |-> <<>>, c0Found |-> FALSE, accepted |-> done] \in Handling
    BY <2>1, <2>2 DEF Handling
  <2>7. NextByte(d, b) \in {[d EXCEPT !.packet = packet], [d EXCEPT !.packet = <<END>>],
                            [d EXCEPT !.packet = <<END>>, !.c0Found = TRUE],
                            [packet |-> <<>>, unprocessedData |-> <<>>, c0Found |-> FALSE, accepted |-> done]}
    BY <2>1 DEF NextByte, packet, done
  <2>8. QED BY <2>4, <2>5, <2>6, <2>7
<1>3. QED BY <1>1, <1>2

LEMMA LoopedFacts ==
    ASSUME NEW unprocessed \in Seq(Byte), NEW found \in BOOLEAN, NEW so_far \in Seq(Packet)
    PROVE  /\ \A s \in Seq(Byte) : Looped(unprocessed, found, so_far, s) \in Handling
           /\ Looped(unprocessed, found, so_far, <<>>) = AtStart(unprocessed, found, so_far)
           /\ \A s \in Seq(Byte), b \in Byte : Looped(unprocessed, found, so_far, Append(s, b)) = NextByte(Looped(unprocessed, found, so_far, s), b)
<1> DEFINE step == [x \in Handling \X Byte |-> NextByte(x[1], x[2])]
           start == AtStart(unprocessed, found, so_far)
<1>1. IsStep(step, Handling, Byte) /\ start \in Handling
  BY HandlingType DEF IsStep
<1>2. \A x \in Handling, b \in Byte : step[<<x, b>>] = NextByte(x, b)
  OBVIOUS
<1> HIDE DEF step, start
<1>3. ASSUME NEW s \in Seq(Byte)
      PROVE  Looped(unprocessed, found, so_far, s) = Fold(s, Handling, start, step)
  <2> DEFINE Is(f) == f = [n \in 0..Len(s) |-> IF n = 0 THEN AtStart(unprocessed, found, so_far) ELSE NextByte(f[n - 1], s[n])]
             f == CHOOSE g : Is(g)
  <2>1. PICK g : LoopOver(s, Handling, start, step, g)
    BY <1>1, LoopExists DEF IsStep
  <2>2. Is(g)
    <3>1. g = [n \in 0..Len(s) |-> g[n]]
      BY <2>1 DEF LoopOver
    <3>2. ASSUME NEW n \in 0..Len(s) PROVE g[n] = IF n = 0 THEN AtStart(unprocessed, found, so_far) ELSE NextByte(g[n - 1], s[n])
      <4>1. CASE n = 0
        BY <2>1, <4>1 DEF LoopOver, start
      <4>2. CASE n # 0
        <5>1. n \in 1..Len(s) /\ n - 1 \in 0..Len(s) /\ s[n] \in Byte
          BY <4>2
        <5>2. g[n] = step[<<g[n - 1], s[n]>>] /\ g[n - 1] \in Handling
          BY <2>1, <5>1 DEF LoopOver
        <5>3. QED BY <1>2, <4>2, <5>1, <5>2
      <4>3. QED BY <4>1, <4>2
    <3>3. QED BY <3>1, <3>2
  <2>3. Is(f)
    <3> HIDE DEF Is
    <3>1. QED BY <2>2
  <2>4. Looped(unprocessed, found, so_far, s) = f[Len(s)]
    BY DEF Looped, AtStart
  <2> HIDE DEF f
  <2>5. /\ f = [n \in 0..Len(s) |-> f[n]]
        /\ f[0] = start
        /\ \A n \in 1..Len(s) : f[n - 1] \in Handling => f[n] = step[<<f[n - 1], s[n]>>]
    <3>1. ASSUME NEW n \in 1..Len(s), f[n - 1] \in Handling PROVE f[n] = step[<<f[n - 1], s[n]>>]
      <4>1. s[n] \in Byte /\ n \in 0..Len(s) /\ n # 0
        OBVIOUS
      <4>2. f[n] = NextByte(f[n - 1], s[n])
        BY <2>3, <4>1
      <4>3. QED BY <1>2, <3>1, <4>1, <4>2
    <3>2. 0 \in 0..Len(s)
      OBVIOUS
    <3>3. QED BY <2>3, <3>1, <3>2 DEF start
  <2> HIDE DEF Is
  <2>6. LoopOver(s, Handling, start, step, f)
    BY <1>1, <2>5, LoopIs
  <2>7. f[Len(s)] = Fold(s, Handling, start, step)
    BY <1>1, <2>6, FoldIs
  <2>8. QED BY <2>4, <2>7
<1>4. ASSUME NEW s \in Seq(Byte) PROVE Looped(unprocessed, found, so_far, s) \in Handling
  BY <1>1, <1>3, FoldType
<1>5. Looped(unprocessed, found, so_far, <<>>) = AtStart(unprocessed, found, so_far)
  <2> DEFINE nothing == <<>>
  <2>1. nothing \in Seq(Byte)
    OBVIOUS
  <2>2. Fold(nothing, Handling, start, step) = start
    BY <1>1, FoldEmpty
  <2>3. Looped(unprocessed, found, so_far, nothing) = start
    <3> HIDE DEF nothing
    <3>1. QED BY <1>3, <2>1, <2>2
  <2>4. QED BY <2>3 DEF start
<1>6. ASSUME NEW s \in Seq(Byte), NEW b \in Byte PROVE Looped(unprocessed, found, so_far, Append(s, b)) = NextByte(Looped(unprocessed, found, so_far, s), b)
  <2> DEFINE more == Append(s, b)
  <2>1. more \in Seq(Byte) /\ OneMore(more, s, b)
    BY DEF OneMore
  <2> HIDE DEF more
  <2>2. Fold(more, Handling, start, step) = Turn(step, Fold(s, Handling, start, step), b)
    BY <1>1, <2>1, FoldAppend
  <2>3. QED BY <1>2, <1>3, <1>4, <2>1, <2>2 DEF more, Turn
<1>7. QED BY <1>4, <1>5, <1>6

(* Without bytes of a packet in the loop none are kept from before, so the *)
(* packet of the loop is what a call keeps for the next.                   *)
Kept(d) == d.packet = <<>> => d.unprocessedData = <<>>

LEMMA LoopedKeeps ==
    ASSUME NEW unprocessed \in Seq(Byte), NEW found \in BOOLEAN, NEW so_far \in Seq(Packet)
    PROVE  \A s \in Seq(Byte) : Kept(Looped(unprocessed, found, so_far, s))
<1> DEFINE d(s) == Looped(unprocessed, found, so_far, s)
           T == {s \in Seq(Byte) : Kept(d(s))}
<1>1. <<>> \in T
  <2>1. d(<<>>) = AtStart(unprocessed, found, so_far)
    BY LoopedFacts
  <2>2. Kept(AtStart(unprocessed, found, so_far))
    BY DEF Kept, AtStart, Begin
  <2> HIDE DEF d
  <2>3. Kept(d(<<>>)) /\ <<>> \in Seq(Byte)
    BY <2>1, <2>2
  <2>4. QED BY <2>3
<1>2. ASSUME NEW s \in Seq(Byte), NEW b \in Byte, s \in T PROVE Append(s, b) \in T
  <2>1. d(Append(s, b)) = NextByte(d(s), b) /\ d(s) \in Handling
    BY LoopedFacts
  <2> HIDE DEF d
  <2>2. Kept(NextByte(d(s), b))
    <3> DEFINE x == d(s)
    <3>1. x \in Handling
      BY <2>1
    <3> HIDE DEF x
    <3>2. Append(x.packet, b) # <<>> /\ <<END>> # <<>> /\ x.c0Found \in BOOLEAN
      <4>1. x.packet \in Seq(Byte) /\ x.c0Found \in BOOLEAN
        BY <3>1 DEF Handling
      <4>2. Append(x.packet, b) # <<>>
        <5> DEFINE packet == x.packet
        <5>1. packet \in Seq(Byte)
          BY <4>1
        <5> HIDE DEF packet
        <5>2. Append(packet, b) # <<>>
          BY <5>1, AppendProperties
        <5>3. QED BY <5>2 DEF packet
      <4>3. <<END>> # <<>>
        OBVIOUS
      <4>4. QED BY <4>1, <4>2, <4>3
    <3>3. Kept(NextByte(x, b))
      BY <3>1, <3>2 DEF Kept, NextByte, Handling
    <3>4. QED BY <3>3 DEF x
  <2>3. Append(s, b) \in Seq(Byte)
    OBVIOUS
  <2>4. QED BY <2>1, <2>2, <2>3
<1>3. \A s \in Seq(Byte), b \in Byte : s \in T => Append(s, b) \in T
  BY <1>2
<1> HIDE DEF d
<1>4. \A s \in Seq(Byte) : s \in T
  <2> HIDE DEF T
  <2>1. QED BY <1>1, <1>3, OnSequences
<1>5. QED BY <1>4 DEF d

(* What a call of dataHandler() makes of one byte, in its three variables. *)
Held == Seq(Byte) \X BOOLEAN \X Seq(Packet)

ByteHandled(h, b) ==
    LET packet == Append(h[1], b)
    IN  IF b # END THEN <<packet, h[2], h[3]>>
        ELSE IF ~h[2] \/ NotAnEnd(packet) THEN <<<<END>>, TRUE, h[3]>>
        ELSE <<<<>>, FALSE, processPacket(packet, h[3])>>

LEMMA HandledFacts ==
    ASSUME NEW unprocessed \in Seq(Byte), NEW found \in BOOLEAN, NEW so_far \in Seq(Packet)
    PROVE  /\ \A s \in Seq(Byte) : Handled(unprocessed, found, so_far, s) \in Held
           /\ Handled(unprocessed, found, so_far, <<>>) = <<unprocessed, found, so_far>>
           /\ \A s \in Seq(Byte), b \in Byte :
                 Handled(unprocessed, found, so_far, Append(s, b)) =
                   ByteHandled(Handled(unprocessed, found, so_far, s), b)
<1> DEFINE d(s) == Looped(unprocessed, found, so_far, s)
<1>1. ASSUME NEW s \in Seq(Byte)
      PROVE  /\ Handled(unprocessed, found, so_far, s) = <<d(s).packet, d(s).c0Found, d(s).accepted>>
             /\ d(s) \in Handling
  <2>1. d(s) \in Handling /\ Kept(d(s))
    BY LoopedFacts, LoopedKeeps
  <2>2. Handled(unprocessed, found, so_far, s) =
          <<IF d(s).packet # <<>> THEN d(s).packet ELSE d(s).unprocessedData, d(s).c0Found, d(s).accepted>>
    BY DEF Handled
  <2> HIDE DEF d
  <2>3. QED BY <2>1, <2>2 DEF Kept
<1>2. Handled(unprocessed, found, so_far, <<>>) = <<unprocessed, found, so_far>>
  <2>1. d(<<>>) = AtStart(unprocessed, found, so_far) /\ <<>> \in Seq(Byte)
    BY LoopedFacts
  <2> HIDE DEF d
  <2>2. Handled(unprocessed, found, so_far, <<>>) = <<d(<<>>).packet, d(<<>>).c0Found, d(<<>>).accepted>>
    BY <1>1, <2>1
  <2>3. QED BY <2>1, <2>2 DEF AtStart, Begin
<1>3. ASSUME NEW s \in Seq(Byte), NEW b \in Byte
      PROVE  Handled(unprocessed, found, so_far, Append(s, b)) =
               ByteHandled(Handled(unprocessed, found, so_far, s), b)
  <2> DEFINE x == d(s)
             y == d(Append(s, b))
             h == Handled(unprocessed, found, so_far, s)
  <2>1. y = NextByte(x, b)
    BY LoopedFacts
  <2> HIDE DEF d
  <2>2. Append(s, b) \in Seq(Byte)
    OBVIOUS
  <2>3. /\ h = <<x.packet, x.c0Found, x.accepted>> /\ x \in Handling
        /\ Handled(unprocessed, found, so_far, Append(s, b)) = <<y.packet, y.c0Found, y.accepted>>
    BY <1>1, <2>2
  <2> HIDE DEF x, y, h
  <2>4. x.c0Found \in BOOLEAN
    BY <2>3 DEF Handling
  <2>5. CASE b # END
    <3>1. y = [x EXCEPT !.packet = Append(x.packet, b)]
      BY <2>1, <2>5 DEF NextByte
    <3>2. y.packet = Append(x.packet, b) /\ y.c0Found = x.c0Found /\ y.accepted = x.accepted
      BY <2>3, <3>1 DEF Handling
    <3>3. QED BY <2>3, <2>5, <3>2 DEF ByteHandled, h
  <2>6. CASE b = END /\ (~x.c0Found \/ NotAnEnd(Append(x.packet, b)))
    <3>1. y \in {[x EXCEPT !.packet = <<END>>, !.c0Found = TRUE], [x EXCEPT !.packet = <<END>>]} /\
          (x.c0Found => y = [x EXCEPT !.packet = <<END>>]) /\
          (~x.c0Found => y = [x EXCEPT !.packet = <<END>>, !.c0Found = TRUE])
      BY <2>1, <2>4, <2>6 DEF NextByte
    <3>2. y.packet = <<END>> /\ y.c0Found = TRUE /\ y.accepted = x.accepted
      BY <2>3, <2>4, <3>1 DEF Handling
    <3>3. ByteHandled(h, b) = <<<<END>>, TRUE, x.accepted>>
      BY <2>3, <2>6 DEF ByteHandled
    <3>4. QED BY <2>3, <3>2, <3>3 DEF h
  <2>7. CASE b = END /\ ~(~x.c0Found \/ NotAnEnd(Append(x.packet, b)))
    <3>1. y = [packet |-> <<>>, unprocessedData |-> <<>>, c0Found |-> FALSE,
               accepted |-> processPacket(Append(x.packet, b), x.accepted)]
      BY <2>1, <2>7 DEF NextByte
    <3>2. ByteHandled(h, b) = <<<<>>, FALSE, processPacket(Append(x.packet, b), x.accepted)>>
      BY <2>3, <2>7 DEF ByteHandled
    <3>3. QED BY <2>3, <3>1, <3>2 DEF h
  <2>8. QED BY <2>5, <2>6, <2>7
<1>4. ASSUME NEW s \in Seq(Byte) PROVE Handled(unprocessed, found, so_far, s) \in Held
  <2> HIDE DEF d
  <2>1. QED BY <1>1 DEF Handling, Held
<1>5. QED BY <1>2, <1>3, <1>4

LEMMA OneByteFacts ==
    ASSUME NEW unprocessed \in Seq(Byte), NEW found \in BOOLEAN, NEW so_far \in Seq(Packet)
    PROVE  /\ <<unprocessed, found, so_far>> \in Held
           /\ \A h \in Held, b \in Byte : OneByte(h, b) \in Held /\ OneByte(h, b) = ByteHandled(h, b)
<1>1. <<unprocessed, found, so_far>> \in Held
  BY DEF Held
<1>2. ASSUME NEW h \in Held, NEW b \in Byte
      PROVE  OneByte(h, b) \in Held /\ OneByte(h, b) = ByteHandled(h, b)
  <2> DEFINE nothing == <<>>
             one == Append(nothing, b)
  <2>1. h[1] \in Seq(Byte) /\ h[2] \in BOOLEAN /\ h[3] \in Seq(Packet) /\ h = <<h[1], h[2], h[3]>>
    BY DEF Held
  <2> DEFINE x == h[1]
             y == h[2]
             z == h[3]
  <2>2. x \in Seq(Byte) /\ y \in BOOLEAN /\ z \in Seq(Packet) /\ h = <<x, y, z>>
    BY <2>1
  <2>3. OneByte(h, b) = Handled(x, y, z, <<b>>)
    BY DEF OneByte
  <2> HIDE DEF x, y, z
  <2>4. nothing \in Seq(Byte) /\ one \in Seq(Byte) /\ one = <<b>>
    OBVIOUS
  <2>5. nothing \in Seq(Byte)
    OBVIOUS
  <2>6. Handled(x, y, z, nothing) = <<x, y, z>>
    BY <2>2, HandledFacts
  <2> HIDE DEF nothing
  <2>7. Handled(x, y, z, one) = ByteHandled(Handled(x, y, z, nothing), b)
    BY <2>2, <2>5, HandledFacts
  <2> HIDE DEF one
  <2>8. Handled(x, y, z, one) \in Held
    BY <2>2, <2>4, HandledFacts
  <2>9. QED BY <2>2, <2>3, <2>4, <2>6, <2>7, <2>8
<1>3. QED BY <1>1, <1>2

LEMMA OneByOneFacts ==
    ASSUME NEW unprocessed \in Seq(Byte), NEW found \in BOOLEAN, NEW so_far \in Seq(Packet)
    PROVE  /\ \A s \in Seq(Byte) : OneByOne(unprocessed, found, so_far, s) \in Held
           /\ OneByOne(unprocessed, found, so_far, <<>>) = <<unprocessed, found, so_far>>
           /\ \A s \in Seq(Byte), b \in Byte : OneByOne(unprocessed, found, so_far, Append(s, b)) = OneByte(OneByOne(unprocessed, found, so_far, s), b)
<1> DEFINE step == [x \in Held \X Byte |-> OneByte(x[1], x[2])]
           start == <<unprocessed, found, so_far>>
<1>1. IsStep(step, Held, Byte) /\ start \in Held
  BY OneByteFacts DEF IsStep
<1>2. \A x \in Held, b \in Byte : step[<<x, b>>] = OneByte(x, b)
  OBVIOUS
<1> HIDE DEF step, start
<1>3. ASSUME NEW s \in Seq(Byte)
      PROVE  OneByOne(unprocessed, found, so_far, s) = Fold(s, Held, start, step)
  <2> DEFINE Is(f) == f = [n \in 0..Len(s) |-> IF n = 0 THEN <<unprocessed, found, so_far>> ELSE OneByte(f[n - 1], s[n])]
             f == CHOOSE g : Is(g)
  <2>1. PICK g : LoopOver(s, Held, start, step, g)
    BY <1>1, LoopExists DEF IsStep
  <2>2. Is(g)
    <3>1. g = [n \in 0..Len(s) |-> g[n]]
      BY <2>1 DEF LoopOver
    <3>2. ASSUME NEW n \in 0..Len(s) PROVE g[n] = IF n = 0 THEN <<unprocessed, found, so_far>> ELSE OneByte(g[n - 1], s[n])
      <4>1. CASE n = 0
        BY <2>1, <4>1 DEF LoopOver, start
      <4>2. CASE n # 0
        <5>1. n \in 1..Len(s) /\ n - 1 \in 0..Len(s) /\ s[n] \in Byte
          BY <4>2
        <5>2. g[n] = step[<<g[n - 1], s[n]>>] /\ g[n - 1] \in Held
          BY <2>1, <5>1 DEF LoopOver
        <5>3. QED BY <1>2, <4>2, <5>1, <5>2
      <4>3. QED BY <4>1, <4>2
    <3>3. QED BY <3>1, <3>2
  <2>3. Is(f)
    <3> HIDE DEF Is
    <3>1. QED BY <2>2
  <2>4. OneByOne(unprocessed, found, so_far, s) = f[Len(s)]
    BY DEF OneByOne
  <2> HIDE DEF f
  <2>5. /\ f = [n \in 0..Len(s) |-> f[n]]
        /\ f[0] = start
        /\ \A n \in 1..Len(s) : f[n - 1] \in Held => f[n] = step[<<f[n - 1], s[n]>>]
    <3>1. ASSUME NEW n \in 1..Len(s), f[n - 1] \in Held PROVE f[n] = step[<<f[n - 1], s[n]>>]
      <4>1. s[n] \in Byte /\ n \in 0..Len(s) /\ n # 0
        OBVIOUS
      <4>2. f[n] = OneByte(f[n - 1], s[n])
        BY <2>3, <4>1
      <4>3. QED BY <1>2, <3>1, <4>1, <4>2
    <3>2. 0 \in 0..Len(s)
      OBVIOUS
    <3>3. QED BY <2>3, <3>1, <3>2 DEF start
  <2> HIDE DEF Is
  <2>6. LoopOver(s, Held, start, step, f)
    BY <1>1, <2>5, LoopIs
  <2>7. f[Len(s)] = Fold(s, Held, start, step)
    BY <1>1, <2>6, FoldIs
  <2>8. QED BY <2>4, <2>7
<1>4. ASSUME NEW s \in Seq(Byte) PROVE OneByOne(unprocessed, found, so_far, s) \in Held
  BY <1>1, <1>3, FoldType
<1>5. OneByOne(unprocessed, found, so_far, <<>>) = <<unprocessed, found, so_far>>
  <2> DEFINE nothing == <<>>
  <2>1. nothing \in Seq(Byte)
    OBVIOUS
  <2>2. Fold(nothing, Held, start, step) = start
    BY <1>1, FoldEmpty
  <2>3. OneByOne(unprocessed, found, so_far, nothing) = start
    <3> HIDE DEF nothing
    <3>1. QED BY <1>3, <2>1, <2>2
  <2>4. QED BY <2>3 DEF start
<1>6. ASSUME NEW s \in Seq(Byte), NEW b \in Byte PROVE OneByOne(unprocessed, found, so_far, Append(s, b)) = OneByte(OneByOne(unprocessed, found, so_far, s), b)
  <2> DEFINE more == Append(s, b)
  <2>1. more \in Seq(Byte) /\ OneMore(more, s, b)
    BY DEF OneMore
  <2> HIDE DEF more
  <2>2. Fold(more, Held, start, step) = Turn(step, Fold(s, Held, start, step), b)
    BY <1>1, <2>1, FoldAppend
  <2>3. QED BY <1>2, <1>3, <1>4, <2>1, <2>2 DEF more, Turn
<1>7. QED BY <1>4, <1>5, <1>6

(* A call of dataHandler() does what a call for each of its bytes does.    *)
LEMMA CutsAsOne ==
    ASSUME NEW unprocessed \in Seq(Byte), NEW found \in BOOLEAN, NEW so_far \in Seq(Packet)
    PROVE  \A s \in Seq(Byte) : Handled(unprocessed, found, so_far, s) = OneByOne(unprocessed, found, so_far, s)
<1> DEFINE h(s) == Handled(unprocessed, found, so_far, s)
           o(s) == OneByOne(unprocessed, found, so_far, s)
           T == {s \in Seq(Byte) : h(s) = o(s)}
<1>1. <<>> \in T
  <2>1. h(<<>>) = <<unprocessed, found, so_far>> /\ o(<<>>) = <<unprocessed, found, so_far>>
    BY HandledFacts, OneByOneFacts
  <2> HIDE DEF h, o
  <2>2. h(<<>>) = o(<<>>) /\ <<>> \in Seq(Byte)
    BY <2>1
  <2>3. QED BY <2>2
<1>2. ASSUME NEW s \in Seq(Byte), NEW b \in Byte, s \in T PROVE Append(s, b) \in T
  <2>1. h(Append(s, b)) = ByteHandled(h(s), b) /\ o(Append(s, b)) = OneByte(o(s), b) /\ o(s) \in Held
    BY HandledFacts, OneByOneFacts
  <2> HIDE DEF h, o
  <2>2. OneByte(o(s), b) = ByteHandled(o(s), b)
    BY <2>1, OneByteFacts
  <2>3. h(s) = o(s) /\ Append(s, b) \in Seq(Byte)
    BY <1>2
  <2>4. QED BY <2>1, <2>2, <2>3
<1>3. \A s \in Seq(Byte), b \in Byte : s \in T => Append(s, b) \in T
  BY <1>2
<1> HIDE DEF h, o
<1>4. \A s \in Seq(Byte) : s \in T
  <2> HIDE DEF T
  <2>1. QED BY <1>1, <1>3, OnSequences
<1>5. QED BY <1>4 DEF h, o

-----------------------------------------------------------------------------
(* What dataHandler() makes of the bytes of a packet.                      *)

Over(h, s) == Handled(h[1], h[2], h[3], s)

LEMMA OverFacts ==
    ASSUME NEW h \in Held
    PROVE  /\ \A s \in Seq(Byte) : Over(h, s) \in Held
           /\ Over(h, <<>>) = h
           /\ \A s \in Seq(Byte), b \in Byte : Over(h, Append(s, b)) = ByteHandled(Over(h, s), b)
<1> DEFINE x == h[1]
           y == h[2]
           z == h[3]
<1>1. x \in Seq(Byte) /\ y \in BOOLEAN /\ z \in Seq(Packet) /\ h = <<x, y, z>>
  BY DEF Held
<1>2. \A s : Over(h, s) = Handled(x, y, z, s)
  BY DEF Over
<1> HIDE DEF x, y, z
<1>3. /\ \A s \in Seq(Byte) : Handled(x, y, z, s) \in Held
      /\ Handled(x, y, z, <<>>) = <<x, y, z>>
      /\ \A s \in Seq(Byte), b \in Byte : Handled(x, y, z, Append(s, b)) = ByteHandled(Handled(x, y, z, s), b)
  BY <1>1, HandledFacts
<1>4. QED BY <1>1, <1>2, <1>3, Zenon

LEMMA AppendToJoined ==
    ASSUME NEW B, NEW s \in Seq(B), NEW t \in Seq(B), NEW b \in B
    PROVE  s \o Append(t, b) = Append(s \o t, b)
<1>1. Append(t, b) = t \o <<b>> /\ Append(s \o t, b) = (s \o t) \o <<b>> /\ <<b>> \in Seq(B)
  BY AppendIsConcat
<1>2. (s \o t) \o <<b>> = s \o (t \o <<b>>)
  BY <1>1, ConcatAssociative
<1>3. QED BY <1>1, <1>2

LEMMA OverJoined ==
    ASSUME NEW h \in Held, NEW s \in Seq(Byte)
    PROVE  \A t \in Seq(Byte) : Over(h, s \o t) = Over(Over(h, s), t)
<1> DEFINE k == Over(h, s)
           T == {t \in Seq(Byte) : Over(h, s \o t) = Over(k, t)}
<1>0. k \in Held
  BY OverFacts
<1> HIDE DEF k
<1>1. <<>> \in T
  <2>1. s \o <<>> = s /\ <<>> \in Seq(Byte)
    BY ConcatEmptySeq
  <2>2. Over(k, <<>>) = k
    BY <1>0, OverFacts
  <2>3. Over(h, s \o <<>>) = Over(k, <<>>)
    BY <2>1, <2>2 DEF k
  <2>4. QED BY <2>1, <2>3
<1>2. ASSUME NEW t \in Seq(Byte), NEW b \in Byte, t \in T PROVE Append(t, b) \in T
  <2>1. s \o Append(t, b) = Append(s \o t, b)
    BY AppendToJoined
  <2>2. s \o t \in Seq(Byte) /\ Append(t, b) \in Seq(Byte)
    OBVIOUS
  <2>3. Over(h, Append(s \o t, b)) = ByteHandled(Over(h, s \o t), b)
    BY <2>2, OverFacts
  <2>4. Over(k, Append(t, b)) = ByteHandled(Over(k, t), b)
    BY <1>0, OverFacts
  <2>5. Over(h, s \o t) = Over(k, t)
    BY <1>2
  <2>6. Over(h, s \o Append(t, b)) = Over(k, Append(t, b))
    BY <2>1, <2>3, <2>4, <2>5
  <2>7. QED BY <2>2, <2>6
<1>3. \A t \in Seq(Byte) : t \in T
  <2> HIDE DEF T
  <2>1. \A t \in Seq(Byte), b \in Byte : t \in T => Append(t, b) \in T
    BY <1>2
  <2>2. QED BY <1>1, <2>1, OnSequences
<1>4. QED BY <1>3 DEF k

LEMMA OverOne ==
    ASSUME NEW h \in Held, NEW b \in Byte
    PROVE  Over(h, <<b>>) = ByteHandled(h, b) /\ ByteHandled(h, b) \in Held
<1> DEFINE nothing == <<>>
           one == Append(nothing, b)
<1>1. nothing \in Seq(Byte)
  OBVIOUS
<1>2. Over(h, nothing) = h
  BY OverFacts
<1>3. one = <<b>> /\ one \in Seq(Byte)
  OBVIOUS
<1> HIDE DEF nothing
<1>4. Over(h, one) = ByteHandled(Over(h, nothing), b)
  BY <1>1, OverFacts
<1>5. Over(h, one) \in Held
  <2> HIDE DEF one
  <2>1. QED BY <1>3, OverFacts
<1>6. QED BY <1>2, <1>3, <1>4, <1>5

(* Bytes that are no END only get longer.                                  *)
LEMMA OverBody ==
    ASSUME NEW h \in Held
    PROVE  \A w \in WithoutEnd : Over(h, w) = <<h[1] \o w, h[2], h[3]>>
<1> DEFINE B == Byte \ {END}
           T == {w \in Seq(B) : Over(h, w) = <<h[1] \o w, h[2], h[3]>>}
<1>0. h[1] \in Seq(Byte) /\ h = <<h[1], h[2], h[3]>>
  BY DEF Held
<1>1. <<>> \in T
  <2>1. h[1] \o <<>> = h[1] /\ <<>> \in Seq(B)
    BY <1>0, ConcatEmptySeq
  <2>2. Over(h, <<>>) = h
    BY OverFacts
  <2>3. Over(h, <<>>) = <<h[1] \o <<>>, h[2], h[3]>>
    BY <1>0, <2>1, <2>2
  <2>4. QED BY <2>1, <2>3
<1>2. ASSUME NEW w \in Seq(B), NEW b \in B, w \in T PROVE Append(w, b) \in T
  <2>1. b \in Byte /\ b # END /\ Append(w, b) \in Seq(B)
    OBVIOUS
  <2>2. w \in Seq(Byte)
    BY SeqMonotonic
  <2>3. Over(h, Append(w, b)) = ByteHandled(Over(h, w), b)
    BY <2>1, <2>2, OverFacts
  <2>4. Over(h, w) = <<h[1] \o w, h[2], h[3]>>
    BY <1>2
  <2>5. ByteHandled(<<h[1] \o w, h[2], h[3]>>, b) = <<Append(h[1] \o w, b), h[2], h[3]>>
    BY <2>1 DEF ByteHandled
  <2>6. h[1] \o Append(w, b) = Append(h[1] \o w, b)
    BY <1>0, <2>1, <2>2, AppendToJoined
  <2>7. Over(h, Append(w, b)) = <<h[1] \o Append(w, b), h[2], h[3]>>
    BY <2>3, <2>4, <2>5, <2>6
  <2>8. QED BY <2>1, <2>7
<1>3. \A w \in Seq(B) : w \in T
  <2> HIDE DEF T, B
  <2>1. \A w \in Seq(B), b \in B : w \in T => Append(w, b) \in T
    BY <1>2
  <2>2. QED BY <1>1, <2>1, OnSequences
<1>4. QED BY <1>3 DEF WithoutEnd

LEMMA OneLonger ==
    ASSUME NEW u \in Seq(Byte), NEW b \in Byte
    PROVE  NotAnEnd(Append(u, b)) <=> Len(u) = 1
<1> DEFINE n == Len(u)
           m == Len(Append(u, b))
<1>1. n \in Nat /\ m = n + 1
  OBVIOUS
<1> HIDE DEF n, m
<1>2. m = 2 <=> n = 1
  BY <1>1
<1>3. QED BY <1>2 DEF NotAnEnd, n, m

(* At the start of a packet the next END is taken for a start, if no       *)
(* packet was begun, or if nothing but the END that began it is there.     *)
AtPacketStart(h) == ~h[2] \/ Len(h[1]) = 1

(* The accepted packets are never taken back.                              *)
Extends(long, short) ==
    /\ Len(short) <= Len(long)
    /\ \A i \in 1..Len(short) : long[i] = short[i]

LEMMA ExtendsMore ==
    ASSUME NEW B, NEW s \in Seq(B), NEW t \in Seq(B), NEW u \in Seq(B), Extends(u, t), Extends(t, s)
    PROVE  Extends(u, s)
BY DEF Extends

LEMMA ProcessPacketExtends ==
    ASSUME NEW packet \in Seq(Byte), NEW a \in Seq(Packet)
    PROVE  Extends(processPacket(packet, a), a)
<1> DEFINE decoded == UNION {h5_decode(s) : s \in slip_decode(packet)}
           p == CHOOSE x \in decoded : TRUE
<1>1. decoded \subseteq Packet
  BY SlipDecodeType, H5DecodeType
<1>2. processPacket(packet, a) = IF decoded = {} THEN a ELSE Append(a, p)
  BY DEF processPacket
<1>3. decoded # {} => p \in decoded
  OBVIOUS
<1> HIDE DEF decoded, p
<1>4. CASE decoded = {}
  BY <1>2, <1>4 DEF Extends
<1>5. CASE decoded # {}
  <2>1. p \in Packet
    BY <1>1, <1>3, <1>5
  <2>2. Extends(Append(a, p), a)
    BY <2>1 DEF Extends
  <2>3. QED BY <1>2, <1>5, <2>2
<1>6. QED BY <1>4, <1>5

LEMMA ByteExtends ==
    ASSUME NEW h \in Held, NEW b \in Byte
    PROVE  Extends(ByteHandled(h, b)[3], h[3])
<1> DEFINE packet == Append(h[1], b)
           done == processPacket(packet, h[3])
<1>1. h[1] \in Seq(Byte) /\ h[3] \in Seq(Packet)
  BY DEF Held
<1>2. packet \in Seq(Byte)
  BY <1>1
<1> HIDE DEF packet
<1>3. Extends(done, h[3]) /\ Extends(h[3], h[3])
  BY <1>1, <1>2, ProcessPacketExtends DEF Extends
<1>4. ByteHandled(h, b)[3] \in {done, h[3]}
  BY DEF ByteHandled, packet
<1> HIDE DEF done
<1>5. QED BY <1>3, <1>4

LEMMA OverExtends ==
    ASSUME NEW h \in Held
    PROVE  \A s \in Seq(Byte) : Extends(Over(h, s)[3], h[3])
<1> DEFINE T == {s \in Seq(Byte) : Extends(Over(h, s)[3], h[3])}
<1>0. h[3] \in Seq(Packet)
  BY DEF Held
<1>1. <<>> \in T
  <2>1. Extends(h[3], h[3])
    BY <1>0 DEF Extends
  <2>2. Over(h, <<>>) = h /\ <<>> \in Seq(Byte)
    BY OverFacts
  <2>3. QED BY <2>1, <2>2
<1>2. ASSUME NEW s \in Seq(Byte), NEW b \in Byte, s \in T PROVE Append(s, b) \in T
  <2> DEFINE k == Over(h, s)
             n == Over(h, Append(s, b))
  <2>1. Append(s, b) \in Seq(Byte)
    OBVIOUS
  <2>2. k \in Held /\ n \in Held /\ n = ByteHandled(k, b)
    BY <2>1, OverFacts
  <2>3. Extends(k[3], h[3])
    BY <1>2
  <2> HIDE DEF k, n
  <2>4. Extends(n[3], k[3]) /\ k[3] \in Seq(Packet) /\ n[3] \in Seq(Packet)
    BY <2>2, ByteExtends DEF Held
  <2>5. Extends(n[3], h[3])
    BY <1>0, <2>3, <2>4, ExtendsMore
  <2>6. QED BY <2>1, <2>5 DEF n
<1>3. \A s \in Seq(Byte) : s \in T
  <2> HIDE DEF T
  <2>1. \A s \in Seq(Byte), b \in Byte : s \in T => Append(s, b) \in T
    BY <1>2
  <2>2. QED BY <1>1, <2>1, OnSequences
<1>4. QED BY <1>3

(* The bytes of a packet: taken for it at the start of a packet, and else  *)
(* what leads there.                                                       *)
LEMMA OverPacket ==
    ASSUME CrcIsWord, NEW h \in Held, NEW p \in Packet
    PROVE  LET bytes == slip_encode(h5_encode(p)) IN
           /\ bytes \in Seq(Byte)
           /\ AtPacketStart(h) => Over(h, bytes) = <<<<>>, FALSE, Append(h[3], p)>>
           /\ AtPacketStart(Over(h, bytes))
<1> DEFINE s == h5_encode(p)
           w == Escaped(s)
           bytes == slip_encode(s)
           ends == <<END>>
           k1 == Over(h, ends)
           k2 == Over(k1, w)
           k3 == Over(k2, ends)
<1>1. s \in Seq(Byte) /\ s # <<>>
  <2>1. s \in Seq(Byte)
    BY CrcIsWord, EncodeType
  <2>2. s # <<>>
    <3>1. h5_decode(s) = {p}
      BY CrcIsWord, H5RoundTrip
    <3> HIDE DEF s
    <3>2. Len(s) < 4 => h5_decode(s) = {}
      BY DEF h5_decode
    <3>3. Len(<<>>) = 0
      OBVIOUS
    <3>4. QED BY <3>1, <3>2, <3>3
  <2>3. QED BY <2>1, <2>2
<1>2. bytes = (ends \o w) \o ends /\ END \in Byte /\ ends \in Seq(Byte)
  BY ByteFacts DEF slip_encode
<1>3. processPacket(bytes, h[3]) = Append(h[3], p)
  <2>1. h[3] \in Seq(Packet)
    BY DEF Held
  <2>2. QED BY <2>1, CrcIsWord, AcceptsWhatWasSent
<1> HIDE DEF s
<1>4. w \in WithoutEnd /\ w # <<>> /\ w \in Seq(Byte)
  <2>1. w \in WithoutEnd /\ w # <<>>
    BY <1>1, EscapedWithoutEnd
  <2>2. w \in Seq(Byte)
    BY <1>1, EscapedFacts
  <2>3. QED BY <2>1, <2>2
<1> HIDE DEF w, bytes
<1>5. k1 \in Held /\ k1 = ByteHandled(h, END)
  BY <1>2, OverOne
<1>6. k2 \in Held /\ k2 = <<k1[1] \o w, k1[2], k1[3]>>
  <2> HIDE DEF k1
  <2>1. QED BY <1>4, <1>5, OverFacts, OverBody
<1>7. k3 = ByteHandled(k2, END)
  <2> HIDE DEF k2
  <2>1. QED BY <1>2, <1>6, OverOne
<1>8. Over(h, bytes) = k3 /\ bytes \in Seq(Byte)
  <2>1. ends \o w \in Seq(Byte)
    BY <1>2, <1>4
  <2>2. Over(h, ends \o w) = k2
    BY <1>2, <1>4, OverJoined
  <2>3. Over(h, (ends \o w) \o ends) = Over(Over(h, ends \o w), ends)
    BY <1>2, <2>1, OverJoined
  <2>4. (ends \o w) \o ends \in Seq(Byte)
    BY <1>2, <2>1
  <2> HIDE DEF ends, k2
  <2>5. QED BY <1>2, <2>2, <2>3, <2>4
<1> HIDE DEF k1, k2, k3
<1>9. h[1] \in Seq(Byte) /\ h[2] \in BOOLEAN
  BY DEF Held
<1>10. ASSUME AtPacketStart(h) PROVE k3 = <<<<>>, FALSE, Append(h[3], p)>>
  <2>1. ~h[2] \/ NotAnEnd(Append(h[1], END))
    BY <1>2, <1>9, <1>10, OneLonger DEF AtPacketStart
  <2>2. k1 = <<ends, TRUE, h[3]>>
    BY <1>5, <2>1 DEF ByteHandled
  <2>3. k2 = <<ends \o w, TRUE, h[3]>>
    BY <1>6, <2>2
  <2>4. Append(ends \o w, END) = bytes
    <3>1. ends \o w \in Seq(Byte)
      BY <1>2, <1>4
    <3>2. QED BY <1>2, <3>1, AppendIsConcat
  <2>5. ~NotAnEnd(bytes)
    <3>1. Len(w) \in Nat \ {0}
      BY <1>4, EmptySeq
    <3>2. Len(ends) = 1 /\ Len(ends \o w) = Len(ends) + Len(w) /\ Len((ends \o w) \o ends) = Len(ends \o w) + Len(ends)
      BY <1>2, <1>4
    <3>3. QED BY <1>2, <3>1, <3>2 DEF NotAnEnd
  <2>6. ByteHandled(k2, END) = <<<<>>, FALSE, processPacket(bytes, h[3])>>
    BY <2>3, <2>4, <2>5 DEF ByteHandled
  <2>7. QED BY <1>3, <1>7, <2>6
<1>11. ASSUME ~AtPacketStart(h) PROVE ~k3[2] \/ Len(k3[1]) = 1
  <2>1. h[2] /\ ~NotAnEnd(Append(h[1], END))
    BY <1>2, <1>9, <1>11, OneLonger DEF AtPacketStart
  <2>2. k1[2] = FALSE
    BY <1>5, <2>1 DEF ByteHandled
  <2>3. k2[2] = FALSE
    BY <1>6, <2>2
  <2>4. k3[1] = <<END>>
    BY <1>7, <2>3 DEF ByteHandled
  <2>5. QED BY <2>4
<1>12. AtPacketStart(k3)
  <2>1. CASE AtPacketStart(h)
    <3>1. \A x, y : <<x, FALSE, y>>[2] = FALSE
      OBVIOUS
    <3>2. k3[2] = FALSE
      BY <1>10, <2>1, <3>1, Zenon
    <3>3. QED BY <3>2 DEF AtPacketStart
  <2>2. CASE ~AtPacketStart(h)
    BY <1>11, <2>2 DEF AtPacketStart
  <2>3. QED BY <2>1, <2>2
<1>13. QED BY <1>8, <1>10, <1>12 DEF bytes, s

-----------------------------------------------------------------------------
(* The packets of a session.                                               *)

LEMMA JoinType == \A s, t \in Seq(Byte) : s \o t \in Seq(Byte) /\ <<>> \in Seq(Byte)
OBVIOUS

LEMMA JoinedFacts ==
    /\ \A s \in Seq(Seq(Byte)) : Joined(s) \in Seq(Byte)
    /\ Joined(<<>>) = <<>>
    /\ \A s \in Seq(Seq(Byte)), b \in Seq(Byte) : Joined(Append(s, b)) = Joined(s) \o b
<1> DEFINE step == [x \in Seq(Byte) \X Seq(Byte) |-> x[1] \o x[2]]
           none == <<>>
<1>1. IsStep(step, Seq(Byte), Seq(Byte)) /\ none \in Seq(Byte)
  BY JoinType DEF IsStep
<1>2. \A x \in Seq(Byte), b \in Seq(Byte) : step[<<x, b>>] = x \o b
  OBVIOUS
<1> HIDE DEF step, none
<1>3. ASSUME NEW s \in Seq(Seq(Byte))
      PROVE  Joined(s) = Fold(s, Seq(Byte), none, step)
  <2> DEFINE Is(f) == f = [n \in 0..Len(s) |-> IF n = 0 THEN <<>> ELSE f[n - 1] \o s[n]]
             f == CHOOSE g : Is(g)
  <2>1. PICK g : LoopOver(s, Seq(Byte), none, step, g)
    BY <1>1, LoopExists DEF IsStep
  <2>2. Is(g)
    <3>1. g = [n \in 0..Len(s) |-> g[n]]
      BY <2>1 DEF LoopOver
    <3>2. ASSUME NEW n \in 0..Len(s) PROVE g[n] = IF n = 0 THEN <<>> ELSE g[n - 1] \o s[n]
      <4>1. CASE n = 0
        BY <2>1, <4>1 DEF LoopOver, none
      <4>2. CASE n # 0
        <5>1. n \in 1..Len(s) /\ n - 1 \in 0..Len(s) /\ s[n] \in Seq(Byte)
          BY <4>2
        <5>2. g[n] = step[<<g[n - 1], s[n]>>] /\ g[n - 1] \in Seq(Byte)
          BY <2>1, <5>1 DEF LoopOver
        <5>3. QED BY <1>2, <4>2, <5>1, <5>2
      <4>3. QED BY <4>1, <4>2
    <3>3. QED BY <3>1, <3>2
  <2>3. Is(f)
    <3> HIDE DEF Is
    <3>1. QED BY <2>2
  <2>4. Joined(s) = f[Len(s)]
    BY DEF Joined
  <2> HIDE DEF f
  <2>5. /\ f = [n \in 0..Len(s) |-> f[n]]
        /\ f[0] = none
        /\ \A n \in 1..Len(s) : f[n - 1] \in Seq(Byte) => f[n] = step[<<f[n - 1], s[n]>>]
    <3>1. ASSUME NEW n \in 1..Len(s), f[n - 1] \in Seq(Byte) PROVE f[n] = step[<<f[n - 1], s[n]>>]
      <4>1. s[n] \in Seq(Byte) /\ n \in 0..Len(s) /\ n # 0
        OBVIOUS
      <4>2. f[n] = f[n - 1] \o s[n]
        BY <2>3, <4>1
      <4>3. QED BY <1>2, <3>1, <4>1, <4>2
    <3>2. 0 \in 0..Len(s)
      OBVIOUS
    <3>3. QED BY <2>3, <3>1, <3>2 DEF none
  <2> HIDE DEF Is
  <2>6. LoopOver(s, Seq(Byte), none, step, f)
    BY <1>1, <2>5, LoopIs
  <2>7. f[Len(s)] = Fold(s, Seq(Byte), none, step)
    BY <1>1, <2>6, FoldIs
  <2>8. QED BY <2>4, <2>7
<1>4. ASSUME NEW s \in Seq(Seq(Byte)) PROVE Joined(s) \in Seq(Byte)
  BY <1>1, <1>3, FoldType
<1>5. Joined(<<>>) = <<>>
  <2> DEFINE nothing == <<>>
  <2>1. nothing \in Seq(Seq(Byte))
    OBVIOUS
  <2>2. Fold(nothing, Seq(Byte), none, step) = none
    BY <1>1, FoldEmpty
  <2>3. Joined(nothing) = none
    <3> HIDE DEF nothing
    <3>1. QED BY <1>3, <2>1, <2>2
  <2>4. QED BY <2>3 DEF none
<1>6. ASSUME NEW s \in Seq(Seq(Byte)), NEW b \in Seq(Byte) PROVE Joined(Append(s, b)) = Joined(s) \o b
  <2> DEFINE more == Append(s, b)
  <2>1. more \in Seq(Seq(Byte)) /\ OneMore(more, s, b)
    BY DEF OneMore
  <2> HIDE DEF more
  <2>2. Fold(more, Seq(Byte), none, step) = Turn(step, Fold(s, Seq(Byte), none, step), b)
    BY <1>1, <2>1, FoldAppend
  <2>3. QED BY <1>2, <1>3, <1>4, <2>1, <2>2 DEF more, Turn
<1>7. QED BY <1>4, <1>5, <1>6

LEMMA FirstOnes ==
    ASSUME NEW S, NEW s \in Seq(S), NEW j \in 1..Len(s)
    PROVE  /\ SubSeq(s, 1, j - 1) \in Seq(S) /\ s[j] \in S
           /\ SubSeq(s, 1, j) = Append(SubSeq(s, 1, j - 1), s[j])
<1>1. s[j] \in S
  OBVIOUS
<1>2. SubSeq(s, 1, j - 1) \in Seq(S)
  <2>1. \A i \in 1..(j - 1) : s[i] \in S
    OBVIOUS
  <2>2. QED BY <2>1, SubSeqProperties
<1>3. SubSeq(s, 1, j) = SubSeq(s, 1, j - 1) \o <<s[j]>>
  <2>1. 1 \in 1..Len(s) /\ j \in 1..Len(s)
    OBVIOUS
  <2>2. QED BY <2>1, SubSeqRecursiveSecond
<1>4. QED BY <1>1, <1>2, <1>3, AppendIsConcat

(* What dataHandler() has after the first pieces.                          *)
After(h, ps, j) == Over(h, Joined(SubSeq(ps, 1, j)))

LEMMA AfterFacts ==
    ASSUME NEW h \in Held, NEW ps \in Seq(Seq(Byte))
    PROVE  /\ After(h, ps, 0) = h
           /\ After(h, ps, Len(ps)) = Over(h, Joined(ps))
           /\ \A j \in 1..Len(ps) : After(h, ps, j) = Over(After(h, ps, j - 1), ps[j])
<1>1. After(h, ps, 0) = h
  <2>1. SubSeq(ps, 1, 0) = <<>>
    BY SubSeqEmpty
  <2>2. Joined(<<>>) = <<>> /\ Over(h, <<>>) = h
    BY JoinedFacts, OverFacts
  <2>3. QED BY <2>1, <2>2 DEF After
<1>2. After(h, ps, Len(ps)) = Over(h, Joined(ps))
  BY SubSeqFull DEF After
<1>3. ASSUME NEW j \in 1..Len(ps) PROVE After(h, ps, j) = Over(After(h, ps, j - 1), ps[j])
  <2> DEFINE start == SubSeq(ps, 1, j - 1)
             piece == ps[j]
  <2>1. start \in Seq(Seq(Byte)) /\ piece \in Seq(Byte) /\ SubSeq(ps, 1, j) = Append(start, piece)
    BY FirstOnes
  <2> HIDE DEF start, piece
  <2>2. Joined(Append(start, piece)) = Joined(start) \o piece /\ Joined(start) \in Seq(Byte)
    BY <2>1, JoinedFacts
  <2>3. Over(h, Joined(start) \o piece) = Over(Over(h, Joined(start)), piece)
    BY <2>1, <2>2, OverJoined
  <2>4. QED BY <2>1, <2>2, <2>3 DEF After, start, piece
<1>4. QED BY <1>1, <1>2, <1>3

(* A session: what dataHandler() has when it begins, the bytes of each of  *)
(* its packets, and which of them are damaged (0: those before).           *)
Session(h, ps, damaged) ==
    /\ h \in Held /\ h[3] = <<>> /\ (0 \notin damaged => ~h[2])
    /\ ps \in Seq(Seq(Byte)) /\ Len(ps) = Len(Packets)
    /\ \A j \in DOMAIN Packets \ damaged :
         \/ ps[j] = Bytes(j)
         \/ damaged = {} /\ \E b \in Byte : ps[j] = <<b>> \o Bytes(j)

LEMMA ExtendsKeeps ==
    ASSUME NEW B, NEW s \in Seq(B), NEW t \in Seq(B), Extends(t, s), NEW x \in ToSet(s)
    PROVE  x \in ToSet(t)
<1>1. PICK i \in 1..Len(s) : x = s[i]
  BY DEF ToSet
<1>2. i \in 1..Len(t) /\ t[i] = s[i]
  BY DEF Extends
<1>3. QED BY <1>1, <1>2 DEF ToSet

(* What holds after the first j packets.                                   *)
SoFar(k, damaged, j) ==
    /\ k \in Held
    /\ j \notin damaged => AtPacketStart(k)
    /\ damaged = {} => ~k[2] /\ k[3] = SubSeq(Packets, 1, j)
    /\ \A i \in 1..j : {i, i - 1} \cap damaged = {} => Packets[i] \in ToSet(k[3])

(* One packet more, as it was sent.                                        *)
LEMMA WholePacket ==
    ASSUME CrcIsWord, NEW k \in Held, NEW j \in DOMAIN Packets
    PROVE  /\ AtPacketStart(k) => Over(k, Bytes(j)) = <<<<>>, FALSE, Append(k[3], Packets[j])>>
           /\ AtPacketStart(Over(k, Bytes(j))) /\ Bytes(j) \in Seq(Byte)
<1> DEFINE p == Packets[j]
<1>1. p \in Packet
  BY PacketsAssumption
<1>2. Bytes(j) = slip_encode(h5_encode(p))
  BY DEF Bytes
<1> HIDE DEF p
<1>3. QED BY <1>1, <1>2, CrcIsWord, OverPacket DEF p

(* One packet more, and a byte before it.                                  *)
LEMMA PrefixedPacket ==
    ASSUME CrcIsWord, NEW k \in Held, ~k[2], NEW b \in Byte, NEW j \in DOMAIN Packets
    PROVE  Over(k, <<b>> \o Bytes(j)) = <<<<>>, FALSE, Append(k[3], Packets[j])>>
<1> DEFINE n == ByteHandled(k, b)
           one == <<b>>
<1>1. Over(k, one) = n /\ n \in Held /\ one \in Seq(Byte)
  BY OverOne
<1>2. AtPacketStart(n) /\ n[3] = k[3]
  <2>1. CASE b # END
    <3>1. n = <<Append(k[1], b), k[2], k[3]>>
      BY <2>1 DEF ByteHandled
    <3>2. QED BY <3>1 DEF AtPacketStart
  <2>2. CASE b = END
    <3>1. n = <<<<END>>, TRUE, k[3]>>
      BY <2>2 DEF ByteHandled
    <3>2. QED BY <3>1 DEF AtPacketStart
  <2>3. QED BY <2>1, <2>2
<1>3. Bytes(j) \in Seq(Byte)
  BY CrcIsWord, WholePacket
<1>4. Over(k, one \o Bytes(j)) = Over(Over(k, one), Bytes(j))
  <2> HIDE DEF one
  <2>1. QED BY <1>1, <1>3, OverJoined
<1> HIDE DEF n
<1>5. Over(n, Bytes(j)) = <<<<>>, FALSE, Append(n[3], Packets[j])>>
  BY <1>1, <1>2, CrcIsWord, WholePacket
<1>6. QED BY <1>1, <1>2, <1>4, <1>5

LEMMA LastIsThere ==
    ASSUME NEW B, NEW s \in Seq(B), NEW x \in B
    PROVE  x \in ToSet(Append(s, x)) /\ \A y \in ToSet(s) : y \in ToSet(Append(s, x))
<1> DEFINE t == Append(s, x)
<1>1. t \in Seq(B) /\ Len(t) = Len(s) + 1 /\ Len(s) \in Nat /\ t[Len(s) + 1] = x /\ \A i \in 1..Len(s) : t[i] = s[i]
  BY AppendProperties
<1> HIDE DEF t
<1>2. Len(t) \in DOMAIN t /\ t[Len(t)] = x
  BY <1>1
<1>3. \A i \in DOMAIN s : i \in DOMAIN t /\ t[i] = s[i]
  BY <1>1
<1>4. QED BY <1>2, <1>3 DEF ToSet, t

(* Without damage all packets so far are accepted, and nothing is kept.    *)
LEMMA AllAccepted ==
    ASSUME NEW damaged, damaged = {}, NEW j \in 1..Len(Packets), NEW k, SoFar(k, damaged, j - 1),
           NEW n \in Held, n = <<<<>>, FALSE, Append(k[3], Packets[j])>>
    PROVE  SoFar(n, damaged, j)
<1> DEFINE p == Packets[j]
<1>1. Packets \in Seq(Packet) /\ p \in Packet
  BY PacketsAssumption
<1>2. k[3] \in Seq(Packet) /\ k[3] = SubSeq(Packets, 1, j - 1)
  BY DEF SoFar, Held
<1>3. n[2] = FALSE /\ n[3] = Append(k[3], p)
  <2>1. \A x, y, z : <<x, y, z>>[2] = y /\ <<x, y, z>>[3] = z
    OBVIOUS
  <2>2. QED BY <2>1, Zenon
<1>4. SubSeq(Packets, 1, j) = Append(SubSeq(Packets, 1, j - 1), p)
  BY <1>1, FirstOnes
<1>5. ASSUME NEW i \in 1..j PROVE Packets[i] \in ToSet(n[3])
  <2>1. CASE i = j
    BY <1>1, <1>2, <1>3, <2>1, LastIsThere
  <2>2. CASE i # j
    <3>1. i \in 1..(j - 1)
      BY <2>2
    <3>2. Packets[i] \in ToSet(k[3])
      BY <3>1 DEF SoFar
    <3>3. QED BY <1>1, <1>2, <1>3, <3>2, LastIsThere
  <2>3. QED BY <2>1, <2>2
<1>6. QED BY <1>2, <1>3, <1>4, <1>5 DEF SoFar, AtPacketStart

LEMMA OnePacketMore ==
    ASSUME CrcIsWord, NEW h, NEW ps, NEW damaged, Session(h, ps, damaged),
           NEW j \in 1..Len(ps), NEW k, SoFar(k, damaged, j - 1)
    PROVE  SoFar(Over(k, ps[j]), damaged, j)
<1> DEFINE n == Over(k, ps[j])
           p == Packets[j]
<1>1. j \in DOMAIN Packets /\ ps[j] \in Seq(Byte) /\ Packets \in Seq(Packet) /\ j \in 1..Len(Packets) /\ p \in Packet
  BY PacketsAssumption DEF Session
<1>2. k \in Held /\ k[3] \in Seq(Packet)
  BY DEF SoFar, Held
<1>3. n \in Held /\ n[3] \in Seq(Packet) /\ Extends(n[3], k[3])
  BY <1>1, <1>2, OverFacts, OverExtends DEF Held
<1>4. SubSeq(Packets, 1, j) = Append(SubSeq(Packets, 1, j - 1), p)
  BY <1>1, FirstOnes
<1>5. CASE j \in damaged
  <2>1. \A i \in 1..j : {i, i - 1} \cap damaged = {} => Packets[i] \in ToSet(n[3])
    <3> SUFFICES ASSUME NEW i \in 1..j, {i, i - 1} \cap damaged = {} PROVE Packets[i] \in ToSet(n[3])
      OBVIOUS
    <3>1. i \in 1..(j - 1)
      BY <1>5
    <3>2. Packets[i] \in ToSet(k[3])
      BY <3>1 DEF SoFar
    <3> HIDE DEF n
    <3>3. QED BY <1>2, <1>3, <3>2, ExtendsKeeps
  <2>2. QED BY <1>3, <1>5, <2>1 DEF SoFar
<1>6. CASE damaged = {} /\ \E b \in Byte : ps[j] = <<b>> \o Bytes(j)
  <2>1. PICK b \in Byte : ps[j] = <<b>> \o Bytes(j)
    BY <1>6
  <2>2. n = <<<<>>, FALSE, Append(k[3], p)>>
    BY <1>1, <1>2, <1>6, <2>1, CrcIsWord, PrefixedPacket DEF SoFar
  <2>3. QED BY <1>1, <1>2, <1>3, <1>4, <1>6, <2>2, AllAccepted
<1>7. CASE j \notin damaged /\ ps[j] = Bytes(j)
  <2>1. AtPacketStart(n)
    BY <1>1, <1>2, <1>7, CrcIsWord, WholePacket
  <2>2. CASE damaged = {}
    <3>1. AtPacketStart(k)
      BY <2>2 DEF SoFar, AtPacketStart
    <3>2. n = <<<<>>, FALSE, Append(k[3], p)>>
      BY <1>1, <1>2, <1>7, <3>1, CrcIsWord, WholePacket
    <3>3. QED BY <1>1, <1>2, <1>3, <1>4, <2>2, <3>2, AllAccepted
  <2>3. CASE damaged # {}
    <3>1. ASSUME NEW i \in 1..j, {i, i - 1} \cap damaged = {} PROVE Packets[i] \in ToSet(n[3])
      <4>1. CASE i = j
        <5>1. AtPacketStart(k)
          BY <3>1, <4>1 DEF SoFar
        <5>2. n = <<<<>>, FALSE, Append(k[3], p)>>
          BY <1>1, <1>2, <1>7, <5>1, CrcIsWord, WholePacket
        <5>3. n[3] = Append(k[3], p)
          BY <5>2
        <5>4. p \in ToSet(Append(k[3], p))
          BY <1>1, <1>2, LastIsThere
        <5>5. QED BY <4>1, <5>3, <5>4
      <4>2. CASE i # j
        <5>1. i \in 1..(j - 1)
          BY <4>2
        <5>2. Packets[i] \in ToSet(k[3])
          BY <3>1, <5>1 DEF SoFar
        <5> HIDE DEF n
        <5>3. QED BY <1>2, <1>3, <5>2, ExtendsKeeps
      <4>3. QED BY <4>1, <4>2
    <3>2. QED BY <1>3, <2>1, <2>3, <3>1 DEF SoFar
  <2>4. QED BY <2>2, <2>3
<1>8. QED BY <1>1, <1>5, <1>6, <1>7 DEF Session

LEMMA SessionFacts ==
    ASSUME CrcIsWord, NEW h, NEW ps, NEW damaged, Session(h, ps, damaged)
    PROVE  SoFar(Over(h, Joined(ps)), damaged, Len(Packets))
<1> DEFINE T == {j \in 0..Len(ps) : SoFar(After(h, ps, j), damaged, j)}
<1>1. h \in Held /\ ps \in Seq(Seq(Byte)) /\ Len(ps) = Len(Packets) /\ Len(ps) \in Nat
  BY DEF Session
<1>2. 0 \in T
  <2>1. SubSeq(Packets, 1, 0) = <<>>
    BY SubSeqEmpty
  <2>2. SoFar(h, damaged, 0)
    BY <2>1 DEF SoFar, Session, AtPacketStart
  <2>3. After(h, ps, 0) = h
    BY <1>1, AfterFacts
  <2>4. QED BY <1>1, <2>2, <2>3
<1>3. ASSUME NEW j \in 1..Len(ps), j - 1 \in T PROVE j \in T
  <2> DEFINE k == After(h, ps, j - 1)
  <2>1. SoFar(k, damaged, j - 1)
    BY <1>3
  <2>2. After(h, ps, j) = Over(k, ps[j])
    BY <1>1, AfterFacts
  <2> HIDE DEF k
  <2>3. SoFar(Over(k, ps[j]), damaged, j)
    BY CrcIsWord, <2>1, OnePacketMore
  <2>4. QED BY <2>2, <2>3
<1>4. \A j \in 0..Len(ps) : j \in T
  <2> HIDE DEF T
  <2>1. \A j \in 1..Len(ps) : j - 1 \in T => j \in T
    BY <1>3
  <2>2. QED BY <1>1, <1>2, <2>1, UpTo
<1>5. SoFar(After(h, ps, Len(ps)), damaged, Len(ps))
  BY <1>1, <1>4
<1>6. QED BY <1>1, <1>5, AfterFacts

-----------------------------------------------------------------------------
(* The line.                                                               *)

LEMMA SplitAt ==
    ASSUME NEW B, NEW s \in Seq(B), NEW n \in Nat, n <= Len(s)
    PROVE  LET t == SubSeq(s, 1, n)
               u == SubSeq(s, n + 1, Len(s)) IN
           t \in Seq(B) /\ u \in Seq(B) /\ s = t \o u
<1> DEFINE t == SubSeq(s, 1, n)
           u == SubSeq(s, n + 1, Len(s))
<1>1. t \in Seq(B) /\ Len(t) = n /\ \A i \in 1..n : t[i] = s[i]
  OBVIOUS
<1>2. u \in Seq(B) /\ Len(u) = Len(s) - n /\ \A i \in 1..(Len(s) - n) : u[i] = s[n + i]
  OBVIOUS
<1> HIDE DEF t, u
<1>3. t \o u \in Seq(B) /\ Len(t \o u) = Len(s) /\ \A i \in 1..Len(s) : (t \o u)[i] = s[i]
  <2>1. /\ t \o u \in Seq(B) /\ Len(t \o u) = Len(t) + Len(u)
        /\ \A i \in 1..Len(t) : (t \o u)[i] = t[i]
        /\ \A i \in 1..Len(u) : (t \o u)[Len(t) + i] = u[i]
    BY <1>1, <1>2, Joins
  <2>2. Len(s) \in Nat
    OBVIOUS
  <2>3. Len(t \o u) = Len(s)
    BY <1>1, <1>2, <2>1, <2>2
  <2>4. ASSUME NEW i \in 1..Len(s) PROVE (t \o u)[i] = s[i]
    <3>1. CASE i <= n
      <4>1. i \in 1..n
        BY <3>1
      <4>2. QED BY <1>1, <2>1, <4>1
    <3>2. CASE ~(i <= n)
      <4>1. i - n \in 1..(Len(s) - n) /\ n + (i - n) = i
        BY <2>2, <3>2
      <4>2. (t \o u)[n + (i - n)] = u[i - n] /\ u[i - n] = s[n + (i - n)]
        BY <1>1, <1>2, <2>1, <4>1
      <4>3. QED BY <4>1, <4>2
    <3>3. QED BY <3>1, <3>2
  <2>5. QED BY <2>1, <2>3, <2>4
<1>4. s = t \o u
  BY <1>3, SeqEqual
<1>5. QED BY <1>1, <1>2, <1>4 DEF t, u

LEMMA PiecesType ==
    ASSUME CrcIsWord
    PROVE  /\ Pieces \in Seq(Seq(Byte)) /\ Len(Pieces) = Len(Packets) /\ DOMAIN Packets = 1..Len(Packets)
           /\ \A k \in DOMAIN Packets : Pieces[k] = Bytes(k) /\ Bytes(k) \in Seq(Byte)
<1>1. Packets \in Seq(Packet) /\ Len(Packets) \in Nat /\ DOMAIN Packets = 1..Len(Packets)
  BY PacketsAssumption
<1>2. ASSUME NEW k \in DOMAIN Packets PROVE Bytes(k) \in Seq(Byte)
  <2>1. Packets[k] \in Packet
    BY <1>1
  <2>2. h5_encode(Packets[k]) \in Seq(Byte)
    BY CrcIsWord, <2>1, EncodeType
  <2> DEFINE s == h5_encode(Packets[k])
             e == Escaped(s)
  <2>3. e \in Seq(Byte)
    BY <2>2, EscapedFacts
  <2>4. Bytes(k) = <<END>> \o e \o <<END>> /\ <<END>> \in Seq(Byte)
    BY ByteFacts DEF Bytes, slip_encode
  <2> HIDE DEF e
  <2>5. QED BY <2>3, <2>4
<1>3. Pieces = [k \in 1..Len(Packets) |-> Bytes(k)]
  BY <1>1 DEF Pieces
<1>4. QED BY <1>1, <1>2, <1>3

LEMMA DamagedType ==
    ASSUME NEW bytes \in Seq(Byte)
    PROVE  Damaged(bytes) \subseteq Seq(Byte)
<1>1. ASSUME NEW i \in DOMAIN bytes, NEW b \in Noise
      PROVE  ReplaceAt(bytes, i, b) \in Seq(Byte) /\ InsertAt(bytes, i, b) \in Seq(Byte)
  <2>1. b \in Byte /\ i \in 1..Len(bytes) /\ Len(bytes) \in Nat
    BY NoiseAssumption
  <2>2. SubSeq(bytes, 1, i - 1) \in Seq(Byte) /\ SubSeq(bytes, i, Len(bytes)) \in Seq(Byte) /\ <<b>> \in Seq(Byte)
    BY <2>1
  <2>3. InsertAt(bytes, i, b) \in Seq(Byte)
    BY <2>2 DEF InsertAt
  <2>4. ReplaceAt(bytes, i, b) \in Seq(Byte)
    BY <2>1, ExceptSeq DEF ReplaceAt
  <2>5. QED BY <2>3, <2>4
<1>2. ASSUME NEW i \in DOMAIN bytes PROVE RemoveAt(bytes, i) \in Seq(Byte)
  <2>1. i \in 1..Len(bytes) /\ Len(bytes) \in Nat
    OBVIOUS
  <2>2. SubSeq(bytes, 1, i - 1) \in Seq(Byte) /\ SubSeq(bytes, i + 1, Len(bytes)) \in Seq(Byte)
    BY <2>1
  <2>3. QED BY <2>2 DEF RemoveAt
<1>3. QED BY <1>1, <1>2 DEF Damaged

(* Packet k is other bytes.                                                *)
Replaced(k, bytes) == [Pieces EXCEPT ![k] = bytes]

(* Every line is a session.                                                *)
LEMMA LinesAreSessions ==
    ASSUME CrcIsWord, Line, NEW h \in Held, h[3] = <<>>, ~h[2]
    PROVE  \E ps : Session(h, ps, hit) /\ line = Joined(ps)
<1>0. Pieces \in Seq(Seq(Byte)) /\ Len(Pieces) = Len(Packets) /\ DOMAIN Packets = 1..Len(Packets)
      /\ \A k \in DOMAIN Packets : Pieces[k] = Bytes(k) /\ Bytes(k) \in Seq(Byte)
  BY CrcIsWord, PiecesType
<1>1. ASSUME NEW k \in DOMAIN Packets, NEW bytes \in Seq(Byte)
      PROVE  /\ Replaced(k, bytes) \in Seq(Seq(Byte)) /\ Len(Replaced(k, bytes)) = Len(Packets)
             /\ With(k, bytes) = Joined(Replaced(k, bytes))
             /\ \A j \in DOMAIN Packets : Replaced(k, bytes)[j] = IF j = k THEN bytes ELSE Bytes(j)
  <2>1. Replaced(k, bytes) \in Seq(Seq(Byte)) /\ Len(Replaced(k, bytes)) = Len(Packets)
    BY <1>0, ExceptSeq DEF Replaced
  <2>2. \A j \in DOMAIN Packets : Replaced(k, bytes)[j] = IF j = k THEN bytes ELSE Bytes(j)
    BY <1>0, ExceptSeq DEF Replaced
  <2>3. With(k, bytes) = Joined(Replaced(k, bytes))
    BY DEF With, Replaced
  <2>4. QED BY <2>1, <2>2, <2>3
<1>2. CASE line = AllBytes /\ hit = {}
  <2>1. Session(h, Pieces, {})
    BY <1>0 DEF Session
  <2>2. QED BY <1>2, <2>1 DEF AllBytes
<1>3. ASSUME NEW k \in DOMAIN Packets, NEW bytes \in Damaged(Bytes(k)), line = With(k, bytes), hit = {k}
      PROVE  \E ps : Session(h, ps, hit) /\ line = Joined(ps)
  <2> DEFINE ps == Replaced(k, bytes)
  <2>1. bytes \in Seq(Byte)
    BY <1>0, DamagedType
  <2>2. /\ ps \in Seq(Seq(Byte)) /\ Len(ps) = Len(Packets) /\ With(k, bytes) = Joined(ps)
        /\ \A j \in DOMAIN Packets : ps[j] = IF j = k THEN bytes ELSE Bytes(j)
    BY <1>1, <2>1
  <2> HIDE DEF ps
  <2>3. Session(h, ps, {k})
    BY <2>2 DEF Session
  <2>4. QED BY <1>3, <2>2, <2>3
<1>4. ASSUME NEW k \in DOMAIN Packets, NEW b \in Noise, line = With(k, <<b>> \o Bytes(k)), hit = {}
      PROVE  \E ps : Session(h, ps, hit) /\ line = Joined(ps)
  <2> DEFINE bytes == <<b>> \o Bytes(k)
             ps == Replaced(k, bytes)
  <2>1. bytes \in Seq(Byte) /\ b \in Byte
    <3>1. b \in Byte /\ <<b>> \in Seq(Byte) /\ Bytes(k) \in Seq(Byte)
      BY <1>0, NoiseAssumption
    <3>2. QED BY <3>1
  <2> HIDE DEF bytes
  <2>2. /\ ps \in Seq(Seq(Byte)) /\ Len(ps) = Len(Packets) /\ With(k, bytes) = Joined(ps)
        /\ \A j \in DOMAIN Packets : ps[j] = IF j = k THEN bytes ELSE Bytes(j)
    BY <1>1, <2>1
  <2> HIDE DEF ps
  <2>3. Session(h, ps, {})
    BY <2>1, <2>2 DEF Session, bytes
  <2>4. line = Joined(ps)
    BY <1>4, <2>2 DEF bytes
  <2>5. QED BY <1>4, <2>3, <2>4
<1>5. QED BY <1>2, <1>3, <1>4 DEF Line

-----------------------------------------------------------------------------
(* The stream.                                                             *)

(* dataHandler() has taken the first bytes of a session.                   *)
WithinSession ==
    \E h, ps, done :
       /\ Session(h, ps, hit)
       /\ done \in Seq(Byte) /\ line \in Seq(Byte) /\ Joined(ps) = done \o line
       /\ <<unprocessedData, c0Found, accepted>> = Over(h, done)

LEMMA StateType ==
    ASSUME WithinSession
    PROVE  unprocessedData \in Seq(Byte) /\ c0Found \in BOOLEAN /\ accepted \in Seq(Packet) /\ line \in Seq(Byte)
<1>1. <<unprocessedData, c0Found, accepted>> \in Held /\ line \in Seq(Byte)
  BY OverFacts DEF WithinSession, Session
<1>2. QED BY <1>1 DEF Held

LEMMA NothingDone ==
    ASSUME NEW h \in Held, NEW bytes \in Seq(Byte)
    PROVE  \E done \in Seq(Byte) : bytes = done \o bytes /\ h = Over(h, done)
<1> DEFINE done == <<>>
<1>1. done \in Seq(Byte) /\ bytes = done \o bytes /\ h = Over(h, done)
  BY OverFacts, ConcatEmptySeq
<1> HIDE DEF done
<1>2. QED BY <1>1

LEMMA StreamInitInv ==
    ASSUME CrcIsWord, StreamInit
    PROVE  WithinSession
<1> DEFINE h == <<<<>>, FALSE, <<>>>>
<1>1. h \in Held /\ h[3] = <<>> /\ ~h[2] /\ h = <<unprocessedData, c0Found, accepted>>
  <2>1. <<>> \in Seq(Byte) /\ <<>> \in Seq(Packet)
    OBVIOUS
  <2>2. h \in Held
    BY <2>1 DEF Held
  <2>3. h = <<unprocessedData, c0Found, accepted>>
    BY DEF StreamInit
  <2>4. \A x, y, z : <<x, y, z>>[2] = y /\ <<x, y, z>>[3] = z
    OBVIOUS
  <2>5. QED BY <2>2, <2>3, <2>4, Zenon
<1>2. Line
  BY DEF StreamInit
<1> HIDE DEF h
<1>3. PICK ps : Session(h, ps, hit) /\ line = Joined(ps)
  BY CrcIsWord, <1>1, <1>2, LinesAreSessions
<1>4. line \in Seq(Byte)
  BY <1>3, JoinedFacts DEF Session
<1>5. PICK done \in Seq(Byte) : line = done \o line /\ h = Over(h, done)
  BY <1>1, <1>4, NothingDone
<1>6. QED BY <1>1, <1>3, <1>4, <1>5 DEF WithinSession

LEMMA ReopenInv ==
    ASSUME CrcIsWord, WithinSession, Reopen
    PROVE  WithinSession'
<1> DEFINE h == <<unprocessedData, c0Found, <<>>>>
<1>1. unprocessedData \in Seq(Byte) /\ c0Found \in BOOLEAN
  BY StateType
<1>2. h \in Held /\ h[3] = <<>>
  <2>1. <<>> \in Seq(Packet)
    OBVIOUS
  <2>2. h \in Held
    BY <1>1, <2>1 DEF Held
  <2>3. \A x, y, z : <<x, y, z>>[3] = z
    OBVIOUS
  <2>4. QED BY <2>2, <2>3, Zenon
<1>3. h = <<unprocessedData', c0Found', accepted'>> /\ line' = AllBytes /\ hit' = {0}
  BY DEF Reopen
<1> HIDE DEF h
<1>4. Session(h, Pieces, {0}) /\ AllBytes = Joined(Pieces)
  BY CrcIsWord, <1>2, PiecesType DEF Session, AllBytes
<1>5. AllBytes \in Seq(Byte)
  BY <1>4, JoinedFacts DEF Session
<1>6. PICK done \in Seq(Byte) : AllBytes = done \o AllBytes /\ h = Over(h, done)
  BY <1>2, <1>5, NothingDone
<1>7. QED BY <1>3, <1>4, <1>5, <1>6 DEF WithinSession

LEMMA DataHandlerInv ==
    ASSUME WithinSession, NEW n \in Lengths, dataHandler(n)
    PROVE  WithinSession'
<1> DEFINE data == SubSeq(line, 1, n)
           rest == SubSeq(line, n + 1, Len(line))
           now  == <<unprocessedData, c0Found, accepted>>
           next == <<unprocessedData', c0Found', accepted'>>
<1>1. PICK h, ps, done : /\ Session(h, ps, hit)
                         /\ done \in Seq(Byte) /\ line \in Seq(Byte) /\ Joined(ps) = done \o line
                         /\ now = Over(h, done)
  BY DEF WithinSession
<1>2. n \in Nat /\ n <= Len(line) /\ line' = rest /\ hit' = hit
  BY LengthsAssumption DEF dataHandler
<1>3. data \in Seq(Byte) /\ rest \in Seq(Byte) /\ line = data \o rest
  BY <1>1, <1>2, SplitAt
<1>4. h \in Held /\ now \in Held
  BY <1>1, OverFacts DEF Session
<1>5. next = Over(now, data)
  <2> DEFINE k == Handled(unprocessedData, c0Found, accepted, data)
  <2>1. Over(now, data) = k
    BY DEF Over
  <2>2. unprocessedData' = k[1] /\ c0Found' = k[2] /\ accepted' = k[3]
    BY DEF dataHandler
  <2>3. k \in Held
    <3> HIDE DEF k, data, now
    <3>1. QED BY <1>3, <1>4, <2>1, OverFacts
  <2> HIDE DEF k
  <2>4. k = <<k[1], k[2], k[3]>>
    BY <2>3 DEF Held
  <2>5. QED BY <2>1, <2>2, <2>4
<1> HIDE DEF data, rest, now, next
<1>6. done \o data \in Seq(Byte) /\ Joined(ps) = (done \o data) \o rest
  <2>1. done \o data \in Seq(Byte) /\ Regrouped(done, data, rest)
    BY <1>1, <1>3, Chained
  <2>2. Joined(ps) = done \o (data \o rest)
    BY <1>1, <1>3
  <2>3. QED BY <2>1, <2>2 DEF Regrouped
<1>7. Over(h, done \o data) = Over(Over(h, done), data)
  BY <1>1, <1>3, <1>4, OverJoined
<1>8. next = Over(h, done \o data)
  BY <1>1, <1>5, <1>7
<1>9. QED BY <1>1, <1>2, <1>3, <1>6, <1>8 DEF WithinSession, next

LEMMA StreamInv ==
    ASSUME CrcIsWord
    PROVE  Stream => []WithinSession
<1>1. StreamInit => WithinSession
  BY CrcIsWord, StreamInitInv
<1>2. WithinSession /\ [StreamNext]_stream => WithinSession'
  <2> SUFFICES ASSUME WithinSession, [StreamNext]_stream PROVE WithinSession'
    OBVIOUS
  <2>1. CASE Reopen
    BY CrcIsWord, <2>1, ReopenInv
  <2>2. ASSUME NEW n \in Lengths, dataHandler(n) PROVE WithinSession'
    BY <2>2, DataHandlerInv
  <2>3. CASE UNCHANGED stream
    BY <2>3 DEF WithinSession, stream
  <2>4. QED BY <2>1, <2>2, <2>3 DEF StreamNext
<1>3. QED BY <1>1, <1>2, PTL DEF Stream

(* The serial port may cut the stream anywhere, within a packet or between *)
(* an escape and its code: a call of dataHandler() does what one call for  *)
(* each of its bytes does.                                                 *)
THEOREM CutsNeverMatter ==
    ASSUME CrcIsWord
    PROVE  Stream => CutsDoNotMatter
<1> DEFINE Uncut == \A n \in Lengths : dataHandler(n) =>
                    <<unprocessedData', c0Found', accepted'>> =
                      OneByOne(unprocessedData, c0Found, accepted, SubSeq(line, 1, n))
<1>1. WithinSession => Uncut
  <2> SUFFICES ASSUME WithinSession, NEW n \in Lengths, dataHandler(n)
               PROVE  <<unprocessedData', c0Found', accepted'>> =
                        OneByOne(unprocessedData, c0Found, accepted, SubSeq(line, 1, n))
    OBVIOUS
  <2> DEFINE data == SubSeq(line, 1, n)
             k == Handled(unprocessedData, c0Found, accepted, data)
  <2>1. unprocessedData \in Seq(Byte) /\ c0Found \in BOOLEAN /\ accepted \in Seq(Packet) /\ line \in Seq(Byte)
    BY StateType
  <2>2. n \in Nat /\ n <= Len(line)
    BY LengthsAssumption DEF dataHandler
  <2>3. data \in Seq(Byte)
    BY <2>1, <2>2, SplitAt
  <2>4. unprocessedData' = k[1] /\ c0Found' = k[2] /\ accepted' = k[3]
    BY DEF dataHandler
  <2> HIDE DEF data
  <2>5. k \in Held /\ k = OneByOne(unprocessedData, c0Found, accepted, data)
    BY <2>1, <2>3, HandledFacts, CutsAsOne
  <2> HIDE DEF k
  <2>6. k = <<k[1], k[2], k[3]>>
    BY <2>5 DEF Held
  <2>7. QED BY <2>4, <2>5, <2>6 DEF data
<1>2. Stream => []WithinSession
  BY CrcIsWord, StreamInv
<1>3. Stream => [][Uncut]_stream
  <2>1. WithinSession /\ [StreamNext]_stream => [Uncut]_stream
    BY <1>1
  <2>2. QED BY <1>2, <2>1, PTL DEF Stream
<1>4. QED BY <1>3 DEF CutsDoNotMatter

(* What dataHandler() has done with a session that is over.                *)
LEMMA AtTheEnd ==
    ASSUME CrcIsWord, WithinSession
    PROVE  /\ line = <<>> => SoFar(<<unprocessedData, c0Found, accepted>>, hit, Len(Packets))
           /\ hit = {} => Extends(Packets, accepted)
<1> DEFINE now == <<unprocessedData, c0Found, accepted>>
<1>1. PICK h, ps, done : /\ Session(h, ps, hit)
                         /\ done \in Seq(Byte) /\ line \in Seq(Byte) /\ Joined(ps) = done \o line
                         /\ now = Over(h, done)
  BY DEF WithinSession
<1>2. SoFar(Over(h, Joined(ps)), hit, Len(Packets))
  BY CrcIsWord, <1>1, SessionFacts
<1>3. h \in Held /\ now \in Held /\ now[3] = accepted
  <2>1. h \in Held
    BY <1>1 DEF Session
  <2>2. now \in Held
    BY <1>1, <2>1, OverFacts
  <2>3. QED BY <2>1, <2>2
<1>4. Over(h, Joined(ps)) = Over(now, line)
  <2> HIDE DEF now
  <2>1. Over(h, done \o line) = Over(Over(h, done), line)
    BY <1>1, <1>3, OverJoined
  <2>2. QED BY <1>1, <2>1
<1> HIDE DEF now
<1>5. ASSUME line = <<>> PROVE SoFar(now, hit, Len(Packets))
  <2>1. Over(now, line) = now
    BY <1>3, <1>5, OverFacts
  <2>2. QED BY <1>2, <1>4, <2>1
<1>6. ASSUME hit = {} PROVE Extends(Packets, accepted)
  <2>1. Extends(Over(now, line)[3], now[3])
    BY <1>1, <1>3, OverExtends
  <2>2. Over(now, line)[3] = SubSeq(Packets, 1, Len(Packets))
    BY <1>2, <1>4, <1>6 DEF SoFar
  <2>3. SubSeq(Packets, 1, Len(Packets)) = Packets
    BY PacketsAssumption, SubSeqFull
  <2>4. QED BY <1>3, <2>1, <2>2, <2>3
<1>7. QED BY <1>5, <1>6 DEF now

(* dataHandler() finds the start of the packets again, whatever the line   *)
(* damages and wherever a session ends: only the damaged packet and the    *)
(* next one can be lost.                                                   *)
THEOREM OnlyNextIsLost ==
    ASSUME CrcIsWord
    PROVE  Stream => []OnlyNextLost
<1>1. WithinSession => OnlyNextLost
  <2> SUFFICES ASSUME WithinSession, line = <<>>, NEW k \in DOMAIN Packets, {k, k - 1} \cap hit = {}
               PROVE  Packets[k] \in ToSet(accepted)
    BY DEF OnlyNextLost
  <2>1. SoFar(<<unprocessedData, c0Found, accepted>>, hit, Len(Packets))
    BY CrcIsWord, AtTheEnd
  <2>2. k \in 1..Len(Packets)
    BY PacketsAssumption
  <2>3. <<unprocessedData, c0Found, accepted>>[3] = accepted
    OBVIOUS
  <2>4. QED BY <2>1, <2>2, <2>3 DEF SoFar
<1>2. Stream => []WithinSession
  BY CrcIsWord, StreamInv
<1>3. QED BY <1>1, <1>2, PTL

(* A session that begins without c0Found, of which no packet is damaged:   *)
(* the packets that processPacket() goes on with are those that were sent, *)
(* all of them, in order and once, also with a byte between two of them.   *)
AcceptedAsSent ==
    hit = {} => /\ Extends(Packets, accepted)
                /\ line = <<>> => accepted = Packets

THEOREM UndamagedSession ==
    ASSUME CrcIsWord
    PROVE  Stream => []AcceptedAsSent
<1>1. WithinSession => AcceptedAsSent
  <2> SUFFICES ASSUME WithinSession, hit = {}
               PROVE  Extends(Packets, accepted) /\ (line = <<>> => accepted = Packets)
    BY DEF AcceptedAsSent
  <2>1. Extends(Packets, accepted)
    BY CrcIsWord, AtTheEnd
  <2>2. ASSUME line = <<>> PROVE accepted = Packets
    <3>1. SoFar(<<unprocessedData, c0Found, accepted>>, hit, Len(Packets))
      BY CrcIsWord, <2>2, AtTheEnd
    <3>2. <<unprocessedData, c0Found, accepted>>[3] = accepted
      OBVIOUS
    <3>3. accepted = SubSeq(Packets, 1, Len(Packets))
      BY <3>1, <3>2 DEF SoFar
    <3>4. QED BY <3>3, PacketsAssumption, SubSeqFull
  <2>3. QED BY <2>1, <2>2
<1>2. Stream => []WithinSession
  BY CrcIsWord, StreamInv
<1>3. QED BY <1>1, <1>2, PTL
=============================================================================
