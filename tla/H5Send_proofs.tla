---------------------------- MODULE H5Send_proofs ----------------------------
(***************************************************************************)
(* Proofs about H5Transport::send(), for any modulus above two, any number *)
(* of retransmissions, calls and packets in flight: the types, that no     *)
(* irrecoverable sync error is ever raised, and that the link implements   *)
(* AtMostOnceChannel.                                                      *)
(***************************************************************************)
EXTENDS H5Send, TLAPS

-----------------------------------------------------------------------------
(* Sequence numbers and sequences.                                         *)

(* With more than two sequence numbers, the two after n differ from n.     *)
LEMMA IncFacts ==
    ASSUME NEW n \in SeqNums
    PROVE  Inc(n) \in SeqNums /\ Inc(n) # n /\ Inc(Inc(n)) # n
<1> USE ModulusAssumption DEF SeqNums
<1>1. ASSUME NEW m \in SeqNums
      PROVE  Inc(m) = IF m + 1 = Modulus THEN 0 ELSE m + 1
  <2>1. CASE m + 1 = Modulus
    BY <2>1 DEF Inc
  <2>2. CASE m + 1 < Modulus
    BY <2>2 DEF Inc
  <2>3. QED BY <2>1, <2>2
<1>2. Inc(n) \in SeqNums
  BY <1>1
<1>3. QED BY <1>1, <1>2

LEMMA AppendFacts ==
    ASSUME NEW S, NEW s \in Seq(S), NEW e \in S
    PROVE  /\ Append(s, e) \in Seq(S)
           /\ Len(Append(s, e)) = Len(s) + 1
           /\ \A i \in 1..Len(s) : Append(s, e)[i] = s[i]
           /\ Append(s, e)[Len(s) + 1] = e
  OBVIOUS

LEMMA TailFacts ==
    ASSUME NEW S, NEW s \in Seq(S), s # <<>>
    PROVE  /\ Tail(s) \in Seq(S)
           /\ Len(Tail(s)) = Len(s) - 1
           /\ Len(s) \in Nat \ {0}
           /\ \A i \in 1..Len(Tail(s)) : Tail(s)[i] = s[i + 1]
           /\ Head(s) = s[1] /\ Head(s) \in S
  OBVIOUS

(* A transmission that fails leaves the line as it is, or its packet on it. *)
FailsUnsent == TransmitFails /\ UNCHANGED toDevice
FailsSent   == TransmitFails /\ toDevice' = Append(toDevice, Transmitted)

LEMMA FailsCases == TransmitFails => FailsUnsent \/ FailsSent
  BY DEF TransmitFails, FailsUnsent, FailsSent

-----------------------------------------------------------------------------
(* Types.                                                                  *)

LEMMA InitType == Init => TypeOK
<1> SUFFICES ASSUME Init PROVE TypeOK
  OBVIOUS
<1>1. 0 \in SeqNums /\ 0 \in 0..MaxCommands /\ 0 \in 0..PacketRetransmissions
  BY BoundsAssumption, ModulusAssumption DEF SeqNums
<1>2. lastPacket \in Frames
  BY <1>1 DEF Init, Frames
<1>3. toDevice \in Seq(Frames) /\ toHost \in Seq(SeqNums) /\ received \in Seq(0..MaxCommands)
  BY DEF Init
<1>4. QED
  BY <1>1, <1>2, <1>3 DEF Init, TypeOK

LEMMA StepType == TypeOK /\ [Next]_vars => TypeOK'
<1> SUFFICES ASSUME TypeOK, [Next]_vars PROVE TypeOK'
  OBVIOUS
<1> USE BoundsAssumption DEF TypeOK, hostVars, deviceVars
<1>1. CASE Send
  BY <1>1 DEF Send, Frames
<1>2. CASE Snapshot
  BY <1>2 DEF Snapshot, Countdown
<1>3. CASE GiveUp
  BY <1>3 DEF GiveUp
<1>4. CASE Transmit
  <2>1. toDevice' \in Seq(Frames)
    BY <1>4, AppendFacts DEF Transmit, Transmitted
  <2>2. QED BY <1>4, <2>1 DEF Transmit
<1>5. CASE TransmitFails
  <2>1. toDevice' \in Seq(Frames)
    <3>1. toDevice' \in {toDevice, Append(toDevice, lastPacket)}
      BY <1>5 DEF TransmitFails, Transmitted
    <3>2. Append(toDevice, lastPacket) \in Seq(Frames)
      BY AppendFacts
    <3>3. QED BY <3>1, <3>2
  <2>2. QED BY <1>5, <2>1 DEF TransmitFails
<1>6. CASE Acknowledged \/ TimedOut
  BY <1>6 DEF Acknowledged, TimedOut
<1>7. CASE ProcessAck
  BY <1>7, TailFacts, IncFacts DEF ProcessAck, NextSeqNum, Irrecoverable
<1>8. CASE LosePacket
  BY <1>8, TailFacts DEF LosePacket
<1>9. CASE LoseAck
  BY <1>9, TailFacts DEF LoseAck
<1>10. CASE DeviceReceive
  <2>1. Tail(toDevice) \in Seq(Frames) /\ Head(toDevice) \in Frames
    BY <1>10, TailFacts DEF DeviceReceive
  <2>2. expected' \in SeqNums /\ received' \in Seq(0..MaxCommands)
    <3>1. CASE Head(toDevice).seq = expected
      <4>1. Head(toDevice).cmd \in 0..MaxCommands
        BY <2>1 DEF Frames
      <4>2. expected' = Inc(expected) /\ received' = Append(received, Head(toDevice).cmd)
        BY <1>10, <3>1 DEF DeviceReceive
      <4>3. QED BY <4>1, <4>2, AppendFacts, IncFacts
    <3>2. CASE Head(toDevice).seq # expected
      BY <1>10, <3>2 DEF DeviceReceive
    <3>3. QED BY <3>1, <3>2
  <2>3. toHost' \in Seq(SeqNums)
    BY <1>10, <2>2, AppendFacts DEF DeviceReceive
  <2>4. QED BY <1>10, <2>1, <2>2, <2>3 DEF DeviceReceive
<1>11. CASE UNCHANGED vars
  BY <1>11 DEF vars
<1>12. QED
  BY <1>1, <1>2, <1>3, <1>4, <1>5, <1>6, <1>7, <1>8, <1>9, <1>10, <1>11
  DEF Next, Resume, Link

(* Every variable of send(), the line and the device keeps its type.       *)
THEOREM TypeCorrect == Spec => []TypeOK
<1>1. QED BY InitType, StepType, PTL DEF Spec

-----------------------------------------------------------------------------
(* The sequence numbers on the line.  A packet carries seqNum or the       *)
(* number before it, an ack carries seqNum or the number after it; once    *)
(* the device has moved on no older packet is left, and once an ack of the *)
(* packet waited for is on the line no older ack follows it.               *)

SenderInv ==
    sender # "idle" =>
        \/ lastPacket.seq = seqNum
        \/ /\ Inc(lastPacket.seq) = seqNum
           /\ expected = seqNum
           /\ \A i \in 1..Len(toDevice) : toDevice[i].seq = lastPacket.seq

PacketInv ==
    /\ \A i \in 1..Len(toDevice) :
          toDevice[i].seq = seqNum \/ Inc(toDevice[i].seq) = seqNum
    /\ \A i, j \in 1..Len(toDevice) :
          i <= j /\ toDevice[i].seq = seqNum => toDevice[j].seq = seqNum
    /\ expected = Inc(seqNum) =>
          \A i \in 1..Len(toDevice) : toDevice[i].seq = seqNum

AckInv ==
    /\ \A i \in 1..Len(toHost) :
          \/ toHost[i] = seqNum
          \/ toHost[i] = Inc(seqNum) /\ expected = Inc(seqNum)
    /\ \A i, j \in 1..Len(toHost) :
          i <= j /\ toHost[i] = Inc(seqNum) => toHost[j] = Inc(seqNum)

SeqInv ==
    /\ expected \in {seqNum, Inc(seqNum)}
    /\ SenderInv /\ PacketInv /\ AckInv
    /\ NoIrrecoverableSyncError

LEMMA InitSeqInv == Init => SeqInv
  BY DEF Init, SeqInv, SenderInv, PacketInv, AckInv, NoIrrecoverableSyncError

(* A packet that leaves the line takes nothing from what holds of the rest. *)
LEMMA PopPacket ==
  ASSUME Len(toDevice) \in Nat \ {0}, Len(toDevice') = Len(toDevice) - 1,
         \A i \in 1..Len(toDevice') : toDevice'[i] = toDevice[i + 1],
         UNCHANGED <<seqNum, expected>>, PacketInv
  PROVE  PacketInv'
<1>1. \A i \in 1..Len(toDevice') : i + 1 \in 1..Len(toDevice)
  OBVIOUS
<1>2. \A i \in 1..Len(toDevice') : toDevice'[i].seq = toDevice[i + 1].seq
  OBVIOUS
<1>3. \A i \in 1..Len(toDevice') :
          toDevice'[i].seq = seqNum' \/ Inc(toDevice'[i].seq) = seqNum'
  BY <1>1, <1>2 DEF PacketInv
<1>4. ASSUME NEW i \in 1..Len(toDevice'), NEW j \in 1..Len(toDevice'),
             i <= j, toDevice'[i].seq = seqNum'
      PROVE  toDevice'[j].seq = seqNum'
  <2>1. /\ i + 1 \in 1..Len(toDevice) /\ j + 1 \in 1..Len(toDevice) /\ i + 1 <= j + 1
        /\ toDevice[i + 1].seq = seqNum
    BY <1>1, <1>2, <1>4
  <2>2. toDevice[j + 1].seq = seqNum
    BY <2>1 DEF PacketInv
  <2>3. QED BY <1>2, <2>2
<1>5. expected' = Inc(seqNum') => \A i \in 1..Len(toDevice') : toDevice'[i].seq = seqNum'
  BY <1>1, <1>2 DEF PacketInv, Inc
<1>6. QED BY <1>3, <1>4, <1>5 DEF PacketInv, Inc

(* The same for an ack.                                                    *)
LEMMA PopAck ==
  ASSUME Len(toHost) \in Nat \ {0}, Len(toHost') = Len(toHost) - 1,
         \A i \in 1..Len(toHost') : toHost'[i] = toHost[i + 1],
         UNCHANGED <<seqNum, expected>>, AckInv
  PROVE  AckInv'
<1>1. \A i \in 1..Len(toHost') : i + 1 \in 1..Len(toHost)
  OBVIOUS
<1>2. Inc(seqNum)' = Inc(seqNum)
  BY DEF Inc
<1>3. ASSUME NEW i \in 1..Len(toHost')
      PROVE  toHost'[i] = seqNum' \/ (toHost'[i] = Inc(seqNum)' /\ expected' = Inc(seqNum)')
  <2>1. i + 1 \in 1..Len(toHost) /\ toHost'[i] = toHost[i + 1]
    BY <1>1
  <2>2. toHost[i + 1] = seqNum \/ (toHost[i + 1] = Inc(seqNum) /\ expected = Inc(seqNum))
    BY <2>1 DEF AckInv
  <2>3. QED BY <1>2, <2>1, <2>2
<1>4. ASSUME NEW i \in 1..Len(toHost'), NEW j \in 1..Len(toHost'),
             i <= j, toHost'[i] = Inc(seqNum)'
      PROVE  toHost'[j] = Inc(seqNum)'
  <2>1. /\ i + 1 \in 1..Len(toHost) /\ j + 1 \in 1..Len(toHost) /\ i + 1 <= j + 1
        /\ toHost[i + 1] = Inc(seqNum)
    BY <1>1, <1>2, <1>4
  <2>2. toHost[j + 1] = Inc(seqNum)
    BY <2>1 DEF AckInv
  <2>3. QED BY <1>2, <2>2
<1>5. QED BY <1>3, <1>4 DEF AckInv

LEMMA StepSeqInv == TypeOK /\ SeqInv /\ [Next]_vars => SeqInv'
<1> SUFFICES ASSUME TypeOK, SeqInv, [Next]_vars PROVE SeqInv'
  OBVIOUS
<1> USE DEF SeqInv, NoIrrecoverableSyncError, hostVars, deviceVars
<1>a. /\ Inc(seqNum) \in SeqNums /\ Inc(seqNum) # seqNum
      /\ Inc(Inc(seqNum)) \notin {seqNum, Inc(seqNum)}
  BY IncFacts DEF TypeOK
<1>b. toDevice \in Seq(Frames) /\ toHost \in Seq(SeqNums)
  BY DEF TypeOK
<1>1. CASE Send
  BY <1>1 DEF Send, SenderInv, PacketInv, AckInv
<1>2. CASE Snapshot \/ Acknowledged \/ TimedOut \/ GiveUp \/ FailsUnsent
  BY <1>2 DEF Snapshot, Acknowledged, TimedOut, GiveUp, FailsUnsent, TransmitFails,
              SenderInv, PacketInv, AckInv
<1>4. CASE Transmit \/ FailsSent
  <2>1. /\ Len(toDevice') = Len(toDevice) + 1
        /\ \A i \in 1..Len(toDevice) : toDevice'[i] = toDevice[i]
        /\ toDevice'[Len(toDevice) + 1] = lastPacket
        /\ Len(toDevice) \in Nat
    <3>1. toDevice' = Append(toDevice, lastPacket) /\ lastPacket \in Frames
      BY <1>4 DEF Transmit, FailsSent, Transmitted, TypeOK
    <3>2. QED BY <1>b, <3>1, AppendFacts
  <2>2. \A i \in 1..Len(toDevice') :
            \/ i \in 1..Len(toDevice) /\ toDevice'[i] = toDevice[i]
            \/ i = Len(toDevice) + 1 /\ toDevice'[i] = lastPacket
    BY <2>1
  <2>3. QED
    BY <1>4, <1>a, <2>1, <2>2 DEF Transmit, FailsSent, TransmitFails, SenderInv, PacketInv, AckInv
<1>7. CASE ProcessAck
  <2>1. /\ Len(toHost') = Len(toHost) - 1 /\ Len(toHost) \in Nat \ {0}
        /\ \A i \in 1..Len(toHost') : toHost'[i] = toHost[i + 1]
        /\ Head(toHost) = toHost[1]
    BY <1>7, <1>b, TailFacts DEF ProcessAck
  <2>2. \A i \in 1..Len(toHost') : i + 1 \in 1..Len(toHost)
    BY <2>1
  <2>3. CASE Head(toHost) = seqNum
    <3>1. UNCHANGED <<seqNum, irrecoverableSyncError, sender, lastPacket, expected, toDevice>>
      BY <1>7, <1>a, <2>3 DEF ProcessAck, NextSeqNum, Irrecoverable, TypeOK
    <3>2. SenderInv' /\ PacketInv'
      BY <3>1 DEF SenderInv, PacketInv, Inc
    <3>3. AckInv'
      BY <2>1, <3>1, PopAck
    <3>4. QED BY <3>1, <3>2, <3>3 DEF Inc
  <2>4. CASE Head(toHost) # seqNum
    <3>1. 1 \in 1..Len(toHost) /\ toHost[1] = Inc(seqNum) /\ expected = Inc(seqNum)
      BY <2>1, <2>4 DEF AckInv
    <3>2. seqNum' = Inc(seqNum) /\ ~irrecoverableSyncError'
      BY <1>7, <2>1, <3>1 DEF ProcessAck, NextSeqNum, Irrecoverable
    <3>3. \A i \in 1..Len(toHost') : toHost'[i] = seqNum'
      BY <2>1, <2>2, <3>1, <3>2 DEF AckInv
    <3>4. \A i \in 1..Len(toDevice) : toDevice[i].seq = seqNum
      BY <3>1 DEF PacketInv
    <3>5. sender # "idle" => lastPacket.seq = seqNum
      BY <1>a, <3>1 DEF SenderInv
    <3>6. UNCHANGED <<sender, lastPacket, expected, toDevice>>
      BY <1>7 DEF ProcessAck
    <3>7. SenderInv'
      BY <3>1, <3>2, <3>4, <3>5, <3>6 DEF SenderInv
    <3>8. PacketInv'
      BY <1>a, <3>1, <3>2, <3>4, <3>6 DEF PacketInv
    <3>9. AckInv'
      BY <1>a, <3>2, <3>3 DEF AckInv
    <3>10. QED BY <3>1, <3>2, <3>6, <3>7, <3>8, <3>9
  <2>5. QED BY <2>3, <2>4
<1>8. CASE LosePacket
  <2>1. /\ Len(toDevice') = Len(toDevice) - 1 /\ Len(toDevice) \in Nat \ {0}
        /\ \A i \in 1..Len(toDevice') : toDevice'[i] = toDevice[i + 1]
    BY <1>8, <1>b, TailFacts DEF LosePacket
  <2>2. \A i \in 1..Len(toDevice') : i + 1 \in 1..Len(toDevice)
    BY <2>1
  <2>3. UNCHANGED <<seqNum, expected, sender, lastPacket, irrecoverableSyncError, toHost>>
    BY <1>8 DEF LosePacket
  <2>4. PacketInv'
    BY <2>1, <2>3, PopPacket
  <2>5. SenderInv' /\ AckInv'
    BY <2>1, <2>2, <2>3 DEF SenderInv, AckInv
  <2>6. QED BY <2>3, <2>4, <2>5
<1>9. CASE LoseAck
  <2>1. /\ Len(toHost') = Len(toHost) - 1 /\ Len(toHost) \in Nat \ {0}
        /\ \A i \in 1..Len(toHost') : toHost'[i] = toHost[i + 1]
    BY <1>9, <1>b, TailFacts DEF LoseAck
  <2>2. UNCHANGED <<seqNum, expected, sender, lastPacket, irrecoverableSyncError, toDevice>>
    BY <1>9 DEF LoseAck
  <2>3. SenderInv' /\ PacketInv'
    BY <2>2 DEF SenderInv, PacketInv, Inc
  <2>4. AckInv'
    BY <2>1, <2>2, PopAck
  <2>5. QED BY <2>2, <2>3, <2>4 DEF Inc
<1>10. CASE DeviceReceive
  <2>1. /\ Len(toDevice') = Len(toDevice) - 1 /\ Len(toDevice) \in Nat \ {0}
        /\ \A i \in 1..Len(toDevice') : toDevice'[i] = toDevice[i + 1]
        /\ Head(toDevice) = toDevice[1]
    BY <1>10, <1>b, TailFacts DEF DeviceReceive
  <2>2. \A i \in 1..Len(toDevice') : i + 1 \in 1..Len(toDevice)
    BY <2>1
  <2>3. expected' \in SeqNums
    BY <1>10, StepType DEF TypeOK
  <2>4. /\ Len(toHost') = Len(toHost) + 1 /\ Len(toHost) \in Nat
        /\ \A i \in 1..Len(toHost) : toHost'[i] = toHost[i]
        /\ toHost'[Len(toHost) + 1] = expected'
    BY <1>10, <1>b, <2>3, AppendFacts DEF DeviceReceive
  <2>5. \A i \in 1..Len(toHost') :
            \/ i \in 1..Len(toHost) /\ toHost'[i] = toHost[i]
            \/ i = Len(toHost) + 1 /\ toHost'[i] = expected'
    BY <2>4
  <2>6. CASE Head(toDevice).seq = expected
    <3>1. expected = seqNum /\ expected' = Inc(seqNum)
      BY <1>10, <1>a, <2>1, <2>6 DEF DeviceReceive, PacketInv
    <3>2. \A i \in 1..Len(toDevice) : toDevice[i].seq = seqNum
      BY <2>1, <2>6, <3>1 DEF PacketInv
    <3>3. sender # "idle" => lastPacket.seq = seqNum
      BY <2>1, <3>2 DEF SenderInv
    <3>4. \A i \in 1..Len(toHost) : toHost[i] = seqNum
      BY <1>a, <3>1 DEF AckInv
    <3>5. UNCHANGED <<seqNum, sender, lastPacket, irrecoverableSyncError>>
      BY <1>10 DEF DeviceReceive
    <3>6. SenderInv'
      BY <3>3, <3>5 DEF SenderInv
    <3>7. PacketInv'
      <4>1. \A i \in 1..Len(toDevice') : toDevice'[i].seq = seqNum
        BY <2>1, <2>2, <3>2
      <4>2. QED BY <3>5, <4>1 DEF PacketInv, Inc
    <3>8. AckInv'
      <4>1. \A i \in 1..Len(toHost') :
                \/ i \in 1..Len(toHost) /\ toHost'[i] = seqNum
                \/ i = Len(toHost) + 1 /\ toHost'[i] = Inc(seqNum)
        BY <2>5, <3>1, <3>4
      <4>2. ASSUME NEW i \in 1..Len(toHost'), NEW j \in 1..Len(toHost'),
                   i <= j, toHost'[i] = Inc(seqNum)
            PROVE  toHost'[j] = Inc(seqNum)
        <5>1. i = Len(toHost) + 1
          BY <1>a, <4>1, <4>2
        <5>2. j = i
          BY <2>4, <4>2, <5>1
        <5>3. QED BY <4>2, <5>2
      <4>3. Inc(seqNum)' = Inc(seqNum)
        BY <3>5 DEF Inc
      <4>4. QED BY <3>1, <3>5, <4>1, <4>2, <4>3 DEF AckInv
    <3>9. QED BY <3>1, <3>5, <3>6, <3>7, <3>8
  <2>7. CASE Head(toDevice).seq # expected
    <3>1. UNCHANGED <<expected, seqNum, sender, lastPacket, irrecoverableSyncError>>
      BY <1>10, <2>7 DEF DeviceReceive
    <3>2. SenderInv'
      BY <2>1, <2>2, <3>1 DEF SenderInv
    <3>3. PacketInv'
      BY <2>1, <3>1, PopPacket
    <3>4. \A i \in 1..Len(toHost') :
              toHost'[i] = seqNum \/ (toHost'[i] = Inc(seqNum) /\ expected = Inc(seqNum))
      <4>1. \A i \in 1..Len(toHost) :
                toHost[i] = seqNum \/ (toHost[i] = Inc(seqNum) /\ expected = Inc(seqNum))
        BY DEF AckInv
      <4>2. QED BY <2>5, <3>1, <4>1
    <3>5. ASSUME NEW i \in 1..Len(toHost'), NEW j \in 1..Len(toHost'),
                 i <= j, toHost'[i] = Inc(seqNum)
          PROVE  toHost'[j] = Inc(seqNum)
      <4>1. expected = Inc(seqNum)
        BY <1>a, <3>4, <3>5
      <4>2. CASE j = Len(toHost) + 1
        BY <2>4, <3>1, <4>1, <4>2
      <4>3. CASE j \in 1..Len(toHost)
        <5>1. i \in 1..Len(toHost)
          BY <2>4, <3>5, <4>3
        <5>2. toHost[i] = Inc(seqNum)
          BY <2>4, <3>5, <5>1
        <5>3. toHost[j] = Inc(seqNum)
          BY <3>5, <4>3, <5>1, <5>2 DEF AckInv
        <5>4. QED BY <2>4, <4>3, <5>3
      <4>4. QED BY <2>5, <4>2, <4>3
    <3>6. AckInv'
      BY <3>1, <3>4, <3>5 DEF AckInv, Inc
    <3>7. QED BY <3>1, <3>2, <3>3, <3>6
  <2>8. QED BY <2>6, <2>7
<1>11. CASE UNCHANGED vars
  BY <1>11 DEF vars, SenderInv, PacketInv, AckInv
<1>12. QED
  BY <1>1, <1>2, <1>4, <1>7, <1>8, <1>9, <1>10, <1>11, FailsCases DEF Next, Resume, Link

(* However the acks of processPacket() are lost, late or repeated, none of *)
(* them makes it report an irrecoverable sync error.                       *)
THEOREM NeverIrrecoverable == Spec => []NoIrrecoverableSyncError
<1>1. TypeOK /\ SeqInv /\ [Next]_vars => TypeOK' /\ SeqInv'
  BY StepType, StepSeqInv
<1>2. SeqInv => NoIrrecoverableSyncError
  BY DEF SeqInv
<1>3. QED BY InitType, InitSeqInv, <1>1, <1>2, PTL DEF Spec

-----------------------------------------------------------------------------
(* The commands on the line.  They are in the order of the calls and none  *)
(* is older than the last command accepted; the packets that still carry   *)
(* that command have a sequence number the device no longer accepts.       *)

Last == Channel!Latest(received)

CallInv ==
    /\ lastPacket.cmd = command
    /\ Last <= command
    /\ Last = command /\ command > 0 => lastPacket.seq # expected
    /\ sender # "idle" => command > 0

RecentInv ==
    \A i \in 1..Len(toDevice) :
        /\ toDevice[i].cmd \in Last..command
        /\ toDevice[i].cmd > 0
        /\ toDevice[i].cmd = Last => toDevice[i].seq # expected
        /\ toDevice[i].cmd = command => toDevice[i] = lastPacket

SortedInv ==
    \A i, j \in 1..Len(toDevice) :
        i <= j => toDevice[i].cmd <= toDevice[j].cmd

SameSeqInv ==
    \A i, j \in 1..Len(toDevice) :
        toDevice[i].cmd = toDevice[j].cmd => toDevice[i].seq = toDevice[j].seq

OrderInv == RecentInv /\ SortedInv /\ SameSeqInv

LEMMA FrameFacts ==
    ASSUME NEW f \in Frames
    PROVE  f.seq \in SeqNums /\ f.cmd \in 0..MaxCommands /\ f.cmd \in Nat
  BY BoundsAssumption DEF Frames

LEMMA LastOfAppend ==
    ASSUME NEW s \in Seq(Nat), NEW n \in Nat
    PROVE  Channel!Latest(Append(s, n)) = n /\ Channel!Latest(s) \in Nat
  BY DEF Channel!Latest

LEMMA InitOrder == Init => CallInv /\ OrderInv
  BY DEF Init, CallInv, OrderInv, RecentInv, SortedInv, SameSeqInv, Last, Channel!Latest

(* Accepting a packet is the step Deliver of the abstract channel.         *)
LEMMA Accept ==
    ASSUME TypeOK, CallInv, OrderInv, DeviceReceive, Head(toDevice).seq = expected
    PROVE  /\ Head(toDevice).cmd \in (Last + 1)..command
           /\ received' = Append(received, Head(toDevice).cmd)
           /\ Last' = Head(toDevice).cmd
           /\ Channel!Deliver
<1>1. toDevice # <<>> /\ toDevice \in Seq(Frames) /\ received \in Seq(Nat) /\ command \in Nat
  BY BoundsAssumption DEF DeviceReceive, TypeOK
<1>2. Head(toDevice) = toDevice[1] /\ 1 \in 1..Len(toDevice) /\ Head(toDevice).cmd \in Nat
  BY <1>1, TailFacts, FrameFacts
<1>3. Last \in Nat
  BY <1>1, LastOfAppend DEF Last
<1>4. Head(toDevice).cmd \in (Last + 1)..command
  <2>1. toDevice[1].cmd \in Last..command /\ toDevice[1].cmd # Last
    BY <1>2 DEF OrderInv, RecentInv
  <2>2. QED BY <1>1, <1>2, <1>3, <2>1
<1>5. received' = Append(received, Head(toDevice).cmd) /\ command' = command
  BY DEF DeviceReceive, hostVars
<1>6. Last' = Head(toDevice).cmd
  BY <1>1, <1>2, <1>5, LastOfAppend DEF Last
<1>7. QED
  BY <1>4, <1>5, <1>6 DEF Channel!Deliver, Last

LEMMA StepOrder == TypeOK /\ CallInv /\ OrderInv /\ [Next]_vars => CallInv' /\ OrderInv'
<1> SUFFICES ASSUME TypeOK, CallInv, OrderInv, [Next]_vars PROVE CallInv' /\ OrderInv'
  OBVIOUS
<1> USE DEF hostVars, deviceVars
<1>a. /\ toDevice \in Seq(Frames) /\ received \in Seq(Nat) /\ lastPacket \in Frames
      /\ command \in Nat /\ Last \in Nat
  BY BoundsAssumption, LastOfAppend DEF TypeOK, Last
<1>b. \A i \in 1..Len(toDevice) : toDevice[i] \in Frames /\ toDevice[i].cmd \in Nat
  BY <1>a, FrameFacts
<1>1. CASE Send
  <2>1. UNCHANGED <<toDevice, Last, expected>> /\ command' = command + 1
        /\ lastPacket' = [seq |-> seqNum, cmd |-> command + 1]
    BY <1>1 DEF Send, Last
  <2>2. CallInv'
    BY <1>a, <2>1 DEF CallInv
  <2>3. SortedInv' /\ SameSeqInv'
    BY <2>1 DEF OrderInv, SortedInv, SameSeqInv
  <2>4. RecentInv'
    <3>1. ASSUME NEW i \in 1..Len(toDevice)
          PROVE  /\ toDevice[i].cmd \in Last..(command + 1) /\ toDevice[i].cmd > 0
                 /\ toDevice[i].cmd = Last => toDevice[i].seq # expected
                 /\ toDevice[i].cmd # command + 1
      <4>1. toDevice[i].cmd \in Last..command /\ toDevice[i].cmd \in Nat
        BY <1>b DEF OrderInv, RecentInv
      <4>2. QED BY <1>a, <4>1 DEF OrderInv, RecentInv
    <3>2. QED BY <2>1, <3>1 DEF RecentInv
  <2>5. QED BY <2>2, <2>3, <2>4 DEF OrderInv
<1>2. CASE Snapshot \/ Acknowledged \/ TimedOut \/ GiveUp \/ FailsUnsent \/ ProcessAck \/ LoseAck
           \/ UNCHANGED vars
  <2>1. /\ UNCHANGED <<toDevice, lastPacket, command, received, expected>>
        /\ sender' # "idle" => sender # "idle"
    BY <1>2 DEF Snapshot, Acknowledged, TimedOut, GiveUp, FailsUnsent, TransmitFails, ProcessAck,
                LoseAck, vars
  <2>2. QED BY <2>1 DEF CallInv, OrderInv, RecentInv, SortedInv, SameSeqInv, Last
<1>3. CASE Transmit \/ FailsSent
  <2>1. UNCHANGED <<lastPacket, command, received, expected, Last>>
    BY <1>3 DEF Transmit, FailsSent, TransmitFails, Last
  <2>2. /\ Len(toDevice') = Len(toDevice) + 1 /\ Len(toDevice) \in Nat
        /\ \A i \in 1..Len(toDevice) : toDevice'[i] = toDevice[i]
        /\ toDevice'[Len(toDevice) + 1] = lastPacket
    BY <1>3, <1>a, AppendFacts DEF Transmit, FailsSent, Transmitted
  <2>3. \A i \in 1..Len(toDevice') :
            \/ i \in 1..Len(toDevice) /\ toDevice'[i] = toDevice[i]
            \/ i = Len(toDevice) + 1 /\ toDevice'[i] = lastPacket
    BY <2>2
  <2>4. command > 0
    BY <1>3 DEF CallInv, Transmit, FailsSent, TransmitFails
  <2>5. CallInv'
    BY <2>1, <2>4 DEF CallInv
  <2>6. RecentInv'
    <3>1. lastPacket.cmd = command /\ Last <= command
          /\ (Last = command => lastPacket.seq # expected)
      BY <2>4 DEF CallInv
    <3>2. command \in Last..command
      BY <1>a, <3>1
    <3>3. ASSUME NEW i \in 1..Len(toDevice')
          PROVE  /\ toDevice'[i].cmd \in Last..command /\ toDevice'[i].cmd > 0
                 /\ toDevice'[i].cmd = Last => toDevice'[i].seq # expected
                 /\ toDevice'[i].cmd = command => toDevice'[i] = lastPacket
      <4>1. CASE i \in 1..Len(toDevice) /\ toDevice'[i] = toDevice[i]
        BY <4>1 DEF OrderInv, RecentInv
      <4>2. CASE toDevice'[i] = lastPacket
        BY <2>4, <3>1, <3>2, <4>2
      <4>3. QED BY <2>3, <4>1, <4>2
    <3>4. QED BY <2>1, <3>3 DEF RecentInv
  <2>7. SortedInv'
    <3>1. SUFFICES ASSUME NEW i \in 1..Len(toDevice'), NEW j \in 1..Len(toDevice'), i <= j
                   PROVE  toDevice'[i].cmd <= toDevice'[j].cmd
      BY DEF SortedInv
    <3>2. lastPacket.cmd = command
      BY DEF CallInv
    <3>3. CASE j \in 1..Len(toDevice)
      <4>1. i \in 1..Len(toDevice)
        BY <2>2, <3>1, <3>3
      <4>2. toDevice[i].cmd <= toDevice[j].cmd
        BY <3>1, <3>3, <4>1 DEF OrderInv, SortedInv
      <4>3. QED BY <2>2, <3>3, <4>1, <4>2
    <3>4. CASE j = Len(toDevice) + 1 /\ i \in 1..Len(toDevice)
      <4>1. toDevice[i].cmd \in Last..command
        BY <3>4 DEF OrderInv, RecentInv
      <4>2. toDevice[i].cmd <= command
        BY <1>a, <1>b, <3>4, <4>1
      <4>3. QED BY <2>2, <3>2, <3>4, <4>2
    <3>5. CASE j = Len(toDevice) + 1 /\ i = Len(toDevice) + 1
      BY <1>a, <2>2, <3>2, <3>5
    <3>6. QED BY <2>3, <3>3, <3>4, <3>5
  <2>8. SameSeqInv'
    <3>1. \A i \in 1..Len(toDevice) : toDevice[i].cmd = lastPacket.cmd =>
                                        toDevice[i].seq = lastPacket.seq
      BY DEF CallInv, OrderInv, RecentInv
    <3>2. QED BY <2>3, <3>1 DEF OrderInv, SameSeqInv
  <2>9. QED BY <2>5, <2>6, <2>7, <2>8 DEF OrderInv
<1>4. CASE LosePacket \/ DeviceReceive
  <2>1. /\ Len(toDevice') = Len(toDevice) - 1 /\ Len(toDevice) \in Nat \ {0}
        /\ \A i \in 1..Len(toDevice') : toDevice'[i] = toDevice[i + 1]
        /\ Head(toDevice) = toDevice[1]
    BY <1>4, <1>a, TailFacts DEF LosePacket, DeviceReceive
  <2>2. \A i \in 1..Len(toDevice') : i + 1 \in 1..Len(toDevice)
    BY <2>1
  <2>3. UNCHANGED <<lastPacket, command, sender>>
    BY <1>4 DEF LosePacket, DeviceReceive
  <2>4. SortedInv' /\ SameSeqInv'
    <3>1. SUFFICES ASSUME NEW i \in 1..Len(toDevice'), NEW j \in 1..Len(toDevice')
                   PROVE  /\ i <= j => toDevice'[i].cmd <= toDevice'[j].cmd
                          /\ toDevice'[i].cmd = toDevice'[j].cmd =>
                                 toDevice'[i].seq = toDevice'[j].seq
      BY DEF SortedInv, SameSeqInv
    <3>2. /\ i + 1 \in 1..Len(toDevice) /\ j + 1 \in 1..Len(toDevice)
          /\ toDevice'[i] = toDevice[i + 1] /\ toDevice'[j] = toDevice[j + 1]
          /\ i <= j => i + 1 <= j + 1
      BY <2>1, <2>2
    <3>3. QED BY <3>2 DEF OrderInv, SortedInv, SameSeqInv
  <2>5. CASE UNCHANGED <<received, expected>>
    <3>1. CallInv'
      BY <2>3, <2>5 DEF CallInv, Last
    <3>2. RecentInv'
      BY <2>1, <2>2, <2>3, <2>5 DEF OrderInv, RecentInv, Last
    <3>3. QED BY <2>4, <3>1, <3>2 DEF OrderInv
  <2>6. CASE DeviceReceive /\ Head(toDevice).seq = expected
    <3>1. Last' = toDevice[1].cmd /\ toDevice[1].cmd \in Last + 1..command
      BY <2>1, <2>6, Accept
    <3>2. expected' # toDevice[1].seq /\ 1 \in 1..Len(toDevice)
      BY <2>1, <2>6, IncFacts DEF DeviceReceive, TypeOK
    <3>3. CallInv'
      <4>1. toDevice[1].cmd = command => toDevice[1] = lastPacket
        BY <3>2 DEF OrderInv, RecentInv
      <4>2. QED BY <1>a, <2>3, <3>1, <3>2, <4>1 DEF CallInv
    <3>4. RecentInv'
      <4>1. SUFFICES ASSUME NEW i \in 1..Len(toDevice')
                     PROVE  /\ toDevice'[i].cmd \in Last'..command
                            /\ toDevice'[i].cmd > 0
                            /\ toDevice'[i].cmd = Last' => toDevice'[i].seq # expected'
                            /\ toDevice'[i].cmd = command => toDevice'[i] = lastPacket
        BY <2>3 DEF RecentInv
      <4>2. i + 1 \in 1..Len(toDevice) /\ 1 <= i + 1 /\ toDevice'[i] = toDevice[i + 1]
        BY <2>1, <2>2
      <4>3. toDevice[1].cmd <= toDevice[i + 1].cmd
        BY <3>2, <4>2 DEF OrderInv, SortedInv
      <4>4. toDevice[i + 1].cmd = toDevice[1].cmd => toDevice[i + 1].seq = toDevice[1].seq
        BY <3>2, <4>2 DEF OrderInv, SameSeqInv
      <4>5. /\ toDevice[i + 1].cmd \in Last..command /\ toDevice[i + 1].cmd > 0
            /\ toDevice[i + 1].cmd = command => toDevice[i + 1] = lastPacket
        BY <4>2 DEF OrderInv, RecentInv
      <4>6. QED BY <1>a, <3>1, <3>2, <4>2, <4>3, <4>4, <4>5
    <3>5. QED BY <2>4, <3>3, <3>4 DEF OrderInv
  <2>7. QED
    BY <1>4, <2>5, <2>6 DEF LosePacket, DeviceReceive
<1>5. QED
  BY <1>1, <1>2, <1>3, <1>4, FailsCases DEF Next, Resume, Link

(* Each step of the link is a step of the abstract channel or changes      *)
(* nothing it sees: commands arrive in order, none of them twice.          *)
THEOREM Refinement == Spec => ImplementsChannel
<1>1. Init => Channel!Init
  BY DEF Init, Channel!Init
<1>2. TypeOK /\ CallInv /\ OrderInv /\ [Next]_vars => [Channel!Next]_<<command, received>>
  <2> SUFFICES ASSUME TypeOK, CallInv, OrderInv, [Next]_vars
               PROVE  [Channel!Next]_<<command, received>>
    OBVIOUS
  <2> USE DEF hostVars, deviceVars
  <2>1. CASE Send
    BY <2>1 DEF Send, Channel!Next, Channel!Offer
  <2>2. CASE DeviceReceive
    <3>1. CASE Head(toDevice).seq = expected
      BY <2>2, <3>1, Accept DEF Channel!Next
    <3>2. CASE Head(toDevice).seq # expected
      BY <2>2, <3>2 DEF DeviceReceive
    <3>3. QED BY <3>1, <3>2
  <2>3. CASE ProcessAck \/ LosePacket \/ LoseAck \/ Resume \/ TransmitFails \/ UNCHANGED vars
    BY <2>3 DEF ProcessAck, LosePacket, LoseAck, Resume, Snapshot, GiveUp, Transmit, TransmitFails,
                Acknowledged, TimedOut, vars
  <2>4. QED BY <2>1, <2>2, <2>3 DEF Next, Link
<1>3. QED
  BY InitType, InitOrder, StepType, StepOrder, <1>1, <1>2, PTL
  DEF Spec, ImplementsChannel, Channel!Spec

-----------------------------------------------------------------------------
(* Until a call returns without its ack, the device has all commands but   *)
(* at most the last, which is then still sent with the number it expects;  *)
(* and a call compares seqNum with the number of its packet, or with one   *)
(* no ack will change.                                                     *)

UpTo(n) == [i \in 1..n |-> i]

CleanInv ==
    ~gaveUp =>
        /\ \/ received = UpTo(command)
           \/ /\ received = UpTo(command - 1)
              /\ sender # "idle"
              /\ expected = seqNum /\ lastPacket.seq = seqNum
        /\ sender = "idle" => expected = seqNum
        /\ sender \in {"transmit", "wait"} => seqNumBefore \in {lastPacket.seq, seqNum}

LEMMA UpToFacts ==
    ASSUME NEW n \in Nat
    PROVE  /\ UpTo(n) \in Seq(Nat) /\ Channel!Latest(UpTo(n)) = n
           /\ Append(UpTo(n), n + 1) = UpTo(n + 1)
<1>1. UpTo(n) \in Seq(Nat) /\ Len(UpTo(n)) = n /\ UpTo(n + 1) \in Seq(Nat) /\ Len(UpTo(n + 1)) = n + 1
  BY DEF UpTo
<1>2. Channel!Latest(UpTo(n)) = n
  <2>1. CASE n = 0
    <3>1. UpTo(n) = <<>>
      BY <1>1, <2>1
    <3>2. QED BY <2>1, <3>1 DEF Channel!Latest
  <2>2. CASE n # 0
    <3>1. UpTo(n) # <<>> /\ UpTo(n)[n] = n
      BY <1>1, <2>2 DEF UpTo
    <3>2. QED BY <1>1, <3>1 DEF Channel!Latest
  <2>3. QED BY <2>1, <2>2
<1>3. Append(UpTo(n), n + 1) = UpTo(n + 1)
  <2>1. /\ Append(UpTo(n), n + 1) \in Seq(Nat) /\ Len(Append(UpTo(n), n + 1)) = n + 1
        /\ \A i \in 1..n : Append(UpTo(n), n + 1)[i] = UpTo(n)[i]
        /\ Append(UpTo(n), n + 1)[n + 1] = n + 1
    BY <1>1, AppendFacts
  <2>2. \A i \in 1..(n + 1) : Append(UpTo(n), n + 1)[i] = i /\ UpTo(n + 1)[i] = i
    BY <2>1 DEF UpTo
  <2>3. QED BY <1>1, <2>1, <2>2
<1>4. QED BY <1>1, <1>2, <1>3

LEMMA InitClean == Init => CleanInv
<1>1. UpTo(0) = <<>>
  BY DEF UpTo
<1>2. QED BY <1>1 DEF Init, CleanInv

LEMMA StepClean ==
    TypeOK /\ SeqInv /\ CallInv /\ OrderInv /\ CleanInv /\ [Next]_vars => CleanInv'
<1> SUFFICES ASSUME TypeOK, SeqInv, CallInv, OrderInv, CleanInv, [Next]_vars, ~gaveUp'
             PROVE  CleanInv'
  BY DEF CleanInv
<1> USE DEF hostVars, deviceVars
<1>a. command \in Nat /\ seqNum \in SeqNums /\ Inc(seqNum) # seqNum
  BY BoundsAssumption, IncFacts DEF TypeOK
<1>b. ~gaveUp
  BY DEF Next, Resume, Link, Send, Snapshot, GiveUp, Transmit, TransmitFails, Acknowledged, TimedOut, ProcessAck,
         LosePacket, LoseAck, DeviceReceive, vars
<1>1. CASE Send
  <2>1. /\ sender = "idle" /\ received = UpTo(command) /\ expected = seqNum
        /\ command' = command + 1 /\ lastPacket' = [seq |-> seqNum, cmd |-> command']
        /\ sender' = "loop" /\ UNCHANGED <<received, expected, seqNum>>
    BY <1>1, <1>b DEF Send, CleanInv
  <2>2. command' - 1 = command /\ lastPacket'.seq = seqNum'
    BY <1>a, <2>1
  <2>3. received' = UpTo(command' - 1)
    BY <2>1, <2>2
  <2>4. QED BY <2>1, <2>2, <2>3 DEF CleanInv
<1>2. CASE Snapshot \/ Transmit \/ TimedOut
  <2>1. /\ UNCHANGED <<received, expected, seqNum, lastPacket, command>>
        /\ sender # "idle" /\ sender' # "idle"
        /\ sender' \in {"transmit", "wait"} =>
              seqNumBefore' = seqNum \/ (sender = "transmit" /\ seqNumBefore' = seqNumBefore)
    BY <1>2 DEF Snapshot, Transmit, TimedOut
  <2>2. QED BY <1>b, <2>1 DEF CleanInv
<1>3. CASE GiveUp \/ TransmitFails
  BY <1>3 DEF GiveUp, TransmitFails
<1>4. CASE Acknowledged
  <2>1. /\ sender = "wait" /\ seqNum # seqNumBefore /\ sender' = "idle"
        /\ UNCHANGED <<received, expected, seqNum, command>>
    BY <1>4 DEF Acknowledged
  <2>2. lastPacket.seq # seqNum
    BY <1>b, <2>1 DEF CleanInv
  <2>3. expected = seqNum
    BY <2>1, <2>2 DEF SeqInv, SenderInv
  <2>4. QED BY <1>b, <2>1, <2>2, <2>3 DEF CleanInv
<1>5. CASE ProcessAck
  <2>1. UNCHANGED <<received, expected, sender, lastPacket, command, seqNumBefore>>
    BY <1>5 DEF ProcessAck
  <2>2. CASE seqNum' = seqNum
    BY <1>b, <2>1, <2>2 DEF CleanInv
  <2>3. CASE seqNum' # seqNum
    <3>1. Head(toHost) = Inc(seqNum) /\ Head(toHost) = toHost[1] /\ 1 \in 1..Len(toHost)
      BY <1>5, <2>3, TailFacts DEF ProcessAck, NextSeqNum, TypeOK
    <3>2. expected = Inc(seqNum) /\ seqNum' = Inc(seqNum)
      BY <1>5, <1>a, <3>1 DEF SeqInv, AckInv, ProcessAck, NextSeqNum
    <3>3. expected # seqNum
      BY <1>a, <3>2
    <3>4. sender # "idle" /\ received = UpTo(command)
      BY <1>b, <3>3 DEF CleanInv
    <3>5. lastPacket.seq = seqNum
      BY <3>3, <3>4 DEF SeqInv, SenderInv
    <3>6. sender \in {"transmit", "wait"} => seqNumBefore = lastPacket.seq
      BY <1>b, <3>5 DEF CleanInv
    <3>7. QED BY <2>1, <3>4, <3>6 DEF CleanInv
  <2>4. QED BY <2>2, <2>3
<1>6. CASE DeviceReceive
  <2>1. UNCHANGED <<sender, lastPacket, command, seqNumBefore, seqNum>>
    BY <1>6 DEF DeviceReceive
  <2>2. CASE Head(toDevice).seq = expected
    <3>1. Head(toDevice).cmd \in (Last + 1)..command /\ received' = Append(received, Head(toDevice).cmd)
      BY <1>6, <2>2, Accept
    <3>2. Last \in Nat
      BY BoundsAssumption, LastOfAppend DEF TypeOK, Last
    <3>3. received # UpTo(command)
      <4>1. Last # command
        BY <1>a, <3>1, <3>2
      <4>2. QED BY <1>a, <4>1, UpToFacts DEF Last
    <3>4. received = UpTo(command - 1) /\ sender # "idle" /\ command - 1 \in Nat
      <4>1. received = UpTo(command - 1) /\ sender # "idle"
        BY <1>b, <3>3 DEF CleanInv
      <4>2. QED BY <1>a, <4>1 DEF CallInv
    <3>5. Last = command - 1
      BY <3>4, UpToFacts DEF Last
    <3>6. Head(toDevice).cmd = command
      BY <1>a, <3>1, <3>5
    <3>7. received' = UpTo(command)
      <4>1. Append(UpTo(command - 1), (command - 1) + 1) = UpTo((command - 1) + 1)
        BY <3>4, UpToFacts
      <4>2. (command - 1) + 1 = command
        BY <1>a
      <4>3. QED BY <3>1, <3>4, <3>6, <4>1, <4>2
    <3>8. QED BY <1>b, <2>1, <3>4, <3>7 DEF CleanInv
  <2>3. CASE Head(toDevice).seq # expected
    <3>1. UNCHANGED <<received, expected>>
      BY <1>6, <2>3 DEF DeviceReceive
    <3>2. QED BY <1>b, <2>1, <3>1 DEF CleanInv
  <2>4. QED BY <2>2, <2>3
<1>7. CASE LosePacket \/ LoseAck \/ UNCHANGED vars
  BY <1>7, <1>b DEF LosePacket, LoseAck, vars, CleanInv
<1>8. QED BY <1>1, <1>2, <1>3, <1>4, <1>5, <1>6, <1>7 DEF Next, Resume, Link

(* Until a call returns without its ack, with NO_RESPONSE or with an error *)
(* of the port, send() returns success for exactly the commands the device *)
(* has accepted, each once and in order, whatever is lost and however      *)
(* often a packet is sent again.                                           *)
THEOREM DeliveredOnce == Spec => []ExactlyOnce
<1>1. TypeOK /\ SeqInv /\ CallInv /\ OrderInv /\ CleanInv /\ [Next]_vars =>
          TypeOK' /\ SeqInv' /\ CallInv' /\ OrderInv' /\ CleanInv'
  BY StepType, StepSeqInv, StepOrder, StepClean
<1>2. CleanInv => ExactlyOnce
  BY DEF CleanInv, ExactlyOnce, UpTo
<1>3. QED BY InitType, InitSeqInv, InitOrder, InitClean, <1>1, <1>2, PTL DEF Spec
=============================================================================
