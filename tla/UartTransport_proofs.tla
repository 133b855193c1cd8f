------------------------ MODULE UartTransport_proofs ------------------------
(***************************************************************************)
(* Proofs about the write queue of UartTransport, for any number of        *)
(* threads, of frames and of sessions, the io thread sending too.  Until   *)
(* two threads have both found asyncWriteInProgress FALSE, at most one     *)
(* write is under way, of a buffer that nobody changes, frames leave in    *)
(* order and at most once, and none is lost until a write fails or the     *)
(* port is closed.  Whatever they find, none is forgotten in the queue.    *)
(***************************************************************************)
EXTENDS UartTransport, TLAPS

-----------------------------------------------------------------------------
(* The invariant.                                                          *)

Types ==
    /\ writeQueue \in Seq(Nat) /\ writeBufferVector \in Seq(Nat) /\ wire \in Seq(Nat)
    /\ queued \in Nat
    /\ pc \in [Threads -> {"idle", "queue", "test", "take", "start"}]

Busy(t) == pc[t] \in {"take", "start"}

(* There is a write under way or one thread in asyncWrite(), not both and  *)
(* not two, and asyncWriteInProgress tells as soon as the thread has moved *)
(* the queue; a write has its frames in the buffer.                        *)
WriteInv ==
    /\ \A t, u \in Threads : Busy(t) /\ Busy(u) => t = u
    /\ (\E t \in Threads : Busy(t)) => operations = <<>>
    /\ \/ operations = <<>>
       \/ \E out \in 0..Len(writeBufferVector) :
             operations = <<[frames |-> writeBufferVector, out |-> out]>>
    /\ ~asyncWriteInProgress =>
          operations = <<>> /\ \A t \in Threads : pc[t] # "start"
    /\ closing => CallersIdle

Newest == Channel!Latest(wire)

(* Frames wait in the order they were queued, those of the buffer before   *)
(* those of the queue, and what is still to go out is newer than what is.  *)
OrderInv ==
    /\ \A i, j \in 1..Len(writeQueue) : i < j => writeQueue[i] < writeQueue[j]
    /\ \A i \in 1..Len(writeQueue) : Newest < writeQueue[i] /\ writeQueue[i] <= queued
    /\ \A i, j \in 1..Len(writeBufferVector) : i < j => writeBufferVector[i] < writeBufferVector[j]
    /\ Newest <= queued /\ \A i \in 1..Len(writeBufferVector) : writeBufferVector[i] <= queued
    /\ \A i \in 1..Len(writeBufferVector), j \in 1..Len(writeQueue) :
          writeBufferVector[i] < writeQueue[j]
    /\ (\E t \in Threads : pc[t] = "start") =>
          \A i \in 1..Len(writeBufferVector) : Newest < writeBufferVector[i]
    /\ operations # <<>> =>
          \A i \in 1..Len(writeBufferVector) :
             operations[1].out < i => Newest < writeBufferVector[i]

IInv == Types /\ WriteInv /\ OrderInv

(* All of it holds until two threads have both gone on to asyncWrite().    *)
UntilOverlap == ~overlapped => IInv

-----------------------------------------------------------------------------
LEMMA RemoveOnly ==
    ASSUME NEW op, NEW i \in DOMAIN <<op>>
    PROVE  i = 1 /\ RemoveAt(<<op>>, i) = <<>>
<1>1. i = 1
  OBVIOUS
<1>2. RemoveAt(<<op>>, 1) = <<>>
  BY DEF RemoveAt
<1>3. QED BY <1>1, <1>2

LEMMA OutOfOnly ==
    ASSUME NEW frames, NEW out, NEW i \in DOMAIN <<[frames |-> frames, out |-> out]>>
    PROVE  [<<[frames |-> frames, out |-> out]>> EXCEPT ![i].out = @ + 1]
              = <<[frames |-> frames, out |-> out + 1]>>
  OBVIOUS

LEMMA GotoFacts ==
    ASSUME pc \in [Threads -> {"idle", "queue", "test", "take", "start"}], NEW t \in Threads,
           NEW stage \in {"idle", "queue", "test", "take", "start"}, pc' = [pc EXCEPT ![t] = stage]
    PROVE  /\ pc' \in [Threads -> {"idle", "queue", "test", "take", "start"}]
           /\ pc'[t] = stage /\ \A u \in Threads : u # t => pc'[u] = pc[u]
  OBVIOUS

LEMMA LatestFacts ==
    ASSUME NEW s \in Seq(Nat), NEW n \in Nat
    PROVE  /\ Channel!Latest(s) \in Nat /\ Append(s, n) \in Seq(Nat)
           /\ Channel!Latest(Append(s, n)) = n /\ Channel!Latest(<<>>) = 0
  BY DEF Channel!Latest

LEMMA AppendFacts ==
    ASSUME NEW s \in Seq(Nat), NEW n \in Nat
    PROVE  /\ Len(Append(s, n)) = Len(s) + 1 /\ Len(s) \in Nat
           /\ \A i \in 1..Len(s) : Append(s, n)[i] = s[i] /\ s[i] \in Nat
           /\ Append(s, n)[Len(s) + 1] = n
  OBVIOUS

(* A write takes its next frame from a buffer that is still its own.       *)
LEMMA Own ==
    ASSUME Types, NEW out \in 0..Len(writeBufferVector), out < Len(writeBufferVector)
    PROVE  InMemory([frames |-> writeBufferVector, out |-> out]) = {writeBufferVector[out + 1]}
  BY DEF InMemory, Types

LEMMA InitIInv == Init => IInv
<1> SUFFICES ASSUME Init PROVE IInv
  OBVIOUS
<1>1. Types
  BY DEF Init, Types
<1>2. "io" \in Threads /\ \A t \in Threads : pc[t] = "idle"
  BY DEF Init, Threads
<1>3. WriteInv
  BY <1>2 DEF Init, WriteInv, Busy
<1>4. OrderInv
  <2>1. Newest = 0 /\ Newest <= queued
    BY DEF Init, Newest, Channel!Latest
  <2>2. 1..Len(writeQueue) = {} /\ 1..Len(writeBufferVector) = {} /\ operations = <<>>
    BY DEF Init
  <2>3. QED BY <1>2, <2>1, <2>2 DEF OrderInv
<1>5. QED BY <1>1, <1>3, <1>4 DEF IInv

-----------------------------------------------------------------------------
LEMMA StepTypes == IInv /\ [Next]_vars => Types'
<1> SUFFICES ASSUME IInv, [Next]_vars PROVE Types'
  OBVIOUS
<1> USE DEF queueVars, portVars, history
<1>0. Types /\ "io" \in Threads
  BY DEF IInv, Threads
<1>1. ASSUME NEW t \in Threads, Send(t) \/ Test(t) \/ StartWrite(t) PROVE Types'
  BY <1>0, <1>1 DEF Send, Test, StartWrite, Types
<1>2. ASSUME NEW t \in Threads, Enqueue(t) PROVE Types'
  BY <1>0, <1>2, LatestFacts DEF Enqueue, Types
<1>3. ASSUME NEW t \in Threads, Take(t) PROVE Types'
  <2>1. UNCHANGED <<queued, wire>>
    BY <1>3 DEF Take
  <2>2. CASE NothingPending
    <3>1. pc' = [pc EXCEPT ![t] = "idle"] /\ UNCHANGED <<writeQueue, writeBufferVector>>
      BY <1>3, <2>2 DEF Take
    <3>2. QED BY <1>0, <2>1, <3>1 DEF Types
  <2>3. CASE ~NothingPending
    <3>1. pc' = [pc EXCEPT ![t] = "start"] /\ writeBufferVector' = writeQueue /\ writeQueue' = <<>>
      BY <1>3, <2>3 DEF Take, Moved
    <3>2. QED BY <1>0, <2>1, <3>1 DEF Types
  <2>4. QED BY <2>2, <2>3
<1>4. CASE PutOut
  <2>1. PICK i \in DOMAIN operations : /\ operations[i].out < Len(operations[i].frames)
                                       /\ \E frame \in InMemory(operations[i]) : wire' = Append(wire, frame)
    BY <1>4 DEF PutOut
  <2>2. PICK out \in 0..Len(writeBufferVector) : operations = <<[frames |-> writeBufferVector, out |-> out]>>
    BY <2>1 DEF IInv, WriteInv
  <2>3. i = 1 /\ out < Len(writeBufferVector) /\ out + 1 \in 1..Len(writeBufferVector)
    BY <1>0, <2>1, <2>2 DEF Types
  <2>4. wire' = Append(wire, writeBufferVector[out + 1]) /\ writeBufferVector[out + 1] \in Nat
    BY <1>0, <2>1, <2>2, <2>3, Own DEF Types
  <2>5. UNCHANGED <<writeQueue, writeBufferVector, queued, pc>>
    BY <1>4 DEF PutOut
  <2>6. QED BY <1>0, <2>4, <2>5, LatestFacts DEF Types
<1>5. CASE WriteDone
  BY <1>0, <1>5 DEF WriteDone, Types
<1>6. CASE WriteFails \/ WriteAborted \/ ReadFails \/ Open \/ OpenTerminates \/ CloseCancel \/ Close
           \/ UNCHANGED vars
  <2>1. UNCHANGED <<writeBufferVector, queued, wire, pc>> /\ (writeQueue' = writeQueue \/ writeQueue' = <<>>)
    BY <1>6 DEF WriteFails, WriteAborted, ReadFails, Open, OpenTerminates, CloseCancel, Close,
       CloseJoin, CloseThrows, vars
  <2>2. writeQueue' \in Seq(Nat) /\ writeBufferVector' \in Seq(Nat) /\ wire' \in Seq(Nat)
    <3>1. writeQueue \in Seq(Nat) /\ <<>> \in Seq(Nat) /\ writeBufferVector \in Seq(Nat) /\ wire \in Seq(Nat)
      BY <1>0 DEF Types
    <3>2. QED BY <2>1, <3>1
  <2>3. queued' \in Nat /\ pc' \in [Threads -> {"idle", "queue", "test", "take", "start"}]
    BY <1>0, <2>1 DEF Types
  <2>4. QED BY <2>2, <2>3 DEF Types
<1>7. QED BY <1>1, <1>2, <1>3, <1>4, <1>5, <1>6 DEF Next, Step, Handlers

-----------------------------------------------------------------------------
(* One token, held by the thread in asyncWrite() or by the write under way. *)
LEMMA StepWriteInv == IInv /\ ~overlapped' /\ [Next]_vars => WriteInv'
<1> SUFFICES ASSUME IInv, ~overlapped', [Next]_vars PROVE WriteInv'
  OBVIOUS
<1> USE DEF queueVars, portVars, history
<1>0. /\ Types /\ WriteInv /\ "io" \in Threads /\ "io" \notin Callers
      /\ Callers \subseteq Threads
  BY CallersAssumption DEF IInv, Threads
<1>1. ASSUME NEW t \in Threads, Send(t) PROVE WriteInv'
  <2>1. ~closing /\ pc[t] = "idle"
    BY <1>1 DEF Send
  <2>2. pc'[t] = "queue" /\ \A u \in Threads : u # t => pc'[u] = pc[u]
    BY <1>0, <1>1, GotoFacts DEF Send, Types
  <2>3. UNCHANGED <<operations, writeBufferVector, asyncWriteInProgress, closing>>
    BY <1>1 DEF Send
  <2>4. QED BY <1>0, <2>1, <2>2, <2>3 DEF WriteInv, Busy, CallersIdle
<1>2. ASSUME NEW t \in Threads, Enqueue(t) PROVE WriteInv'
  <2>1. pc[t] = "queue" /\ (closing => t \notin Callers)
    BY <1>0, <1>2 DEF Enqueue, WriteInv, CallersIdle
  <2>2. pc'[t] = "test" /\ \A u \in Threads : u # t => pc'[u] = pc[u]
    BY <1>0, <1>2, GotoFacts DEF Enqueue, Types
  <2>3. UNCHANGED <<operations, writeBufferVector, asyncWriteInProgress, closing>>
    BY <1>2 DEF Enqueue
  <2>4. QED BY <1>0, <2>1, <2>2, <2>3 DEF WriteInv, Busy, CallersIdle
<1>3. ASSUME NEW t \in Threads, Test(t) PROVE WriteInv'
  <2>1. pc[t] = "test" /\ (closing => t \notin Callers)
    BY <1>0, <1>3 DEF Test, WriteInv, CallersIdle
  <2>2. /\ \A u \in Threads : u # t => pc'[u] = pc[u]
        /\ pc'[t] = IF ~asyncWriteInProgress THEN "take" ELSE "idle"
    BY <1>0, <1>3, GotoFacts DEF Test, MustWrite, Types
  <2>3. UNCHANGED <<operations, writeBufferVector, asyncWriteInProgress, closing>>
    BY <1>3 DEF Test
  <2>4. CASE asyncWriteInProgress
    BY <1>0, <2>1, <2>2, <2>3, <2>4 DEF WriteInv, Busy, CallersIdle
  <2>5. CASE ~asyncWriteInProgress
    <3>1. \A u \in Threads : u # t => pc[u] # "take"
      BY <1>3, <2>5 DEF Test, AnotherTakes
    <3>2. operations = <<>> /\ \A u \in Threads : Busy(u)' => u = t
      BY <1>0, <2>2, <2>5, <3>1 DEF WriteInv, Busy
    <3>3. pc'[t] = "take" /\ \A u \in Threads : pc'[u] # "start"
      BY <1>0, <2>2, <2>5, <3>2 DEF Busy
    <3>4. closing => \A u \in Callers : pc'[u] = "idle"
      BY <1>0, <2>1, <2>2 DEF WriteInv, CallersIdle
    <3>5. QED BY <2>3, <3>2, <3>3, <3>4 DEF WriteInv, CallersIdle
  <2>6. QED BY <2>4, <2>5
<1>4. ASSUME NEW t \in Threads, Take(t) PROVE WriteInv'
  <2>1. pc[t] = "take" /\ operations = <<>> /\ \A u \in Threads : Busy(u) => u = t
    BY <1>0, <1>4 DEF Take, WriteInv, Busy
  <2>2. UNCHANGED <<operations, closing>>
    BY <1>4 DEF Take
  <2>3. closing => t \notin Callers
    BY <1>0, <2>1 DEF WriteInv, CallersIdle
  <2>4. CASE NothingPending
    <3>1. pc'[t] = "idle" /\ (\A u \in Threads : u # t => pc'[u] = pc[u]) /\ UNCHANGED writeBufferVector
      BY <1>0, <1>4, <2>4, GotoFacts DEF Take, Types
    <3>2. ~\E u \in Threads : Busy(u)'
      BY <1>0, <2>1, <3>1 DEF Busy
    <3>3. closing => \A u \in Callers : pc'[u] = "idle"
      BY <1>0, <3>1 DEF WriteInv, CallersIdle
    <3>4. \A u \in Threads : pc'[u] # "start"
      BY <3>2 DEF Busy
    <3>5. QED BY <2>1, <2>2, <3>2, <3>3, <3>4 DEF WriteInv, CallersIdle
  <2>5. CASE ~NothingPending
    <3>1. pc'[t] = "start" /\ \A u \in Threads : u # t => pc'[u] = pc[u]
      BY <1>0, <1>4, <2>5, GotoFacts DEF Take, Types
    <3>2. asyncWriteInProgress'
      BY <1>4, <2>5 DEF Take, NothingPending
    <3>3. \A u \in Threads : Busy(u)' => u = t
      BY <1>0, <2>1, <3>1 DEF Busy
    <3>4. closing => \A u \in Callers : pc'[u] = "idle"
      BY <1>0, <2>3, <3>1 DEF WriteInv, CallersIdle
    <3>5. QED BY <2>1, <2>2, <3>2, <3>3, <3>4 DEF WriteInv, CallersIdle
  <2>6. QED BY <2>4, <2>5
<1>5. ASSUME NEW t \in Threads, StartWrite(t) PROVE WriteInv'
  <2>1. pc[t] = "start" /\ operations = <<>> /\ \A u \in Threads : Busy(u) => u = t
    BY <1>0, <1>5 DEF StartWrite, WriteInv, Busy
  <2>2. pc'[t] = "idle" /\ \A u \in Threads : u # t => pc'[u] = pc[u]
    BY <1>0, <1>5, GotoFacts DEF StartWrite, Types
  <2>3. asyncWriteInProgress /\ UNCHANGED <<closing, writeBufferVector, asyncWriteInProgress>>
    BY <1>0, <1>5, <2>1 DEF StartWrite, WriteInv
  <2>4. operations' = <<[frames |-> writeBufferVector, out |-> 0]>>
    BY <1>5, <2>1 DEF StartWrite, Operation
  <2>5. 0 \in 0..Len(writeBufferVector)
    BY <1>0 DEF Types
  <2>6. ~\E u \in Threads : Busy(u)'
    BY <1>0, <2>1, <2>2 DEF Busy
  <2>7. closing => \A u \in Callers : pc'[u] = "idle"
    BY <1>0, <2>2 DEF WriteInv, CallersIdle
  <2>8. QED BY <1>0, <2>3, <2>4, <2>5, <2>6, <2>7 DEF WriteInv, CallersIdle
<1>6. CASE PutOut
  <2>1. PICK i \in DOMAIN operations :
           /\ operations[i].out < Len(operations[i].frames)
           /\ operations' = [operations EXCEPT ![i].out = @ + 1]
    BY <1>6 DEF PutOut
  <2>2. PICK out \in 0..Len(writeBufferVector) :
           operations = <<[frames |-> writeBufferVector, out |-> out]>>
    BY <1>0, <2>1 DEF WriteInv
  <2>3. i = 1 /\ out < Len(writeBufferVector)
    BY <2>1, <2>2
  <2>4. operations' = <<[frames |-> writeBufferVector, out |-> out + 1]>>
    BY <2>1, <2>2, OutOfOnly
  <2>5. out + 1 \in 0..Len(writeBufferVector)
    BY <1>0, <2>3 DEF Types
  <2>6. operations # <<>> /\ UNCHANGED <<pc, writeBufferVector, asyncWriteInProgress, closing>>
    BY <1>6, <2>2 DEF PutOut
  <2>7. QED BY <1>0, <2>4, <2>5, <2>6 DEF WriteInv, Busy, CallersIdle
<1>7. CASE WriteDone
  <2>1. operations # <<>> /\ operations' = <<>>
    BY <1>0, <1>7, RemoveOnly DEF WriteDone, WriteInv
  <2>2. /\ pc'["io"] = "take" /\ \A u \in Threads : u # "io" => pc'[u] = pc[u]
        /\ UNCHANGED <<writeBufferVector, asyncWriteInProgress, closing>>
    BY <1>0, <1>7, GotoFacts DEF WriteDone, Types
  <2>3. asyncWriteInProgress /\ \A u \in Threads : ~Busy(u)
    BY <1>0, <2>1 DEF WriteInv
  <2>4. closing => \A u \in Callers : pc'[u] = "idle"
    BY <1>0, <2>2 DEF WriteInv, CallersIdle, Threads
  <2>5. QED BY <2>1, <2>2, <2>3, <2>4 DEF WriteInv, Busy, CallersIdle
<1>8. CASE WriteFails \/ WriteAborted
  <2>1. operations # <<>> /\ operations' = <<>>
    BY <1>0, <1>8, RemoveOnly DEF WriteFails, WriteAborted, WriteInv
  <2>2. pc["io"] = "idle" /\ UNCHANGED <<pc, writeBufferVector, closing>>
    BY <1>8 DEF WriteFails, WriteAborted, IoIdle
  <2>3. \A u \in Threads : ~Busy(u)
    BY <1>0, <2>1 DEF WriteInv
  <2>4. QED BY <1>0, <2>1, <2>2, <2>3 DEF WriteInv, Busy, CallersIdle
<1>9. CASE ReadFails \/ Open \/ OpenTerminates \/ CloseThrows \/ UNCHANGED vars
  <2>1. UNCHANGED <<pc, operations, writeBufferVector, asyncWriteInProgress>> /\ (closing' => closing)
    BY <1>9 DEF ReadFails, Open, OpenTerminates, CloseThrows, vars
  <2>2. QED BY <1>0, <2>1 DEF WriteInv, Busy, CallersIdle
<1>10. CASE CloseCancel
  <2>1. UNCHANGED <<pc, operations, writeBufferVector, asyncWriteInProgress>> /\ CallersIdle
    BY <1>10 DEF CloseCancel
  <2>2. QED BY <1>0, <2>1 DEF WriteInv, Busy, CallersIdle
<1>11. CASE CloseJoin
  <2>1. /\ pc["io"] = "idle" /\ CallersIdle /\ operations' = <<>>
        /\ UNCHANGED <<pc, writeBufferVector>>
    BY <1>0, <1>11 DEF CloseJoin, WriteInv
  <2>2. \A u \in Threads : pc[u] = "idle"
    BY <2>1 DEF CallersIdle, Threads
  <2>3. QED BY <1>0, <2>1, <2>2 DEF WriteInv, Busy, CallersIdle
<1>12. QED
  BY <1>1, <1>2, <1>3, <1>4, <1>5, <1>6, <1>7, <1>8, <1>9, <1>10, <1>11 DEF Next, Step, Handlers, Close

-----------------------------------------------------------------------------
(* What a step does not touch keeps its order.                             *)
LEMMA SameOrder ==
    ASSUME OrderInv, UNCHANGED <<writeQueue, writeBufferVector, queued, wire>>,
           (\E t \in Threads : pc'[t] = "start") => \E t \in Threads : pc[t] = "start",
           operations' = operations \/ operations' = <<>>
    PROVE  OrderInv'
<1>1. Newest' = Newest
  BY DEF Newest
<1>2. QED BY <1>1 DEF OrderInv

(* Each frame that goes out is newer than every frame that is out: the     *)
(* buffer holds the older of the waiting frames, the queue the newer.      *)
LEMMA StepOrderInv == IInv /\ [Next]_vars => OrderInv'
<1> SUFFICES ASSUME IInv, [Next]_vars PROVE OrderInv'
  OBVIOUS
<1> USE DEF queueVars, portVars, history
<1>0. /\ Types /\ WriteInv /\ OrderInv /\ "io" \in Threads
      /\ Newest \in Nat /\ Len(writeQueue) \in Nat /\ Len(writeBufferVector) \in Nat
      /\ \A i \in 1..Len(writeQueue) : writeQueue[i] \in Nat
      /\ \A i \in 1..Len(writeBufferVector) : writeBufferVector[i] \in Nat
  <2>1. Types /\ WriteInv /\ OrderInv /\ "io" \in Threads
    BY DEF IInv, Threads
  <2>2. writeQueue \in Seq(Nat) /\ writeBufferVector \in Seq(Nat) /\ wire \in Seq(Nat)
    BY <2>1 DEF Types
  <2>3. Newest \in Nat
    BY <2>2, LatestFacts DEF Newest
  <2>4. /\ Len(writeQueue) \in Nat /\ \A i \in 1..Len(writeQueue) : writeQueue[i] \in Nat
        /\ Len(writeBufferVector) \in Nat
        /\ \A i \in 1..Len(writeBufferVector) : writeBufferVector[i] \in Nat
    BY <2>2
  <2>5. QED BY <2>1, <2>3, <2>4
<1>1. ASSUME NEW t \in Threads, Send(t) \/ Test(t) PROVE OrderInv'
  <2>1. PICK stage \in {"idle", "queue", "take"} : pc' = [pc EXCEPT ![t] = stage]
    BY <1>1 DEF Send, Test
  <2>2. (\E u \in Threads : pc'[u] = "start") => \E u \in Threads : pc[u] = "start"
    BY <1>0, <2>1 DEF Types
  <2>3. UNCHANGED <<writeQueue, writeBufferVector, queued, wire, operations>>
    BY <1>1 DEF Send, Test
  <2>4. QED BY <1>0, <2>2, <2>3, SameOrder
<1>2. ASSUME NEW t \in Threads, Enqueue(t) PROVE OrderInv'
  <2>1. /\ writeQueue' = Append(writeQueue, queued + 1) /\ queued' = queued + 1
        /\ UNCHANGED <<writeBufferVector, wire, operations>> /\ Newest' = Newest
        /\ pc' = [pc EXCEPT ![t] = "test"]
    BY <1>2 DEF Enqueue, Newest
  <2>2. /\ Len(writeQueue') = Len(writeQueue) + 1
        /\ \A i \in 1..Len(writeQueue) : writeQueue'[i] = writeQueue[i]
        /\ writeQueue'[Len(writeQueue) + 1] = queued + 1 /\ queued \in Nat
    <3>1. writeQueue \in Seq(Nat) /\ queued \in Nat /\ queued + 1 \in Nat
      BY <1>0 DEF Types
    <3>2. QED BY <2>1, <3>1, AppendFacts
  <2>3. \A i \in 1..Len(writeQueue') : i \in 1..Len(writeQueue) \/ i = Len(writeQueue) + 1
    BY <1>0, <2>2
  <2>4. \A i, j \in 1..Len(writeQueue') : i < j => writeQueue'[i] < writeQueue'[j]
    <3>1. \A i, j \in 1..Len(writeQueue) : i < j => writeQueue'[i] < writeQueue'[j]
      BY <1>0, <2>2 DEF OrderInv
    <3>2. \A i \in 1..Len(writeQueue) : writeQueue'[i] < writeQueue'[Len(writeQueue) + 1]
      BY <1>0, <2>2 DEF OrderInv
    <3>3. \A i, j \in 1..Len(writeQueue') : i < j => i \in 1..Len(writeQueue)
      BY <1>0, <2>2
    <3>4. QED BY <2>3, <3>1, <3>2, <3>3
  <2>5. \A i \in 1..Len(writeQueue') : Newest < writeQueue'[i] /\ writeQueue'[i] <= queued'
    <3>1. queued \in Nat /\ queued' = queued + 1 /\ Newest <= queued /\ Newest \in Nat
      BY <1>0, <2>1, <2>2 DEF OrderInv
    <3>2. ASSUME NEW i \in 1..Len(writeQueue)
          PROVE  Newest < writeQueue'[i] /\ writeQueue'[i] <= queued'
      <4>1. /\ writeQueue[i] \in Nat /\ writeQueue'[i] = writeQueue[i]
            /\ Newest < writeQueue[i] /\ writeQueue[i] <= queued
        BY <1>0, <2>2 DEF OrderInv
      <4>2. QED BY <3>1, <4>1
    <3>3. Newest < writeQueue'[Len(writeQueue) + 1] /\ writeQueue'[Len(writeQueue) + 1] <= queued'
      BY <2>2, <3>1
    <3>4. QED BY <2>3, <3>2, <3>3
  <2>6. \A i \in 1..Len(writeBufferVector), j \in 1..Len(writeQueue') : writeBufferVector[i] < writeQueue'[j]
    BY <1>0, <2>2, <2>3 DEF OrderInv
  <2>7. Newest <= queued' /\ \A i \in 1..Len(writeBufferVector) : writeBufferVector[i] <= queued'
    BY <1>0, <2>1, <2>2 DEF OrderInv
  <2>8. (\E u \in Threads : pc'[u] = "start") => \E u \in Threads : pc[u] = "start"
    BY <1>0, <2>1 DEF Types
  <2>9. QED BY <1>0, <2>1, <2>4, <2>5, <2>6, <2>7, <2>8 DEF OrderInv
<1>3. ASSUME NEW t \in Threads, Take(t) PROVE OrderInv'
  <2>1. operations = <<>> /\ UNCHANGED <<queued, wire, operations>> /\ Newest' = Newest
    BY <1>0, <1>3 DEF Take, WriteInv, Busy, Newest
  <2>2. CASE NothingPending
    <3>1. pc' = [pc EXCEPT ![t] = "idle"] /\ UNCHANGED <<writeQueue, writeBufferVector>>
      BY <1>3, <2>2 DEF Take
    <3>2. (\E u \in Threads : pc'[u] = "start") => \E u \in Threads : pc[u] = "start"
      BY <1>0, <3>1 DEF Types
    <3>3. QED BY <1>0, <2>1, <3>1, <3>2, SameOrder
  <2>3. CASE ~NothingPending
    <3>1. writeBufferVector' = writeQueue /\ writeQueue' = <<>> /\ 1..Len(writeQueue') = {}
      BY <1>3, <2>3 DEF Take, Moved
    <3>2. QED BY <1>0, <2>1, <3>1 DEF OrderInv
  <2>4. QED BY <2>2, <2>3
<1>4. ASSUME NEW t \in Threads, StartWrite(t) PROVE OrderInv'
  <2>1. pc[t] = "start" /\ operations = <<>> /\ \A u \in Threads : Busy(u) => u = t
    BY <1>0, <1>4 DEF StartWrite, WriteInv, Busy
  <2>2. pc'[t] = "idle" /\ \A u \in Threads : u # t => pc'[u] = pc[u]
    BY <1>0, <1>4, GotoFacts DEF StartWrite, Types
  <2>3. ~\E u \in Threads : pc'[u] = "start"
    BY <2>1, <2>2 DEF Busy
  <2>4. UNCHANGED <<writeQueue, writeBufferVector, queued, wire>> /\ Newest' = Newest
    BY <1>4 DEF StartWrite, Newest
  <2>5. \A i \in 1..Len(writeBufferVector) : Newest < writeBufferVector[i]
    BY <1>0, <2>1 DEF OrderInv
  <2>6. QED BY <1>0, <2>3, <2>4, <2>5 DEF OrderInv
<1>5. CASE PutOut
  <2>1. PICK i \in DOMAIN operations :
           /\ operations[i].out < Len(operations[i].frames)
           /\ operations' = [operations EXCEPT ![i].out = @ + 1]
           /\ \E frame \in InMemory(operations[i]) : wire' = Append(wire, frame)
    BY <1>5 DEF PutOut
  <2>2. PICK out \in 0..Len(writeBufferVector) :
           operations = <<[frames |-> writeBufferVector, out |-> out]>>
    BY <1>0, <2>1 DEF WriteInv
  <2>3. i = 1 /\ out < Len(writeBufferVector) /\ out + 1 \in 1..Len(writeBufferVector)
    BY <1>0, <2>1, <2>2
  <2>4. operations' = <<[frames |-> writeBufferVector, out |-> out + 1]>>
    BY <2>1, <2>2, OutOfOnly
  <2>5. Newest' = writeBufferVector[out + 1]
    <3>1. wire' = Append(wire, writeBufferVector[out + 1])
      BY <1>0, <2>1, <2>2, <2>3, Own
    <3>2. wire \in Seq(Nat) /\ writeBufferVector[out + 1] \in Nat
      BY <1>0, <2>3 DEF Types
    <3>3. QED BY <3>1, <3>2, LatestFacts DEF Newest
  <2>6. UNCHANGED <<pc, writeQueue, writeBufferVector, queued>> /\ ~\E u \in Threads : pc[u] = "start"
    BY <1>0, <1>5, <2>2 DEF PutOut, WriteInv, Busy
  <2>7. operations'[1].out = out + 1
    BY <2>4
  <2>8. \A k \in 1..Len(writeBufferVector) : out + 1 < k => Newest' < writeBufferVector[k]
    BY <1>0, <2>3, <2>5 DEF OrderInv
  <2>9. Newest' <= queued /\ \A k \in 1..Len(writeQueue) : Newest' < writeQueue[k]
    BY <1>0, <2>3, <2>5 DEF OrderInv
  <2>10. QED BY <1>0, <2>6, <2>7, <2>8, <2>9 DEF OrderInv
<1>6. CASE WriteDone
  <2>1. operations' = <<>> /\ UNCHANGED <<writeQueue, writeBufferVector, queued, wire>>
    BY <1>0, <1>6, RemoveOnly DEF WriteDone, WriteInv
  <2>2. (\E u \in Threads : pc'[u] = "start") => \E u \in Threads : pc[u] = "start"
    BY <1>0, <1>6 DEF WriteDone, Types
  <2>3. QED BY <1>0, <2>1, <2>2, SameOrder
<1>7. CASE WriteFails
  <2>1. operations' = <<>> /\ UNCHANGED <<pc, writeQueue, writeBufferVector, queued, wire>>
    BY <1>0, <1>7, RemoveOnly DEF WriteFails, WriteInv
  <2>2. QED BY <1>0, <2>1, SameOrder
<1>8. CASE WriteAborted
  <2>1. /\ operations' = <<>> /\ UNCHANGED <<pc, writeBufferVector, queued, wire>> /\ Newest' = Newest
        /\ writeQueue' = <<>> /\ 1..Len(writeQueue') = {}
    BY <1>0, <1>8, RemoveOnly DEF WriteAborted, WriteInv, Newest
  <2>2. QED BY <1>0, <2>1 DEF OrderInv
<1>9. CASE ReadFails \/ Open \/ OpenTerminates \/ CloseCancel \/ CloseJoin \/ CloseThrows \/ UNCHANGED vars
  <2>1. UNCHANGED <<pc, writeQueue, writeBufferVector, queued, wire>> /\ operations' \in {operations, <<>>}
    BY <1>9 DEF ReadFails, Open, OpenTerminates, CloseCancel, CloseJoin, CloseThrows, vars
  <2>2. QED BY <1>0, <2>1, SameOrder
<1>10. QED
  BY <1>1, <1>2, <1>3, <1>4, <1>5, <1>6, <1>7, <1>8, <1>9 DEF Next, Step, Handlers, Close

(* An overlap is never undone.                                             *)
LEMMA OverlapStays == [Next]_vars /\ overlapped => overlapped'
<1> SUFFICES ASSUME [Next]_vars, overlapped PROVE overlapped'
  OBVIOUS
<1> USE DEF history
<1>1. ASSUME NEW t \in Threads, Send(t) \/ Step(t) PROVE overlapped'
  BY <1>1 DEF Send, Step, Enqueue, Test, Take, StartWrite
<1>2. CASE PutOut \/ Handlers \/ ReadFails
  BY <1>2 DEF PutOut, Handlers, WriteDone, WriteFails, WriteAborted, ReadFails
<1>3. CASE Open \/ OpenTerminates \/ CloseCancel \/ Close \/ UNCHANGED vars
  BY <1>3 DEF Open, OpenTerminates, CloseCancel, Close, CloseJoin, CloseThrows, vars
<1>4. QED BY <1>1, <1>2, <1>3 DEF Next

LEMMA StepUntilOverlap == UntilOverlap /\ [Next]_vars => UntilOverlap'
<1> SUFFICES ASSUME UntilOverlap, [Next]_vars, ~overlapped' PROVE IInv'
  BY DEF UntilOverlap
<1>1. IInv
  BY OverlapStays DEF UntilOverlap
<1>2. QED BY <1>1, StepTypes, StepWriteInv, StepOrderInv DEF IInv

LEMMA Invariant == Spec => []UntilOverlap
<1>1. Init => UntilOverlap
  BY InitIInv DEF UntilOverlap
<1>2. QED BY <1>1, StepUntilOverlap, PTL DEF Spec

-----------------------------------------------------------------------------
(* Nothing is lost.  Before the first open() nothing moves, and in the     *)
(* first session no close() has cancelled a write.                         *)
SessionInv ==
    /\ sessions \in Nat
    /\ sessions = 0 =>
          /\ ~isOpen /\ ~closing /\ ioThread = "none" /\ port = "closed"
          /\ queued = 0 /\ wire = <<>> /\ writeQueue = <<>> /\ operations = <<>>
          /\ \A t \in Threads : pc[t] = "idle"
    /\ closing => ~isOpen
    /\ sessions = 1 /\ isOpen => port # "cancelled"

Lossless == sessions = 1 /\ isOpen /\ ~writeFailed /\ ~overlapped

(* Whether the buffer has frames that are to go out, how many of them are  *)
(* out already and how many are left.                                      *)
Held == operations # <<>> \/ \E t \in Threads : pc[t] = "start"
Out  == IF operations = <<>> THEN 0 ELSE operations[1].out
Left == IF Held THEN Len(writeBufferVector) - Out ELSE 0

(* The frames are numbered without a gap, over the wire, the rest of the   *)
(* buffer and the queue.                                                   *)
Numbered ==
    /\ \A i \in 1..Len(wire) : wire[i] = i
    /\ Held => \A i \in 1..Len(writeBufferVector) : writeBufferVector[i] + Out = Len(wire) + i
    /\ \A i \in 1..Len(writeQueue) : writeQueue[i] = Len(wire) + Left + i
    /\ queued = Len(wire) + Left + Len(writeQueue)

LosslessInv == SessionInv /\ (Lossless => Numbered)

LEMMA StepSessionInv == SessionInv /\ [Next]_vars => SessionInv'
<1> SUFFICES ASSUME SessionInv, [Next]_vars PROVE SessionInv'
  OBVIOUS
<1> USE DEF queueVars, portVars, history
<1>0. "io" \in Threads /\ sessions \in Nat
  BY DEF Threads, SessionInv
<1>1. ASSUME NEW t \in Threads, Send(t) \/ Step(t) PROVE SessionInv'
  <2>1. sessions # 0
    BY <1>1 DEF Send, Step, Enqueue, Test, Take, StartWrite, SessionInv
  <2>2. UNCHANGED <<sessions, isOpen, closing, port>>
    BY <1>1 DEF Send, Step, Enqueue, Test, Take, StartWrite
  <2>3. QED BY <1>0, <2>1, <2>2 DEF SessionInv
<1>2. CASE PutOut
  <2>1. sessions # 0
    BY <1>2 DEF PutOut, SessionInv
  <2>2. UNCHANGED <<sessions, isOpen, closing, port>>
    BY <1>2 DEF PutOut
  <2>3. QED BY <1>0, <2>1, <2>2 DEF SessionInv
<1>3. CASE Handlers
  <2>1. sessions # 0
    BY <1>3 DEF Handlers, WriteDone, WriteFails, WriteAborted, IoIdle, SessionInv
  <2>2. UNCHANGED <<sessions, isOpen, closing, port>>
    BY <1>3 DEF Handlers, WriteDone, WriteFails, WriteAborted
  <2>3. QED BY <1>0, <2>1, <2>2 DEF SessionInv
<1>4. CASE ReadFails
  <2>1. sessions # 0
    BY <1>4 DEF ReadFails, IoIdle, SessionInv
  <2>2. UNCHANGED <<sessions, isOpen, closing, port>>
    BY <1>4 DEF ReadFails
  <2>3. QED BY <1>0, <2>1, <2>2 DEF SessionInv
<1>5. CASE Open
  <2>1. sessions' = sessions + 1 /\ ~closing /\ UNCHANGED closing /\ port' \in {"open", port}
    BY <1>5 DEF Open
  <2>2. sessions' \in Nat /\ sessions' # 0 /\ (sessions' = 1 => sessions = 0)
    BY <1>0, <2>1
  <2>3. QED BY <2>1, <2>2 DEF SessionInv
<1>6. CASE OpenTerminates
  <2>1. sessions # 0 /\ sessions' = sessions + 1 /\ ~closing /\ UNCHANGED closing
    BY <1>6 DEF OpenTerminates, SessionInv
  <2>2. sessions' \in Nat /\ sessions' # 0 /\ sessions' # 1
    BY <1>0, <2>1
  <2>3. QED BY <2>1, <2>2 DEF SessionInv
<1>7. CASE CloseCancel
  <2>1. sessions # 0 /\ sessions' = sessions /\ ~isOpen'
    BY <1>7 DEF CloseCancel, SessionInv
  <2>2. QED BY <1>0, <2>1 DEF SessionInv
<1>8. CASE Close
  <2>1. sessions # 0 /\ closing /\ UNCHANGED <<sessions, isOpen>>
    BY <1>8 DEF Close, CloseJoin, CloseThrows, SessionInv
  <2>2. QED BY <1>0, <2>1 DEF SessionInv
<1>9. CASE UNCHANGED vars
  BY <1>9 DEF vars, SessionInv
<1>10. QED BY <1>1, <1>2, <1>3, <1>4, <1>5, <1>6, <1>7, <1>8, <1>9 DEF Next

LEMMA LeftIsInt == ASSUME Types, WriteInv PROVE Left \in Nat
<1>1. Len(writeBufferVector) \in Nat
  BY DEF Types
<1>2. CASE operations = <<>>
  BY <1>1, <1>2 DEF Left, Out
<1>3. CASE operations # <<>>
  <2>1. PICK out \in 0..Len(writeBufferVector) :
           operations = <<[frames |-> writeBufferVector, out |-> out]>>
    BY <1>3 DEF WriteInv
  <2>2. Out = out /\ Held
    BY <2>1 DEF Out, Held
  <2>3. QED BY <1>1, <2>2 DEF Left
<1>4. QED BY <1>2, <1>3

(* What a step does not touch stays numbered.                              *)
LEMMA SameNumbers ==
    ASSUME Numbered, UNCHANGED <<writeQueue, writeBufferVector, queued, wire, operations>>,
           (\E t \in Threads : pc'[t] = "start") <=> (\E t \in Threads : pc[t] = "start")
    PROVE  Numbered'
<1>1. Held' <=> Held
  BY DEF Held
<1>2. Out' = Out
  BY DEF Out
<1>3. CASE Held
  BY <1>1, <1>2, <1>3 DEF Numbered, Left
<1>4. CASE ~Held
  BY <1>1, <1>2, <1>4 DEF Numbered, Left
<1>5. QED BY <1>3, <1>4

(* A frame gets its number at the end of the queue, the queue moves to an  *)
(* empty buffer, and a write puts out the number the wire has next.        *)
LEMMA StepNumbered ==
    IInv /\ ~overlapped /\ LosslessInv /\ [Next]_vars => (Lossless' => Numbered')
<1> SUFFICES ASSUME IInv, ~overlapped, LosslessInv, [Next]_vars, Lossless' PROVE Numbered'
  OBVIOUS
<1> USE DEF queueVars, portVars, history
<1>0. /\ Types /\ WriteInv /\ SessionInv /\ "io" \in Threads
      /\ Len(wire) \in Nat /\ Len(writeQueue) \in Nat /\ Len(writeBufferVector) \in Nat
      /\ queued \in Nat
  <2>1. writeQueue \in Seq(Nat) /\ writeBufferVector \in Seq(Nat) /\ wire \in Seq(Nat)
    BY DEF IInv, Types
  <2>2. Len(wire) \in Nat /\ Len(writeQueue) \in Nat /\ Len(writeBufferVector) \in Nat
    BY <2>1
  <2>3. QED BY <2>2 DEF IInv, Types, LosslessInv, Threads
<1>1. ASSUME NEW t \in Threads, Send(t) \/ Test(t) PROVE Numbered'
  <2>1. PICK stage \in {"idle", "queue", "take"} : pc' = [pc EXCEPT ![t] = stage]
    BY <1>1 DEF Send, Test
  <2>2. pc[t] # "start"
    BY <1>1 DEF Send, Test
  <2>3. pc'[t] # "start" /\ \A u \in Threads : u # t => pc'[u] = pc[u]
    BY <1>0, <2>1 DEF Types
  <2>4. (\E u \in Threads : pc'[u] = "start") <=> (\E u \in Threads : pc[u] = "start")
    BY <2>2, <2>3
  <2>5. UNCHANGED <<sessions, isOpen, writeFailed, writeQueue, writeBufferVector, queued, wire, operations>>
    BY <1>1 DEF Send, Test
  <2>6. Numbered
    BY <2>5 DEF Lossless, LosslessInv
  <2>7. QED BY <2>4, <2>5, <2>6, SameNumbers
<1>2. ASSUME NEW t \in Threads, Enqueue(t) PROVE Numbered'
  <2>1. /\ writeQueue' = Append(writeQueue, queued + 1) /\ queued' = queued + 1
        /\ UNCHANGED <<writeBufferVector, wire, operations, sessions, isOpen, writeFailed>>
        /\ pc' = [pc EXCEPT ![t] = "test"] /\ pc[t] = "queue"
    BY <1>2 DEF Enqueue
  <2>2. pc'[t] = "test" /\ \A u \in Threads : u # t => pc'[u] = pc[u]
    BY <1>0, <2>1 DEF Types
  <2>3. (\E u \in Threads : pc'[u] = "start") <=> (\E u \in Threads : pc[u] = "start")
    BY <2>1, <2>2
  <2>4. Held' <=> Held
    BY <2>1, <2>3 DEF Held
  <2>5. Out' = Out
    BY <2>1 DEF Out
  <2>6. Left' = Left
    <3>1. CASE Held
      BY <2>1, <2>4, <2>5, <3>1 DEF Left
    <3>2. CASE ~Held
      BY <2>4, <3>2 DEF Left
    <3>3. QED BY <3>1, <3>2
  <2>7. Numbered
    BY <2>1 DEF Lossless, LosslessInv
  <2>8. /\ Len(writeQueue') = Len(writeQueue) + 1
        /\ \A i \in 1..Len(writeQueue) : writeQueue'[i] = writeQueue[i]
        /\ writeQueue'[Len(writeQueue) + 1] = queued + 1
    <3>1. writeQueue \in Seq(Nat) /\ queued + 1 \in Nat
      BY <1>0 DEF Types
    <3>2. QED BY <2>1, <3>1, AppendFacts
  <2>9. \A i \in 1..Len(writeQueue') : i \in 1..Len(writeQueue) \/ i = Len(writeQueue) + 1
    BY <1>0, <2>8
  <2>10. Left \in Int /\ queued = Len(wire) + Left + Len(writeQueue)
    <3>1. queued = Len(wire) + Left + Len(writeQueue)
      BY <2>7 DEF Numbered
    <3>2. Left \in Int
      BY <1>0, LeftIsInt
    <3>3. QED BY <3>1, <3>2
  <2>11. \A i \in 1..Len(writeQueue') : writeQueue'[i] = Len(wire) + Left + i
    <3>1. \A i \in 1..Len(writeQueue) : writeQueue[i] = Len(wire) + Left + i
      BY <2>7 DEF Numbered
    <3>2. queued + 1 = Len(wire) + Left + (Len(writeQueue) + 1)
      BY <1>0, <2>10
    <3>3. QED BY <2>8, <2>9, <3>1, <3>2
  <2>12. queued' = Len(wire) + Left + Len(writeQueue')
    BY <1>0, <2>1, <2>8, <2>10
  <2>13. QED BY <2>1, <2>4, <2>5, <2>6, <2>7, <2>11, <2>12 DEF Numbered
<1>3. ASSUME NEW t \in Threads, Take(t) PROVE Numbered'
  <2>1. /\ operations = <<>> /\ UNCHANGED <<queued, wire, operations, sessions, isOpen, writeFailed>>
        /\ pc[t] = "take" /\ \A u \in Threads : Busy(u) => u = t
    BY <1>0, <1>3 DEF Take, WriteInv, Busy
  <2>2. Numbered
    BY <2>1 DEF Lossless, LosslessInv
  <2>3. \A u \in Threads : pc[u] # "start"
    BY <2>1 DEF Busy
  <2>4. CASE NothingPending
    <3>1. pc' = [pc EXCEPT ![t] = "idle"] /\ UNCHANGED <<writeQueue, writeBufferVector>>
      BY <1>3, <2>4 DEF Take
    <3>2. \A u \in Threads : pc'[u] # "start"
      BY <1>0, <2>3, <3>1 DEF Types
    <3>3. QED BY <2>1, <2>2, <2>3, <3>1, <3>2, SameNumbers
  <2>5. CASE ~NothingPending
    <3>1. writeBufferVector' = writeQueue /\ writeQueue' = <<>> /\ pc' = [pc EXCEPT ![t] = "start"]
      BY <1>3, <2>5 DEF Take, Moved
    <3>2. ~Held /\ Left = 0
      BY <2>1, <2>3 DEF Held, Left
    <3>3. pc'[t] = "start"
      BY <1>0, <3>1 DEF Types
    <3>4. Held' /\ Out' = 0
      BY <2>1, <3>3 DEF Held, Out
    <3>5. Left' = Len(writeQueue)
      BY <1>0, <3>1, <3>4 DEF Left
    <3>6. Len(writeQueue') = 0 /\ 1..Len(writeQueue') = {}
      BY <3>1
    <3>7. \A i \in 1..Len(writeQueue) : writeQueue[i] + 0 = Len(wire) + i
      BY <1>0, <2>2, <3>2 DEF Numbered, Types
    <3>8. queued = Len(wire) + Len(writeQueue) + 0
      BY <1>0, <2>2, <3>2 DEF Numbered
    <3>9. QED BY <2>1, <2>2, <3>1, <3>4, <3>5, <3>6, <3>7, <3>8 DEF Numbered
  <2>6. QED BY <2>4, <2>5
<1>4. ASSUME NEW t \in Threads, StartWrite(t) PROVE Numbered'
  <2>1. pc[t] = "start" /\ operations = <<>>
    BY <1>0, <1>4 DEF StartWrite, WriteInv, Busy
  <2>2. UNCHANGED <<writeQueue, writeBufferVector, queued, wire, sessions, isOpen, writeFailed>>
    BY <1>4 DEF StartWrite
  <2>3. operations' = <<[frames |-> writeBufferVector, out |-> 0]>>
    BY <1>4, <2>1 DEF StartWrite, Operation
  <2>4. Numbered
    BY <2>2 DEF Lossless, LosslessInv
  <2>5. Held /\ Held'
    BY <2>1, <2>3 DEF Held
  <2>6. Out = 0 /\ Out' = 0
    BY <2>1, <2>3 DEF Out
  <2>7. Left' = Left
    BY <2>2, <2>5, <2>6 DEF Left
  <2>8. QED BY <2>2, <2>4, <2>5, <2>6, <2>7 DEF Numbered
<1>5. CASE PutOut
  <2>1. PICK i \in DOMAIN operations :
           /\ operations[i].out < Len(operations[i].frames)
           /\ operations' = [operations EXCEPT ![i].out = @ + 1]
           /\ \E frame \in InMemory(operations[i]) : wire' = Append(wire, frame)
    BY <1>5 DEF PutOut
  <2>2. PICK out \in 0..Len(writeBufferVector) :
           operations = <<[frames |-> writeBufferVector, out |-> out]>>
    BY <1>0, <2>1 DEF WriteInv
  <2>3. i = 1 /\ out < Len(writeBufferVector) /\ out + 1 \in 1..Len(writeBufferVector)
    BY <1>0, <2>1, <2>2
  <2>4. operations' = <<[frames |-> writeBufferVector, out |-> out + 1]>>
    BY <2>1, <2>2, OutOfOnly
  <2>5. wire' = Append(wire, writeBufferVector[out + 1])
    BY <1>0, <2>1, <2>2, <2>3, Own
  <2>6. UNCHANGED <<writeQueue, writeBufferVector, queued, sessions, isOpen, writeFailed>>
    BY <1>5 DEF PutOut
  <2>7. Numbered
    BY <2>6 DEF Lossless, LosslessInv
  <2>8. Held /\ Held' /\ Out = out /\ Out' = out + 1
    BY <2>2, <2>4 DEF Held, Out
  <2>9. writeBufferVector[out + 1] \in Nat /\ out \in Nat
    BY <1>0, <2>3 DEF Types
  <2>10. writeBufferVector[out + 1] = Len(wire) + 1
    <3>1. writeBufferVector[out + 1] + out = Len(wire) + (out + 1)
      BY <2>3, <2>7, <2>8 DEF Numbered
    <3>2. QED BY <1>0, <2>9, <3>1
  <2>11. /\ Len(wire') = Len(wire) + 1
         /\ \A k \in 1..Len(wire) : wire'[k] = wire[k]
         /\ wire'[Len(wire) + 1] = Len(wire) + 1
    <3>1. wire \in Seq(Nat)
      BY <1>0 DEF Types
    <3>2. QED BY <2>5, <2>9, <2>10, <3>1, AppendFacts
  <2>12. \A k \in 1..Len(wire') : wire'[k] = k
    <3>1. \A k \in 1..Len(wire') : k \in 1..Len(wire) \/ k = Len(wire) + 1
      BY <1>0, <2>11
    <3>2. \A k \in 1..Len(wire) : wire[k] = k
      BY <2>7 DEF Numbered
    <3>3. QED BY <2>11, <3>1, <3>2
  <2>13. Left = Len(writeBufferVector) - out /\ Left' = Len(writeBufferVector) - (out + 1)
    BY <2>6, <2>8 DEF Left
  <2>14. \A k \in 1..Len(writeBufferVector) : writeBufferVector[k] + (out + 1) = Len(wire') + k
    <3>1. \A k \in 1..Len(writeBufferVector) : writeBufferVector[k] + out = Len(wire) + k
      BY <2>7, <2>8 DEF Numbered
    <3>2. \A k \in 1..Len(writeBufferVector) : writeBufferVector[k] \in Nat
      BY <1>0 DEF Types
    <3>3. \A w, o, n, k \in Nat : w + o = n + k => w + (o + 1) = (n + 1) + k
      OBVIOUS
    <3>4. out \in Nat /\ Len(wire) \in Nat /\ \A k \in 1..Len(writeBufferVector) : k \in Nat
      BY <1>0, <2>9
    <3>5. \A k \in 1..Len(writeBufferVector) : writeBufferVector[k] + (out + 1) = (Len(wire) + 1) + k
      BY <3>1, <3>2, <3>3, <3>4
    <3>6. QED BY <2>11, <3>5
  <2>15. Len(wire') + Left' = Len(wire) + Left
    BY <1>0, <2>9, <2>11, <2>13
  <2>16. QED BY <2>6, <2>7, <2>8, <2>12, <2>14, <2>15 DEF Numbered
<1>6. CASE WriteDone
  <2>1. PICK i \in DOMAIN operations :
           /\ operations[i].out = Len(operations[i].frames) /\ operations' = RemoveAt(operations, i)
    BY <1>6 DEF WriteDone
  <2>2. PICK out \in 0..Len(writeBufferVector) :
           operations = <<[frames |-> writeBufferVector, out |-> out]>>
    BY <1>0, <2>1 DEF WriteInv
  <2>3. i = 1 /\ operations' = <<>>
    BY <2>1, <2>2, RemoveOnly
  <2>4. out = Len(writeBufferVector)
    BY <2>1, <2>2, <2>3
  <2>5. /\ UNCHANGED <<writeQueue, writeBufferVector, queued, wire, sessions, isOpen, writeFailed>>
        /\ pc' = [pc EXCEPT !["io"] = "take"]
    BY <1>6 DEF WriteDone
  <2>6. Numbered
    BY <2>5 DEF Lossless, LosslessInv
  <2>7. \A u \in Threads : pc'[u] # "start"
    <3>1. \A u \in Threads : pc[u] # "start"
      BY <1>0, <2>2 DEF WriteInv, Busy
    <3>2. QED BY <1>0, <2>5, <3>1 DEF Types
  <2>8. ~Held' /\ Left' = 0
    BY <2>3, <2>7 DEF Held, Left
  <2>9. Left = 0
    BY <1>0, <2>2, <2>4 DEF Left, Held, Out
  <2>10. QED BY <2>5, <2>6, <2>8, <2>9 DEF Numbered
<1>7. CASE WriteFails
  BY <1>7 DEF WriteFails, Lossless
<1>8. CASE WriteAborted
  BY <1>0, <1>8 DEF WriteAborted, Lossless, SessionInv
<1>9. CASE ReadFails \/ UNCHANGED vars
  <2>1. /\ UNCHANGED <<writeQueue, writeBufferVector, queued, wire, operations, pc>>
        /\ UNCHANGED <<sessions, isOpen, writeFailed>>
    BY <1>9 DEF ReadFails, vars
  <2>2. QED BY <2>1, SameNumbers DEF Lossless, LosslessInv
<1>10. CASE Open
  <2>1. sessions = 0
    BY <1>0, <1>10 DEF Open, Lossless, SessionInv
  <2>2. UNCHANGED <<writeQueue, writeBufferVector, queued, wire, operations, pc>>
    BY <1>10 DEF Open
  <2>3. /\ queued' = 0 /\ Len(wire') = 0 /\ Len(writeQueue') = 0
        /\ 1..Len(wire') = {} /\ 1..Len(writeQueue') = {}
    BY <1>0, <2>1, <2>2 DEF SessionInv
  <2>4. ~Held' /\ Left' = 0
    BY <1>0, <2>1, <2>2 DEF SessionInv, Held, Left
  <2>5. QED BY <2>3, <2>4 DEF Numbered
<1>11. CASE OpenTerminates \/ CloseCancel \/ Close
  <2>1. CASE OpenTerminates
    BY <2>1 DEF OpenTerminates, Lossless
  <2>2. CASE CloseCancel
    BY <2>2 DEF CloseCancel, Lossless
  <2>3. CASE Close
    BY <1>0, <2>3 DEF Close, CloseJoin, CloseThrows, Lossless, SessionInv
  <2>4. QED BY <1>11, <2>1, <2>2, <2>3
<1>12. QED
  BY <1>1, <1>2, <1>3, <1>4, <1>5, <1>6, <1>7, <1>8, <1>9, <1>10, <1>11 DEF Next, Step, Handlers

LEMMA FlattenNone == FlattenSeq(<<>>) = <<>>
  BY DEF FlattenSeq

LEMMA FlattenOnly == ASSUME NEW s PROVE FlattenSeq(<<s>>) = s
<1> DEFINE F(f) == f = [i \in 1..1 |-> IF i = 1 THEN <<s>>[i] ELSE f[i - 1] \o <<s>>[i]]
<1>1. F([i \in 1..1 |-> s])
  OBVIOUS
<1>2. \E f : F(f)
  BY <1>1
<1>3. F(CHOOSE f : F(f))
  BY <1>2
<1>4. (CHOOSE f : F(f))[1] = s
  BY <1>3
<1>5. FlattenSeq(<<s>>) = (CHOOSE f : F(f))[1]
  BY DEF FlattenSeq
<1>6. QED BY <1>4, <1>5

(* Three numbered parts make one numbered whole.                           *)
GoOn(w, m, q, n) ==
    /\ n = Len(w) + Len(m) + Len(q)
    /\ \A i \in 1..Len(w) : w[i] = i
    /\ \A i \in 1..Len(m) : m[i] = Len(w) + i
    /\ \A i \in 1..Len(q) : q[i] = Len(w) + Len(m) + i

LEMMA ThreeParts ==
    ASSUME NEW w \in Seq(Nat), NEW m \in Seq(Nat), NEW q \in Seq(Nat), NEW n \in Nat,
           GoOn(w, m, q, n)
    PROVE  w \o (m \o q) = [i \in 1..n |-> i]
<1> USE DEF GoOn
<1>1. Len(w) \in Nat /\ Len(m) \in Nat /\ Len(q) \in Nat
  OBVIOUS
<1>2. /\ m \o q \in Seq(Nat) /\ Len(m \o q) = Len(m) + Len(q)
      /\ \A i \in 1..(Len(m) + Len(q)) :
            (m \o q)[i] = IF i <= Len(m) THEN m[i] ELSE q[i - Len(m)]
  BY <1>1
<1>3. \A i \in 1..(Len(m) + Len(q)) : (m \o q)[i] = Len(w) + i
  <2> TAKE i \in 1..(Len(m) + Len(q))
  <2>1. CASE i <= Len(m)
    BY <1>1, <1>2, <2>1
  <2>2. CASE ~(i <= Len(m))
    <3>1. i - Len(m) \in 1..Len(q)
      BY <1>1, <2>2
    <3>2. (m \o q)[i] = q[i - Len(m)]
      BY <1>2, <2>2
    <3>3. q[i - Len(m)] = Len(w) + Len(m) + (i - Len(m))
      BY <3>1
    <3>4. QED BY <1>1, <3>2, <3>3
  <2>3. QED BY <2>1, <2>2
<1> DEFINE r == m \o q
<1>4. r \in Seq(Nat) /\ Len(r) \in Nat /\ n = Len(w) + Len(r) /\ \A i \in 1..Len(r) : r[i] = Len(w) + i
  BY <1>1, <1>2, <1>3
<1> HIDE DEF r
<1>5. /\ w \o r \in Seq(Nat) /\ Len(w \o r) = n
      /\ \A i \in 1..n : (w \o r)[i] = IF i <= Len(w) THEN w[i] ELSE r[i - Len(w)]
  BY <1>1, <1>4
<1>6. \A i \in 1..n : (w \o r)[i] = i
  <2> TAKE i \in 1..n
  <2>1. CASE i <= Len(w)
    BY <1>1, <1>5, <2>1
  <2>2. CASE ~(i <= Len(w))
    <3>1. i - Len(w) \in 1..Len(r)
      BY <1>1, <1>4, <2>2
    <3>2. (w \o r)[i] = r[i - Len(w)]
      BY <1>5, <2>2
    <3>3. r[i - Len(w)] = Len(w) + (i - Len(w))
      BY <1>4, <3>1
    <3>4. QED BY <1>1, <3>2, <3>3
  <2>3. QED BY <2>1, <2>2
<1>7. w \o r = [i \in 1..n |-> i]
  <2> DEFINE all == w \o r
  <2>1. all \in Seq(Nat) /\ Len(all) = n /\ \A i \in 1..n : all[i] = i
    BY <1>5, <1>6
  <2> HIDE DEF all
  <2>2. all = [i \in 1..n |-> all[i]]
    BY <2>1
  <2>3. all = [i \in 1..n |-> i]
    BY <2>1, <2>2
  <2>4. QED BY <2>3 DEF all
<1>8. QED BY <1>7 DEF r

(* The frames that are neither out nor in the queue.                       *)
LEMMA InBetween ==
    ASSUME Types, WriteInv, Numbered
    PROVE  \E m \in Seq(Nat) :
              /\ Pending = m \o writeQueue /\ Len(m) = Left
              /\ \A i \in 1..Len(m) : m[i] = Len(wire) + i
<1>0. /\ writeBufferVector \in Seq(Nat) /\ Len(writeBufferVector) \in Nat /\ <<>> \in Seq(Nat)
      /\ Len(wire) \in Nat /\ \A i \in 1..Len(writeBufferVector) : writeBufferVector[i] \in Nat
  BY DEF Types
<1>1. CASE operations = <<>>
  <2>1. FlattenSeq([i \in DOMAIN operations |-> Rest(operations[i])]) = <<>>
    <3>1. [i \in DOMAIN operations |-> Rest(operations[i])] = <<>>
      BY <1>1
    <3>2. QED BY <3>1, FlattenNone
  <2>2. CASE \E t \in Threads : pc[t] = "start"
    <3>1. Moving = writeBufferVector
      BY <2>2 DEF Moving
    <3>2. Pending = writeBufferVector \o writeQueue
      <4>1. <<>> \o writeBufferVector = writeBufferVector
        BY <1>0
      <4>2. QED BY <2>1, <3>1, <4>1 DEF Pending
    <3>3. Held /\ Out = 0 /\ Left = Len(writeBufferVector)
      BY <1>0, <1>1, <2>2 DEF Held, Out, Left
    <3>4. \A i \in 1..Len(writeBufferVector) : writeBufferVector[i] + 0 = Len(wire) + i
      BY <3>3 DEF Numbered
    <3>5. \A i \in 1..Len(writeBufferVector) : writeBufferVector[i] = Len(wire) + i
      BY <1>0, <3>4
    <3>6. QED BY <1>0, <3>2, <3>3, <3>5
  <2>3. CASE ~\E t \in Threads : pc[t] = "start"
    <3>1. Moving = <<>> /\ <<>> \o <<>> = <<>> /\ Len(<<>>) = 0 /\ 1..0 = {}
      BY <2>3 DEF Moving
    <3>2. Pending = <<>> \o writeQueue
      BY <2>1, <3>1 DEF Pending
    <3>3. Left = 0
      BY <1>1, <2>3 DEF Held, Left
    <3>4. QED BY <1>0, <3>1, <3>2, <3>3
  <2>4. QED BY <2>2, <2>3
<1>2. CASE operations # <<>>
  <2>1. PICK out \in 0..Len(writeBufferVector) :
           operations = <<[frames |-> writeBufferVector, out |-> out]>>
    BY <1>2 DEF WriteInv
  <2> DEFINE m == SubSeq(writeBufferVector, out + 1, Len(writeBufferVector))
  <2>2. out \in Nat /\ out <= Len(writeBufferVector)
    BY <1>0
  <2>3. /\ m \in Seq(Nat) /\ Len(m) = Len(writeBufferVector) - out
        /\ \A i \in 1..(Len(writeBufferVector) - out) : m[i] = writeBufferVector[out + i]
    <3>1. \A i \in (out + 1)..Len(writeBufferVector) : writeBufferVector[i] \in Nat
      BY <1>0, <2>2
    <3>2. Len(m) = Len(writeBufferVector) - out
      BY <1>0, <2>2
    <3>3. \A i \in 1..(Len(writeBufferVector) - out) : m[i] = writeBufferVector[out + i]
      BY <1>0, <2>2
    <3>4. m \in Seq(Nat)
      BY <1>0, <2>2, <3>1
    <3>5. QED BY <3>2, <3>3, <3>4
  <2>4. [i \in DOMAIN operations |-> Rest(operations[i])] = <<m>>
    <3>1. Rest(operations[1]) = m /\ DOMAIN operations = 1..1
      BY <2>1 DEF Rest
    <3>2. [i \in DOMAIN operations |-> Rest(operations[i])] = [i \in 1..1 |-> m]
      BY <3>1
    <3>3. QED BY <3>2
  <2> HIDE DEF m
  <2>5. FlattenSeq([i \in DOMAIN operations |-> Rest(operations[i])]) = m
    BY <2>4, FlattenOnly
  <2>6. Moving = <<>>
    BY <1>2 DEF Moving, WriteInv, Busy
  <2>7. Pending = m \o writeQueue
    <3>1. m \o <<>> = m
      BY <2>3
    <3>2. QED BY <2>5, <2>6, <3>1 DEF Pending
  <2>8. Held /\ Out = out /\ Left = Len(writeBufferVector) - out
    BY <1>2, <2>1 DEF Held, Out, Left
  <2>9. \A i \in 1..(Len(writeBufferVector) - out) : m[i] = Len(wire) + i
    <3>1. \A i \in 1..Len(writeBufferVector) : writeBufferVector[i] + out = Len(wire) + i
      BY <2>8 DEF Numbered
    <3>2. \A i \in 1..(Len(writeBufferVector) - out) : out + i \in 1..Len(writeBufferVector)
      BY <1>0, <2>2
    <3>3. \A i \in 1..(Len(writeBufferVector) - out) :
             writeBufferVector[out + i] + out = Len(wire) + (out + i)
      BY <3>1, <3>2
    <3>4. \A i \in 1..(Len(writeBufferVector) - out) : writeBufferVector[out + i] = Len(wire) + i
      <4> TAKE i \in 1..(Len(writeBufferVector) - out)
      <4>1. writeBufferVector[out + i] + out = Len(wire) + (out + i)
        BY <3>3
      <4>2. writeBufferVector[out + i] \in Nat /\ Len(wire) \in Nat /\ out \in Nat
        BY <1>0, <2>2, <3>2
      <4>3. \A a, b, c, d \in Nat : a + b = c + (b + d) => a = c + d
        OBVIOUS
      <4>4. QED BY <4>1, <4>2, <4>3
    <3>5. QED BY <2>3, <3>4
  <2>10. QED BY <2>3, <2>7, <2>8, <2>9
<1>3. QED BY <1>1, <1>2

(* Whoever sends, until two threads have both found asyncWriteInProgress   *)
(* FALSE: what has been queued in the first session is on the wire, in the *)
(* buffer or in the queue, each frame once and in order, as long as no     *)
(* write fails, for any number of threads and frames (NothingLost).        *)
THEOREM NoFrameLost == Spec => []NothingLost
<1>1. Init => LosslessInv
  BY DEF Init, LosslessInv, SessionInv, Lossless
<1>2. UntilOverlap /\ LosslessInv /\ [Next]_vars => LosslessInv'
  <2> SUFFICES ASSUME UntilOverlap, LosslessInv, [Next]_vars PROVE LosslessInv'
    OBVIOUS
  <2>1. SessionInv'
    BY StepSessionInv DEF LosslessInv
  <2>2. ASSUME Lossless' PROVE Numbered'
    <3>1. ~overlapped
      BY <2>2, OverlapStays DEF Lossless
    <3>2. QED BY <2>2, <3>1, StepNumbered DEF UntilOverlap
  <2>3. QED BY <2>1, <2>2 DEF LosslessInv
<1>3. UntilOverlap /\ LosslessInv => NothingLost
  <2> SUFFICES ASSUME IInv, LosslessInv, Lossless
               PROVE  wire \o Pending = [i \in 1..queued |-> i]
    BY DEF NothingLost, Lossless, UntilOverlap
  <2>1. Types /\ WriteInv /\ Numbered
    BY DEF IInv, LosslessInv
  <2>2. PICK m \in Seq(Nat) :
           /\ Pending = m \o writeQueue /\ Len(m) = Left
           /\ \A i \in 1..Len(m) : m[i] = Len(wire) + i
    BY <2>1, InBetween
  <2>3. wire \in Seq(Nat) /\ writeQueue \in Seq(Nat) /\ queued \in Nat
    BY <2>1 DEF Types
  <2>4. /\ queued = Len(wire) + Len(m) + Len(writeQueue)
        /\ \A i \in 1..Len(wire) : wire[i] = i
        /\ \A i \in 1..Len(writeQueue) : writeQueue[i] = Len(wire) + Len(m) + i
    BY <2>1, <2>2 DEF Numbered
  <2>5. GoOn(wire, m, writeQueue, queued)
    BY <2>2, <2>4 DEF GoOn
  <2>6. wire \o (m \o writeQueue) = [i \in 1..queued |-> i]
    BY <2>3, <2>5, ThreeParts
  <2>7. QED BY <2>2, <2>6
<1>4. QED BY Invariant, <1>1, <1>2, <1>3, PTL DEF Spec

-----------------------------------------------------------------------------
(* Whoever sends, frames leave through the port in order and at most once  *)
(* until two threads have both found asyncWriteInProgress FALSE, for any   *)
(* number of threads, frames and sessions: whatever fails, is cancelled by *)
(* close() or waits in the queue for the next session (ImplementsChannel). *)
THEOREM Refinement == Spec => ImplementsChannel
<1>1. Init => Channel!Init
  BY DEF Init, Channel!Init
<1>2. UntilOverlap /\ [Next]_vars => [Channel!Next \/ overlapped']_<<queued, wire>>
  <2> SUFFICES ASSUME UntilOverlap, [Next]_vars, ~overlapped'
               PROVE  [Channel!Next]_<<queued, wire>>
    OBVIOUS
  <2>0. IInv
    BY OverlapStays DEF UntilOverlap
  <2> USE DEF queueVars, portVars, history
  <2>1. ASSUME NEW t \in Threads, Enqueue(t) PROVE Channel!Next
    BY <2>1 DEF Enqueue, Channel!Next, Channel!Offer
  <2>2. CASE PutOut
    <3>1. PICK i \in DOMAIN operations :
             /\ operations[i].out < Len(operations[i].frames)
             /\ \E frame \in InMemory(operations[i]) : wire' = Append(wire, frame)
      BY <2>2 DEF PutOut
    <3>2. PICK out \in 0..Len(writeBufferVector) :
             operations = <<[frames |-> writeBufferVector, out |-> out]>>
      BY <2>0, <3>1 DEF IInv, WriteInv
    <3>3. Types /\ i = 1 /\ out < Len(writeBufferVector) /\ out + 1 \in 1..Len(writeBufferVector)
      BY <2>0, <3>1, <3>2 DEF IInv, Types
    <3>4. wire' = Append(wire, writeBufferVector[out + 1])
      BY <3>1, <3>2, <3>3, Own
    <3>5. operations[1].out = out
      BY <3>2
    <3>6. Newest < writeBufferVector[out + 1] /\ writeBufferVector[out + 1] <= queued
      BY <2>0, <3>2, <3>3, <3>5 DEF IInv, OrderInv
    <3>7. Newest \in Nat /\ queued \in Nat /\ writeBufferVector[out + 1] \in Nat
      BY <3>3, LatestFacts DEF Types, Newest
    <3>8. writeBufferVector[out + 1] \in (Newest + 1)..queued
      BY <3>6, <3>7
    <3>9. UNCHANGED queued
      BY <2>2 DEF PutOut
    <3>10. QED BY <3>4, <3>8, <3>9 DEF Channel!Next, Channel!Deliver, Newest
  <2>3. ASSUME NEW t \in Threads, Send(t) \/ Test(t) \/ Take(t) \/ StartWrite(t)
        PROVE  UNCHANGED <<queued, wire>>
    BY <2>3 DEF Send, Test, Take, StartWrite
  <2>4. CASE Handlers \/ ReadFails \/ Open \/ OpenTerminates \/ CloseCancel \/ Close \/ UNCHANGED vars
    BY <2>4 DEF Handlers, WriteDone, WriteFails, WriteAborted, ReadFails, Open, OpenTerminates,
       CloseCancel, Close, CloseJoin, CloseThrows, vars
  <2>5. QED BY <2>1, <2>2, <2>3, <2>4 DEF Next, Step
<1>3. QED BY Invariant, <1>1, <1>2, PTL DEF Spec, ImplementsChannel

-----------------------------------------------------------------------------
(* No frame is forgotten in the queue, whoever sends: when asyncWrite() was *)
(* not called, because asyncWriteInProgress was set, there is a write that *)
(* ends in a handler that calls it, or a thread that is there already.     *)
PcType == pc \in [Threads -> {"idle", "queue", "test", "take", "start"}]

Underway == operations # <<>> \/ \E t \in Threads : pc[t] \in {"take", "start"}

Attended ==
    port = "open" /\ ~writeFailed =>
        /\ asyncWriteInProgress => Underway
        /\ sessions = 1 /\ writeQueue # <<>> => Underway \/ \E t \in Threads : pc[t] = "test"

(* Nobody is in send() at a port that is not open, a port that is not open *)
(* has no write, and there is nothing before the first session.            *)
PortInv ==
    /\ sessions \in Nat /\ PcType
    /\ port = "open" => ioThread = "running" /\ isOpen
    /\ port # "open" => CallersIdle
    /\ ioThread \in {"none", "joined"} => pc["io"] = "idle" /\ ~asyncWriteInProgress
    /\ sessions = 0 => port = "closed" /\ ioThread = "none" /\ writeQueue = <<>>

Write == [frames : Seq(Nat), out : Nat]

WriteTypes ==
    /\ queued \in Nat /\ writeQueue \in Seq(Nat) /\ writeBufferVector \in Seq(Nat)
    /\ operations \in Seq(Write)

LEMMA EmptySequence == ASSUME NEW S PROVE <<>> \in Seq(S)
  OBVIOUS

LEMMA WriteOut ==
    ASSUME operations \in Seq(Write), NEW i \in DOMAIN operations
    PROVE  [operations EXCEPT ![i].out = @ + 1] \in Seq(Write)
<1> DEFINE op == [operations[i] EXCEPT !.out = @ + 1]
<1>1. operations[i] \in Write
  OBVIOUS
<1>2. op \in Write
  <2>1. op = [operations[i] EXCEPT !.out = operations[i].out + 1]
    OBVIOUS
  <2>2. operations[i].out + 1 \in Nat
    BY <1>1 DEF Write
  <2> HIDE DEF op
  <2>3. QED BY <1>1, <2>1, <2>2 DEF Write
<1>3. [operations EXCEPT ![i].out = @ + 1] = [operations EXCEPT ![i] = op]
  OBVIOUS
<1> HIDE DEF op
<1>4. QED BY <1>2, <1>3

LEMMA WriteGone ==
    ASSUME operations \in Seq(Write), NEW i \in DOMAIN operations
    PROVE  RemoveAt(operations, i) \in Seq(Write)
  BY DEF RemoveAt

LEMMA StepWriteTypes == WriteTypes /\ [Next]_vars => WriteTypes'
<1> SUFFICES ASSUME WriteTypes, [Next]_vars PROVE WriteTypes'
  OBVIOUS
<1> USE DEF queueVars, history
<1>1. ASSUME NEW t \in Threads, Enqueue(t) PROVE WriteTypes'
  BY <1>1 DEF Enqueue, WriteTypes
<1>2. ASSUME NEW t \in Threads, Send(t) \/ Test(t) PROVE WriteTypes'
  BY <1>2 DEF Send, Test, WriteTypes
<1>3. ASSUME NEW t \in Threads, Take(t) PROVE WriteTypes'
  <2>1. UNCHANGED <<queued, operations>>
    BY <1>3 DEF Take
  <2>2. \/ UNCHANGED <<writeQueue, writeBufferVector>>
        \/ writeBufferVector' = writeQueue /\ writeQueue' = <<>>
    BY <1>3 DEF Take, Moved
  <2>3. writeQueue' \in Seq(Nat) /\ writeBufferVector' \in Seq(Nat)
    <3>1. writeQueue \in Seq(Nat) /\ writeBufferVector \in Seq(Nat) /\ <<>> \in Seq(Nat)
      BY EmptySequence DEF WriteTypes
    <3>2. QED BY <2>2, <3>1, Zenon
  <2>4. QED BY <2>1, <2>3 DEF WriteTypes
<1>4. ASSUME NEW t \in Threads, StartWrite(t) PROVE WriteTypes'
  <2>1. Operation(writeBufferVector) \in Write
    BY DEF WriteTypes, Operation, Write
  <2>2. QED BY <1>4, <2>1 DEF StartWrite, WriteTypes
<1>5. CASE PutOut
  BY <1>5, WriteOut DEF PutOut, WriteTypes
<1>6. CASE WriteDone \/ WriteFails \/ WriteAborted
  <2>1. \E i \in DOMAIN operations : operations' = RemoveAt(operations, i)
    BY <1>6 DEF WriteDone, WriteFails, WriteAborted
  <2>2. UNCHANGED <<queued, writeBufferVector>> /\ writeQueue' \in {writeQueue, <<>>}
    BY <1>6 DEF WriteDone, WriteFails, WriteAborted
  <2>3. operations' \in Seq(Write)
    BY <2>1, WriteGone DEF WriteTypes
  <2>4. writeQueue' \in Seq(Nat)
    <3>1. writeQueue \in Seq(Nat) /\ <<>> \in Seq(Nat)
      BY EmptySequence DEF WriteTypes
    <3>2. QED BY <2>2, <3>1, Zenon
  <2>5. QED BY <2>2, <2>3, <2>4 DEF WriteTypes
<1>7. CASE ReadFails \/ Open \/ OpenTerminates \/ CloseCancel \/ Close \/ UNCHANGED vars
  <2>1. UNCHANGED <<queued, writeQueue, writeBufferVector>> /\ operations' \in {operations, <<>>}
    BY <1>7 DEF ReadFails, Open, OpenTerminates, CloseCancel, Close, CloseJoin, CloseThrows, vars
  <2>2. operations' \in Seq(Write)
    <3>1. operations \in Seq(Write) /\ <<>> \in Seq(Write)
      BY EmptySequence DEF WriteTypes
    <3>2. QED BY <2>1, <3>1, Zenon
  <2>3. QED BY <2>1, <2>2 DEF WriteTypes
<1>8. QED
  BY <1>1, <1>2, <1>3, <1>4, <1>5, <1>6, <1>7 DEF Next, Step, Handlers

LEMMA StepPortInv == PortInv /\ [Next]_vars => PortInv'
<1> SUFFICES ASSUME PortInv, [Next]_vars PROVE PortInv'
  OBVIOUS
<1> USE DEF queueVars, portVars, history
<1>0. /\ "io" \in Threads /\ (\A t \in Threads : t = "io" \/ t \in Callers)
      /\ sessions \in Nat /\ PcType
  BY DEF Threads, PortInv
<1>1. ASSUME NEW t \in Threads, NEW stage \in {"idle", "queue", "test", "take", "start"},
             pc' = [pc EXCEPT ![t] = stage], UNCHANGED portVars,
             port = "open" \/ (t = "io" /\ ioThread \notin {"none", "joined"})
      PROVE  PortInv'
  <2>1. PcType' /\ \A u \in Threads : u # t => pc'[u] = pc[u]
    BY <1>0, <1>1 DEF PcType
  <2>2. ioThread \notin {"none", "joined"}
    BY <1>1 DEF PortInv
  <2>3. port # "open" => CallersIdle'
    <3> SUFFICES ASSUME port # "open", NEW u \in Callers PROVE pc'[u] = "idle"
      BY DEF CallersIdle
    <3>1. t = "io" /\ u # "io" /\ u \in Threads
      BY <1>1, CallersAssumption DEF Threads
    <3>2. QED BY <2>1, <3>1 DEF PortInv, CallersIdle
  <2>4. QED BY <1>1, <2>1, <2>2, <2>3 DEF PortInv
<1>2. ASSUME NEW t \in Threads, Send(t) PROVE PortInv'
  BY <1>1, <1>2 DEF Send
<1>3. ASSUME NEW t \in Threads, Step(t) PROVE PortInv'
  <2>1. pc[t] # "idle"
    BY <1>3 DEF Step, Enqueue, Test, Take, StartWrite
  <2>2. port = "open" \/ (t = "io" /\ ioThread \notin {"none", "joined"})
    BY <1>0, <2>1 DEF PortInv, CallersIdle
  <2>3. \E stage \in {"idle", "queue", "test", "take", "start"} : pc' = [pc EXCEPT ![t] = stage]
    BY <1>3 DEF Step, Enqueue, Test, Take, StartWrite
  <2>4. UNCHANGED portVars
    BY <1>3 DEF Step, Enqueue, Test, Take, StartWrite
  <2>5. QED BY <1>1, <2>2, <2>3, <2>4
<1>4. CASE WriteDone
  BY <1>0, <1>1, <1>4 DEF WriteDone, IoIdle
<1>5. CASE PutOut \/ WriteFails \/ ReadFails \/ UNCHANGED vars
  BY <1>5 DEF PutOut, WriteFails, ReadFails, vars, PortInv, PcType, CallersIdle
<1>6. CASE WriteAborted
  BY <1>6 DEF WriteAborted, PortInv, PcType, CallersIdle
<1>7. CASE Open
  <2>1. UNCHANGED <<queueVars, pc>> /\ sessions' = sessions + 1 /\ CallersIdle /\ isOpen'
    BY <1>7 DEF Open
  <2>2. \/ port' = "open" /\ ioThread' = "running"
        \/ UNCHANGED <<port, ioThread>> /\ port # "open"
    BY <1>7 DEF Open, PortInv
  <2>3. QED BY <1>0, <2>1, <2>2 DEF PortInv, PcType, CallersIdle
<1>8. CASE OpenTerminates
  <2>1. UNCHANGED <<queueVars, pc, port, isOpen>> /\ sessions' = sessions + 1 /\ ~isOpen
        /\ ioThread' = "terminated"
    BY <1>8 DEF OpenTerminates
  <2>2. QED BY <1>0, <2>1 DEF PortInv, PcType, CallersIdle
<1>9. CASE CloseCancel
  BY <1>9 DEF CloseCancel, PortInv, PcType, CallersIdle
<1>10. CASE CloseJoin
  BY <1>10 DEF CloseJoin, PortInv, PcType, CallersIdle, FlagOnceClosed
<1>11. CASE CloseThrows
  BY <1>11 DEF CloseThrows, PortInv, PcType, CallersIdle
<1>12. QED
  BY <1>2, <1>3, <1>4, <1>5, <1>6, <1>7, <1>8, <1>9, <1>10, <1>11 DEF Next, Handlers, Close

LEMMA StepAttended == WriteTypes /\ PortInv /\ Attended /\ [Next]_vars => Attended'
<1> SUFFICES ASSUME WriteTypes, PortInv, Attended, [Next]_vars PROVE Attended'
  OBVIOUS
<1> USE DEF queueVars, portVars, history
<1>0. "io" \in Threads /\ PcType /\ sessions \in Nat
  BY DEF Threads, PortInv
<1>1. ASSUME NEW t \in Threads, NEW stage, pc' = [pc EXCEPT ![t] = stage]
      PROVE  pc'[t] = stage /\ \A u \in Threads : u # t => pc'[u] = pc[u]
  BY <1>0, <1>1 DEF PcType
<1>2. ASSUME NEW t \in Threads, Send(t) PROVE Attended'
  <2>1. pc[t] = "idle" /\ UNCHANGED <<queueVars, portVars, history, operations>>
        /\ pc' = [pc EXCEPT ![t] = "queue"]
    BY <1>2 DEF Send
  <2>2. \A u \in Threads : pc[u] \in {"test", "take", "start"} => pc'[u] = pc[u]
    BY <1>1, <2>1
  <2>3. QED BY <2>1, <2>2 DEF Attended, Underway
<1>3. ASSUME NEW t \in Threads, Enqueue(t) PROVE Attended'
  <2>1. /\ pc[t] = "queue" /\ pc' = [pc EXCEPT ![t] = "test"]
        /\ UNCHANGED <<asyncWriteInProgress, portVars, writeFailed, operations>>
    BY <1>3 DEF Enqueue
  <2>2. pc'[t] = "test" /\ \A u \in Threads : pc[u] \in {"take", "start"} => pc'[u] = pc[u]
    BY <1>1, <2>1
  <2>3. QED BY <2>1, <2>2 DEF Attended, Underway
<1>4. ASSUME NEW t \in Threads, Test(t) PROVE Attended'
  <2>1. pc[t] = "test" /\ UNCHANGED <<queueVars, portVars, writeFailed, operations>>
    BY <1>4 DEF Test
  <2>2. CASE asyncWriteInProgress
    <3>1. pc' = [pc EXCEPT ![t] = "idle"]
      BY <1>4, <2>2 DEF Test, MustWrite
    <3>2. \A u \in Threads : pc[u] \in {"take", "start"} => pc'[u] = pc[u]
      BY <1>1, <2>1, <3>1
    <3>3. QED BY <2>1, <2>2, <3>2 DEF Attended, Underway
  <2>3. CASE ~asyncWriteInProgress
    <3>1. pc' = [pc EXCEPT ![t] = "take"]
      BY <1>4, <2>3 DEF Test, MustWrite
    <3>2. pc'[t] = "take"
      BY <1>1, <3>1
    <3>3. QED BY <2>1, <3>2 DEF Attended, Underway
  <2>4. QED BY <2>2, <2>3
<1>5. ASSUME NEW t \in Threads, Take(t) PROVE Attended'
  <2>1. pc[t] = "take" /\ asyncWriteInProgress' = (writeQueue # <<>>) /\ writeQueue' = <<>>
    BY <1>5 DEF Take, NothingPending
  <2>2. CASE writeQueue = <<>>
    BY <2>1, <2>2 DEF Attended
  <2>3. CASE writeQueue # <<>>
    <3>1. pc' = [pc EXCEPT ![t] = "start"]
      BY <1>5, <2>3 DEF Take, NothingPending
    <3>2. pc'[t] = "start"
      BY <1>1, <3>1
    <3>3. QED BY <2>1, <3>2 DEF Attended, Underway
  <2>4. QED BY <2>2, <2>3
<1>6. ASSUME NEW t \in Threads, StartWrite(t) PROVE Attended'
  <2>1. operations' # <<>>
    <3>1. operations' = Append(operations, Operation(writeBufferVector))
      BY <1>6 DEF StartWrite
    <3>2. Operation(writeBufferVector) \in Write /\ operations \in Seq(Write)
      BY DEF WriteTypes, Operation, Write
    <3>3. Len(operations') = Len(operations) + 1 /\ Len(operations) \in Nat
      BY <3>1, <3>2
    <3>4. QED BY <3>3
  <2>2. QED BY <2>1 DEF Attended, Underway
<1>7. CASE PutOut
  <2>1. UNCHANGED <<queueVars, portVars, pc, writeFailed>>
    BY <1>7 DEF PutOut
  <2>2. operations' # <<>>
    <3>1. PICK i \in DOMAIN operations : operations' = [operations EXCEPT ![i].out = @ + 1]
      BY <1>7 DEF PutOut
    <3>2. i \in DOMAIN operations'
      BY <3>1
    <3>3. QED BY <3>2
  <2>3. QED BY <2>1, <2>2 DEF Attended, Underway
<1>8. CASE WriteDone
  <2>1. pc' = [pc EXCEPT !["io"] = "take"]
    BY <1>8 DEF WriteDone
  <2>2. pc'["io"] = "take"
    BY <1>0, <1>1, <2>1
  <2>3. QED BY <1>0, <2>2 DEF Attended, Underway
<1>9. CASE WriteFails
  BY <1>9 DEF WriteFails, Attended
<1>10. CASE WriteAborted
  BY <1>10 DEF WriteAborted, Attended
<1>11. CASE ReadFails \/ UNCHANGED vars
  BY <1>11 DEF ReadFails, vars, Attended, Underway
<1>12. CASE Open
  <2>1. /\ UNCHANGED <<writeQueue, asyncWriteInProgress>> /\ sessions' = sessions + 1
        /\ ioThread \in {"none", "joined"}
    BY <1>12 DEF Open
  <2>2. ~asyncWriteInProgress' /\ (sessions' = 1 => writeQueue' = <<>>)
    BY <1>0, <2>1 DEF PortInv
  <2>3. QED BY <2>2 DEF Attended
<1>13. CASE OpenTerminates
  <2>1. port' = port /\ ~isOpen
    BY <1>13 DEF OpenTerminates
  <2>2. QED BY <2>1 DEF PortInv, Attended
<1>14. CASE CloseCancel
  BY <1>14 DEF CloseCancel, Attended
<1>15. CASE CloseJoin
  BY <1>15 DEF CloseJoin, Attended
<1>16. CASE CloseThrows
  BY <1>16 DEF CloseThrows, Attended, Underway
<1>17. QED
  BY <1>2, <1>3, <1>4, <1>5, <1>6, <1>7, <1>8, <1>9, <1>10, <1>11, <1>12, <1>13, <1>14, <1>15, <1>16
  DEF Next, Step, Handlers, Close

(* A frame that waits at an open port waits for a write that is under way   *)
(* or about to start, unless a write failed, however many threads send and *)
(* the io thread among them: the test of asyncWriteInProgress without the  *)
(* mutex starts writes that overlap, but leaves no frame behind.  This is  *)
(* what QueueDrains needs besides fairness, in the first session: later    *)
(* ones open with what close() left in the queue.                          *)
THEOREM NoFrameForgotten == Spec => []Attended
<1>1. Init => WriteTypes /\ PortInv /\ Attended
  BY DEF Init, WriteTypes, PortInv, Attended, PcType, CallersIdle, Threads
<1>2. QED BY <1>1, StepWriteTypes, StepPortInv, StepAttended, PTL DEF Spec
=============================================================================
