----------------------- MODULE DriverLifecycle_proofs -----------------------
(***************************************************************************)
(* Proofs about the session of an adapter and its event thread, for any    *)
(* application threads and any number of events: the types, that the       *)
(* thread lives inside the session only, that no event is left to a thread *)
(* that sleeps, and that events are handled in order, at most once and     *)
(* never after the session they belong to; for one application thread,     *)
(* that the GAP state follows the transport; that only a close() in a      *)
(* callback can stop every thread; and that the link is used as H5Link     *)
(* says.                                                                   *)
(***************************************************************************)
EXTENDS DriverLifecycle, Integers, TLAPS

-----------------------------------------------------------------------------
(* The invariant.                                                          *)

Labels == {"idle", "open", "open_transport", "open_thread", "open_wait", "open_ready", "create",
           "close", "close_stop", "close_join", "close_link", "delete", "send", "send_wait"}

(* The stages that own publicMethodMutex, and those that own isOpenMutex.  *)
AdapterHeld   == {"open_transport", "open_thread", "open_wait", "open_ready", "close_stop",
                  "close_join", "close_link"}
TransportHeld == {"open_thread", "open_wait", "open_ready", "send_wait"}

LockInv ==
    \A t \in Threads : /\ pc[t] \in AdapterHeld => publicMethodMutex = t
                       /\ pc[t] \in TransportHeld => isOpenMutex = t

(* Between OpenLink and OpenThread the transport is open, the link is      *)
(* closed only when the event thread is joined, and open() waits only for  *)
(* a thread that has not waited yet, and will wake it when it does.        *)
SessionInv ==
    /\ ThreadInsideSession
    /\ \A t \in Threads : /\ pc[t] = "open_thread" => isOpen
                          /\ pc[t] = "close_link" => eventThread = "none"
                          /\ pc[t] = "open_wait" => eventThread \in {"started", "drained"}

(* The queue holds the last events that arrived, those handled are older,  *)
(* and once it was drained it holds none from before the session.          *)
Taken == arrived - Len(eventQueue)

QueueInv ==
    /\ \A i \in 1..Len(eventQueue) : eventQueue[i] = Taken + i
    /\ Channel!Latest(handled) <= Taken
    /\ before <= arrived
    /\ eventThread \in {"drained", "waiting", "woken", "callback"} => before <= Taken

IInv == TypeOK /\ LockInv /\ SessionInv /\ QueueInv /\ NoLostWakeup

-----------------------------------------------------------------------------
LEMMA GotoFacts ==
    ASSUME pc \in [Threads -> Labels], NEW t \in Threads, NEW label \in Labels, Goto(t, label)
    PROVE  /\ pc' \in [Threads -> Labels] /\ pc'[t] = label
           /\ \A u \in Threads : u # t => pc'[u] = pc[u]
  BY DEF Goto

LEMMA WakeFacts ==
    ASSUME pc \in [Threads -> Labels]
    PROVE  /\ WakeOpen \in [Threads -> Labels]
           /\ \A t \in Threads : /\ WakeOpen[t] # "open_wait"
                                 /\ pc[t] # "open_wait" => WakeOpen[t] = pc[t]
                                 /\ pc[t] = "open_wait" => WakeOpen[t] = "open_ready"
<1>1. \A t \in Threads : WakeOpen[t] = IF pc[t] = "open_wait" THEN "open_ready" ELSE pc[t]
  BY DEF WakeOpen, OpenWaits
<1>2. WakeOpen \in [Threads -> Labels]
  BY DEF WakeOpen, Labels
<1>3. QED BY <1>1, <1>2

LEMMA QueueFacts ==
    ASSUME NEW S, NEW q \in Seq(S), NEW e \in S
    PROVE  /\ Append(q, e) \in Seq(S) /\ Len(q) \in Nat /\ Len(Append(q, e)) = Len(q) + 1
           /\ \A i \in 1..Len(q) : Append(q, e)[i] = q[i]
           /\ Append(q, e)[Len(q) + 1] = e
           /\ <<>> \in Seq(S) /\ Len(<<>>) = 0
  OBVIOUS

LEMMA TailFacts ==
    ASSUME NEW S, NEW q \in Seq(S), q # <<>>
    PROVE  /\ Tail(q) \in Seq(S) /\ Len(q) \in Nat \ {0} /\ Len(Tail(q)) = Len(q) - 1
           /\ Head(q) = q[1] /\ Head(q) \in S
           /\ \A i \in 1..Len(Tail(q)) : Tail(q)[i] = q[i + 1] /\ i + 1 \in 1..Len(q)
  OBVIOUS

(* What each thread of a call leaves alone.                                *)
LEMMA OpenCloseFrame ==
    ASSUME NEW t \in Threads, Call(t) \/ Resume(t)
    PROVE  UNCHANGED <<eventQueue, arrived, handled, early>>
  BY DEF Call, Resume, Open, Close, OpenAdapter, OpenRefused, OpenFails, OpenLink, OpenThread,
     OpenReturn, GapStateCreate, CloseAdapter, CloseStop, CloseJoin, CloseLink, GapStateDelete,
     Send, SendReturns, events

LEMMA InitIInv == Init => IInv
<1> SUFFICES ASSUME Init PROVE IInv
  OBVIOUS
<1>1. TypeOK
  <2>1. eventQueue \in Seq(1..MaxEvents) /\ handled \in Seq(1..MaxEvents)
        /\ Len(eventQueue) + Len(handled) <= arrived
    BY DEF Init
  <2>2. arrived \in 0..MaxEvents /\ early \in 0..MaxEvents /\ before \in 0..MaxEvents
    BY MaxEventsAssumption DEF Init
  <2>3. QED BY <2>1, <2>2 DEF Init, TypeOK
<1>2. LockInv /\ SessionInv /\ NoLostWakeup
  BY DEF Init, LockInv, AdapterHeld, TransportHeld, SessionInv, ThreadInsideSession, NoLostWakeup
<1>3. QueueInv
  BY DEF Init, QueueInv, Taken, Channel!Latest
<1>4. QED BY <1>1, <1>2, <1>3 DEF IInv

-----------------------------------------------------------------------------
(* Types.                                                                  *)

PcType == pc \in [Threads -> Labels]

LEMMA TypeFacts ==
    TypeOK => /\ PcType
              /\ arrived \in Nat /\ arrived <= MaxEvents /\ MaxEvents \in Nat
              /\ eventQueue \in Seq(1..MaxEvents) /\ handled \in Seq(1..MaxEvents)
              /\ Len(eventQueue) \in Nat /\ Len(handled) \in Nat /\ before \in Nat
              /\ Len(eventQueue) + Len(handled) <= arrived
  BY MaxEventsAssumption DEF TypeOK, PcType, Labels

LEMMA StepPcType == TypeOK /\ [Next]_vars => PcType'
<1> SUFFICES ASSUME TypeOK, [Next]_vars PROVE PcType'
  OBVIOUS
<1>0. PcType
  BY TypeFacts
<1>1. ASSUME NEW t \in Threads, Call(t) \/ Resume(t) PROVE PcType'
  <2>1. AfterClose \in Labels /\ Joins(t) \in Labels
    BY DEF AfterClose, Joins, Labels
  <2>2. \A label \in Labels : Goto(t, label) => PcType'
    BY <1>0, GotoFacts DEF PcType
  <2>3. CASE Call(t)
    <3>1. {"open", "close", "send"} \subseteq Labels /\ CallbackCalls \subseteq Labels
      BY CallsAssumption DEF Labels
    <3>2. QED BY <2>2, <2>3, <3>1 DEF Call
  <2>4. CASE Resume(t)
    <3>1. \E label \in Labels : Goto(t, label)
      BY <2>1, <2>4 DEF Resume, Open, Close, OpenAdapter, OpenRefused, OpenFails, OpenLink,
         OpenThread, OpenReturn, GapStateCreate, CloseAdapter, CloseStop, CloseJoin, CloseLink,
         GapStateDelete, Send, SendReturns, Labels
    <3>2. QED BY <2>2, <3>1
  <2>5. QED BY <1>1, <2>3, <2>4
<1>2. CASE FirstWait \/ NoMoreEvents \/ ReadHandler
  <2>1. pc' = WakeOpen \/ pc' = pc
    BY <1>2 DEF FirstWait, NoMoreEvents, WaitOrEnd, LoopWakes, ReadHandler
  <2>2. QED BY <1>0, <2>1, WakeFacts DEF PcType
<1>3. CASE DrainEventQueue \/ TakeEvent \/ LinkBreaks \/ UNCHANGED vars
  BY <1>0, <1>3 DEF DrainEventQueue, TakeEvent, LinkBreaks, vars, PcType
<1>4. QED BY <1>1, <1>2, <1>3 DEF Next, EventThread

(* The control state.                                                      *)
ControlType ==
    /\ {publicMethodMutex, isOpenMutex} \subseteq Threads \union {"none"}
    /\ {adapterIsOpen, isOpen, processEvents, gapState} \subseteq BOOLEAN
    /\ link \in {"idle", "running", "down", "spent"}
    /\ eventThread \in {"none", "started", "drained", "waiting", "woken", "callback", "ended"}

LEMMA StepControlType == TypeOK /\ [Next]_vars => ControlType'
<1> SUFFICES ASSUME TypeOK, [Next]_vars PROVE ControlType'
  OBVIOUS
<1>0. ControlType
  BY DEF TypeOK, ControlType
<1>1. ASSUME NEW t \in Threads, Call(t) PROVE ControlType'
  BY <1>0, <1>1 DEF Call, locks, opens, events, ControlType
<1>2. ASSUME NEW t \in Threads, Open(t) PROVE ControlType'
  <2>1. CASE OpenAdapter(t) \/ OpenRefused(t)
    BY <1>0, <2>1 DEF OpenAdapter, OpenRefused, opens, events, ControlType
  <2>2. CASE OpenFails(t) \/ OpenLink(t)
    BY <1>0, <2>2 DEF OpenFails, OpenLink, Link!Fails, Link!Opens, events, ControlType
  <2>3. CASE OpenThread(t) \/ OpenReturn(t) \/ GapStateCreate(t)
    BY <1>0, <2>3 DEF OpenThread, OpenReturn, GapStateCreate, locks, opens, events, ControlType
  <2>4. QED BY <1>2, <2>1, <2>2, <2>3 DEF Open
<1>3. ASSUME NEW t \in Threads, Close(t) \/ Send(t) \/ SendReturns(t) PROVE ControlType'
  <2>1. CASE CloseAdapter(t) \/ CloseStop(t)
    BY <1>0, <2>1 DEF CloseAdapter, CloseStop, WakeEventThread, opens, events, ControlType
  <2>2. CASE CloseJoin(t) \/ CloseLink(t) \/ GapStateDelete(t)
    BY <1>0, <2>2 DEF CloseJoin, CloseLink, GapStateDelete, Link!Closes, locks, opens, events, ControlType
  <2>3. CASE Send(t) \/ SendReturns(t)
    BY <1>0, <2>3 DEF Send, SendReturns, opens, events, ControlType
  <2>4. QED BY <1>3, <2>1, <2>2, <2>3 DEF Close
<1>4. CASE EventThread
  BY <1>0, <1>4 DEF EventThread, DrainEventQueue, FirstWait, TakeEvent, NoMoreEvents, WaitOrEnd,
     locks, opens, ControlType
<1>5. CASE ReadHandler \/ LinkBreaks \/ UNCHANGED vars
  BY <1>0, <1>5 DEF ReadHandler, LinkBreaks, Link!Breaks, vars, locks, opens, events, ControlType
<1>6. QED BY <1>1, <1>2, <1>3, <1>4, <1>5 DEF Next, Resume

(* Events.                                                                 *)
EventType ==
    /\ arrived \in 0..MaxEvents /\ early \in 0..MaxEvents /\ before \in 0..MaxEvents
    /\ eventQueue \in Seq(1..MaxEvents) /\ handled \in Seq(1..MaxEvents)
    /\ Len(eventQueue) + Len(handled) <= arrived

LEMMA StepEventType == TypeOK /\ [Next]_vars => EventType'
<1> SUFFICES ASSUME TypeOK, [Next]_vars PROVE EventType'
  OBVIOUS
<1>0. EventType
  BY DEF TypeOK, EventType
<1>1. ASSUME NEW t \in Threads, Call(t) \/ Resume(t) PROVE EventType'
  <2>1. before' \in {before, arrived}
    BY <1>1 DEF Call, Resume, Open, Close, OpenAdapter, OpenRefused, OpenFails, OpenLink,
       OpenThread, OpenReturn, GapStateCreate, CloseAdapter, CloseStop, CloseJoin, CloseLink,
       GapStateDelete, Send, SendReturns, events
  <2>2. QED BY <1>0, <1>1, <2>1, OpenCloseFrame DEF EventType
<1>2. CASE DrainEventQueue
  <2>1. eventQueue' = <<>> /\ Len(eventQueue') = 0
    BY <1>2 DEF DrainEventQueue, Drained
  <2>2. eventQueue' \in Seq(1..MaxEvents) /\ Len(eventQueue') + Len(handled) <= arrived
    BY <2>1, TypeFacts
  <2>3. QED BY <1>0, <1>2, <2>2 DEF DrainEventQueue, EventType
<1>3. CASE FirstWait \/ NoMoreEvents
  BY <1>0, <1>3 DEF FirstWait, NoMoreEvents, WaitOrEnd, EventType
<1>4. CASE TakeEvent
  <2>1. eventQueue # <<>> /\ eventQueue' = Tail(eventQueue) /\ handled' = Append(handled, Head(eventQueue))
    BY <1>4 DEF TakeEvent, HasEvent, Popped
  <2>2. /\ eventQueue' \in Seq(1..MaxEvents) /\ Len(eventQueue') = Len(eventQueue) - 1
        /\ Head(eventQueue) \in 1..MaxEvents
    BY <2>1, TypeFacts, TailFacts
  <2>3. handled' \in Seq(1..MaxEvents) /\ Len(handled') = Len(handled) + 1
    BY <2>1, <2>2, TypeFacts, QueueFacts
  <2>4. Len(eventQueue') + Len(handled') <= arrived
    BY <2>2, <2>3, TypeFacts
  <2>5. QED BY <1>0, <1>4, <2>2, <2>3, <2>4 DEF TakeEvent, EventType
<1>5. CASE ReadHandler
  <2>1. arrived' = arrived + 1 /\ arrived' \in 0..MaxEvents /\ arrived' \in 1..MaxEvents
        /\ eventQueue' = Append(eventQueue, arrived')
    BY <1>5, TypeFacts DEF ReadHandler
  <2>2. eventQueue' \in Seq(1..MaxEvents) /\ Len(eventQueue') = Len(eventQueue) + 1
    BY <2>1, TypeFacts, QueueFacts
  <2>3. Len(eventQueue') + Len(handled) <= arrived'
    BY <2>1, <2>2, TypeFacts
  <2>4. QED BY <1>0, <1>5, <2>1, <2>2, <2>3 DEF ReadHandler, EventType
<1>6. CASE LinkBreaks \/ UNCHANGED vars
  BY <1>0, <1>6 DEF LinkBreaks, vars, events, EventType
<1>7. QED BY <1>1, <1>2, <1>3, <1>4, <1>5, <1>6 DEF Next, EventThread

LEMMA StepTypeOK == TypeOK /\ [Next]_vars => TypeOK'
<1> SUFFICES ASSUME TypeOK, [Next]_vars PROVE TypeOK'
  OBVIOUS
<1>1. PcType' /\ ControlType' /\ EventType'
  BY StepPcType, StepControlType, StepEventType
<1>2. QED BY <1>1 DEF PcType, ControlType, EventType, Labels, TypeOK

-----------------------------------------------------------------------------
(* Locks: a step of a thread takes a free mutex or gives back its own.     *)

LEMMA LockStep ==
    ASSUME PcType, LockInv, NEW t \in Threads, NEW label \in Labels, Goto(t, label),
           publicMethodMutex' = publicMethodMutex \/ publicMethodMutex \in {"none", t},
           isOpenMutex' = isOpenMutex \/ isOpenMutex \in {"none", t},
           label \in AdapterHeld => publicMethodMutex' = t,
           label \in TransportHeld => isOpenMutex' = t
    PROVE  LockInv'
<1>1. pc'[t] = label /\ \A u \in Threads : u # t => pc'[u] = pc[u]
  BY GotoFacts DEF PcType
<1>2. "none" \notin Threads
  BY AppsAssumption DEF Threads
<1>3. ASSUME NEW u \in Threads, u # t
      PROVE  /\ pc'[u] \in AdapterHeld => publicMethodMutex' = u
             /\ pc'[u] \in TransportHeld => isOpenMutex' = u
  BY <1>1, <1>2, <1>3 DEF LockInv
<1>4. QED BY <1>1, <1>3 DEF LockInv

LEMMA StepLockInv == TypeOK /\ LockInv /\ [Next]_vars => LockInv'
<1> SUFFICES ASSUME TypeOK, LockInv, [Next]_vars PROVE LockInv'
  OBVIOUS
<1>0. PcType
  BY TypeFacts
<1>1. ASSUME NEW t \in Threads, Call(t) PROVE LockInv'
  <2>1. PICK label \in {"open", "close", "send"} : Goto(t, label)
    BY <1>1, CallsAssumption DEF Call
  <2>2. label \in Labels \ (AdapterHeld \union TransportHeld)
    BY <2>1 DEF Labels, AdapterHeld, TransportHeld
  <2>3. UNCHANGED <<publicMethodMutex, isOpenMutex>>
    BY <1>1 DEF Call, locks
  <2>4. QED BY <1>0, <2>1, <2>2, <2>3, LockStep
<1>2. ASSUME NEW t \in Threads, Open(t) PROVE LockInv'
  <2>1. CASE OpenAdapter(t)
    <3>1. CASE adapterIsOpen
      BY <1>0, <2>1, <3>1, LockStep DEF OpenAdapter, Labels, AdapterHeld, TransportHeld
    <3>2. CASE ~adapterIsOpen
      BY <1>0, <2>1, <3>2, LockStep DEF OpenAdapter, Labels, AdapterHeld, TransportHeld
    <3>3. QED BY <3>1, <3>2
  <2>2. CASE OpenRefused(t) \/ OpenFails(t)
    <3>1. publicMethodMutex = t /\ isOpenMutex' = isOpenMutex /\ Goto(t, "idle")
      BY <2>2 DEF OpenRefused, OpenFails, LockInv, AdapterHeld
    <3>2. QED BY <1>0, <3>1, LockStep DEF Labels, AdapterHeld, TransportHeld
  <2>3. CASE OpenLink(t)
    <3>1. publicMethodMutex = t /\ publicMethodMutex' = t /\ isOpenMutex = "none"
          /\ isOpenMutex' = t /\ Goto(t, "open_thread")
      BY <2>3 DEF OpenLink, LockInv, AdapterHeld
    <3>2. QED BY <1>0, <3>1, LockStep DEF Labels
  <2>4. CASE OpenThread(t)
    <3>1. publicMethodMutex = t /\ isOpenMutex = t /\ Goto(t, "open_wait")
          /\ UNCHANGED <<publicMethodMutex, isOpenMutex>>
      BY <2>4 DEF OpenThread, LockInv, AdapterHeld, TransportHeld, locks
    <3>2. QED BY <1>0, <3>1, LockStep DEF Labels
  <2>5. CASE OpenReturn(t)
    <3>1. publicMethodMutex = t /\ isOpenMutex = t /\ Goto(t, "create")
      BY <2>5 DEF OpenReturn, LockInv, AdapterHeld, TransportHeld
    <3>2. QED BY <1>0, <3>1, LockStep DEF Labels, AdapterHeld, TransportHeld
  <2>6. CASE GapStateCreate(t)
    BY <1>0, <2>6, LockStep DEF GapStateCreate, locks, Labels, AdapterHeld, TransportHeld
  <2>7. QED BY <1>2, <2>1, <2>2, <2>3, <2>4, <2>5, <2>6 DEF Open
<1>3. ASSUME NEW t \in Threads, Close(t) PROVE LockInv'
  <2>0. AfterClose \in Labels \ (AdapterHeld \union TransportHeld)
    BY DEF AfterClose, Labels, AdapterHeld, TransportHeld
  <2>1. CASE CloseAdapter(t)
    <3>1. CASE adapterIsOpen
      BY <1>0, <2>1, <3>1, LockStep DEF CloseAdapter, Labels, AdapterHeld, TransportHeld
    <3>2. CASE ~adapterIsOpen
      BY <1>0, <2>0, <2>1, <3>2, LockStep DEF CloseAdapter
    <3>3. QED BY <3>1, <3>2
  <2>2. CASE CloseStop(t)
    <3>1. publicMethodMutex = t /\ isOpenMutex' = isOpenMutex /\ Goto(t, Joins(t))
          /\ publicMethodMutex' = IF Joins(t) = AfterClose THEN "none" ELSE t
      BY <2>2 DEF CloseStop, LockInv, AdapterHeld
    <3>2. Joins(t) \in {AfterClose, "close_link", "close_join"}
      BY DEF Joins
    <3>3. Joins(t) \in Labels \ TransportHeld
      BY <2>0, <3>2 DEF Labels, TransportHeld
    <3>4. Joins(t) \in AdapterHeld => publicMethodMutex' = t
      BY <2>0, <3>1
    <3>5. QED BY <1>0, <3>1, <3>3, <3>4, LockStep
  <2>3. CASE CloseJoin(t)
    <3>1. publicMethodMutex = t /\ Goto(t, "close_link") /\ UNCHANGED <<publicMethodMutex, isOpenMutex>>
      BY <2>3 DEF CloseJoin, LockInv, AdapterHeld, locks
    <3>2. QED BY <1>0, <3>1, LockStep DEF Labels, TransportHeld
  <2>4. CASE CloseLink(t)
    <3>1. publicMethodMutex = t /\ isOpenMutex' = isOpenMutex /\ Goto(t, AfterClose)
      BY <2>4 DEF CloseLink, LockInv, AdapterHeld
    <3>2. QED BY <1>0, <2>0, <3>1, LockStep
  <2>5. CASE GapStateDelete(t)
    BY <1>0, <2>5, LockStep DEF GapStateDelete, locks, Labels, AdapterHeld, TransportHeld
  <2>6. QED BY <1>3, <2>1, <2>2, <2>3, <2>4, <2>5 DEF Close
<1>4. ASSUME NEW t \in Threads, Send(t) PROVE LockInv'
  <2>1. CASE isOpen
    BY <1>0, <1>4, <2>1, LockStep DEF Send, Labels, AdapterHeld, TransportHeld
  <2>2. CASE ~isOpen
    BY <1>0, <1>4, <2>2, LockStep DEF Send, Labels, AdapterHeld, TransportHeld
  <2>3. QED BY <2>1, <2>2
<1>5. ASSUME NEW t \in Threads, SendReturns(t) PROVE LockInv'
  <2>1. isOpenMutex = t /\ publicMethodMutex' = publicMethodMutex /\ Goto(t, "idle")
    BY <1>5 DEF SendReturns, LockInv, TransportHeld
  <2>2. QED BY <1>0, <2>1, LockStep DEF Labels, AdapterHeld, TransportHeld
<1>6. CASE FirstWait \/ NoMoreEvents \/ ReadHandler
  <2>1. UNCHANGED <<publicMethodMutex, isOpenMutex>> /\ (pc' = WakeOpen \/ pc' = pc)
    BY <1>6 DEF FirstWait, NoMoreEvents, WaitOrEnd, LoopWakes, ReadHandler, locks
  <2>2. ASSUME NEW u \in Threads
        PROVE  /\ pc'[u] \in AdapterHeld => pc[u] \in AdapterHeld
               /\ pc'[u] \in TransportHeld => pc[u] \in TransportHeld
    BY <1>0, <2>1, WakeFacts DEF AdapterHeld, TransportHeld, PcType
  <2>3. QED BY <2>1, <2>2 DEF LockInv
<1>7. CASE DrainEventQueue \/ TakeEvent \/ LinkBreaks \/ UNCHANGED vars
  BY <1>7 DEF DrainEventQueue, TakeEvent, LinkBreaks, vars, locks, LockInv
<1>8. QED BY <1>1, <1>2, <1>3, <1>4, <1>5, <1>6, <1>7 DEF Next, Resume, EventThread

-----------------------------------------------------------------------------
(* The event thread.                                                       *)

LEMMA SessionFrame ==
    ASSUME PcType, SessionInv, NEW t \in Threads,
           NEW label \in Labels \ {"open_thread", "close_link", "open_wait"}, Goto(t, label),
           UNCHANGED <<isOpen, eventThread>>
    PROVE  SessionInv'
<1>1. pc'[t] = label /\ \A u \in Threads : u # t => pc'[u] = pc[u]
  BY GotoFacts DEF PcType
<1>2. QED BY <1>1 DEF SessionInv, ThreadInsideSession

LEMMA StepSessionInv == TypeOK /\ LockInv /\ SessionInv /\ [Next]_vars => SessionInv'
<1> SUFFICES ASSUME TypeOK, LockInv, SessionInv, [Next]_vars PROVE SessionInv'
  OBVIOUS
<1>0. PcType /\ AfterClose \in Labels \ {"open_thread", "close_link", "open_wait"}
  BY TypeFacts DEF AfterClose, Labels
<1>1. ASSUME NEW t \in Threads, Call(t) PROVE SessionInv'
  <2>1. PICK label \in {"open", "close", "send"} : Goto(t, label)
    BY <1>1, CallsAssumption DEF Call
  <2>2. QED BY <1>0, <1>1, <2>1, SessionFrame DEF Call, opens, events, Labels
<1>2. ASSUME NEW t \in Threads, Open(t) PROVE SessionInv'
  <2>1. CASE OpenAdapter(t)
    <3>1. PICK label \in {"idle", "open_transport"} : Goto(t, label)
      BY <2>1 DEF OpenAdapter
    <3>2. UNCHANGED <<isOpen, eventThread>>
      BY <2>1 DEF OpenAdapter, events
    <3>3. QED BY <1>0, <3>1, <3>2, SessionFrame DEF Labels
  <2>2. CASE OpenRefused(t) \/ OpenFails(t) \/ OpenReturn(t) \/ GapStateCreate(t)
    <3>1. PICK label \in {"idle", "create"} : Goto(t, label)
      BY <2>2 DEF OpenRefused, OpenFails, OpenReturn, GapStateCreate
    <3>2. UNCHANGED <<isOpen, eventThread>>
      BY <2>2 DEF OpenRefused, OpenFails, OpenReturn, GapStateCreate, opens, events
    <3>3. QED BY <1>0, <3>1, <3>2, SessionFrame DEF Labels
  <2>3. CASE OpenLink(t)
    <3>1. /\ pc'[t] = "open_thread" /\ \A u \in Threads : u # t => pc'[u] = pc[u]
          /\ isOpen' /\ eventThread' = eventThread
      BY <1>0, <2>3, GotoFacts DEF OpenLink, PcType, Labels
    <3>2. QED BY <3>1 DEF SessionInv, ThreadInsideSession
  <2>4. CASE OpenThread(t)
    <3>1. pc[t] = "open_thread" /\ publicMethodMutex = t /\ isOpen /\ isOpen'
          /\ eventThread' = "started"
      BY <2>4 DEF OpenThread, LockInv, AdapterHeld, SessionInv, opens
    <3>2. pc'[t] = "open_wait" /\ \A u \in Threads : u # t => pc'[u] = pc[u]
      BY <1>0, <2>4, GotoFacts DEF OpenThread, PcType, Labels
    <3>3. \A u \in Threads : u # t => pc[u] \notin {"close_link", "open_thread"}
      BY <3>1 DEF LockInv, AdapterHeld
    <3>4. QED BY <3>1, <3>2, <3>3 DEF SessionInv, ThreadInsideSession
  <2>5. QED BY <1>2, <2>1, <2>2, <2>3, <2>4 DEF Open
<1>3. ASSUME NEW t \in Threads, Close(t) PROVE SessionInv'
  <2>1. CASE CloseAdapter(t) \/ GapStateDelete(t)
    <3>1. PICK label \in {"idle", "close_stop", AfterClose} : Goto(t, label)
      BY <2>1 DEF CloseAdapter, GapStateDelete
    <3>2. UNCHANGED <<isOpen, eventThread>>
      BY <2>1 DEF CloseAdapter, GapStateDelete, events
    <3>3. label \in Labels \ {"open_thread", "close_link", "open_wait"}
      BY <1>0, <3>1 DEF Labels
    <3>4. QED BY <1>0, <3>1, <3>2, <3>3, SessionFrame
  <2>2. CASE CloseStop(t)
    <3>1. Joins(t) \in Labels \ {"open_thread", "open_wait"}
          /\ (Joins(t) = "close_link" => eventThread = "none")
      BY <1>0 DEF Joins, Labels
    <3>2. pc'[t] = Joins(t) /\ \A u \in Threads : u # t => pc'[u] = pc[u]
      BY <1>0, <2>2, <3>1, GotoFacts DEF CloseStop, PcType
    <3>3. isOpen' = isOpen /\ (eventThread' = eventThread \/ eventThread = "waiting")
      BY <2>2 DEF CloseStop, WakeEventThread, opens
    <3>4. QED BY <3>1, <3>2, <3>3 DEF SessionInv, ThreadInsideSession
  <2>3. CASE CloseJoin(t)
    <3>1. pc'[t] = "close_link" /\ \A u \in Threads : u # t => pc'[u] = pc[u]
      BY <1>0, <2>3, GotoFacts DEF CloseJoin, PcType, Labels
    <3>2. isOpen' = isOpen /\ eventThread = "ended" /\ eventThread' = "none"
      BY <2>3 DEF CloseJoin, opens
    <3>3. QED BY <3>1, <3>2 DEF SessionInv, ThreadInsideSession
  <2>4. CASE CloseLink(t)
    <3>1. pc'[t] = AfterClose /\ \A u \in Threads : u # t => pc'[u] = pc[u]
      BY <1>0, <2>4, GotoFacts DEF CloseLink, PcType
    <3>2. eventThread = "none" /\ eventThread' = "none" /\ isOpenMutex = "none"
      BY <2>4 DEF CloseLink, SessionInv, events
    <3>3. \A u \in Threads : pc[u] # "open_thread"
      <4>1. "none" \notin Threads
        BY AppsAssumption DEF Threads
      <4>2. QED BY <3>2, <4>1 DEF LockInv, TransportHeld
    <3>4. QED BY <1>0, <3>1, <3>2, <3>3 DEF SessionInv, ThreadInsideSession, AfterClose
  <2>5. QED BY <1>3, <2>1, <2>2, <2>3, <2>4 DEF Close
<1>4. ASSUME NEW t \in Threads, Send(t) \/ SendReturns(t) PROVE SessionInv'
  <2>1. PICK label \in {"idle", "send_wait"} : Goto(t, label)
    BY <1>4 DEF Send, SendReturns
  <2>2. QED BY <1>0, <1>4, <2>1, SessionFrame DEF Send, SendReturns, opens, events, Labels
<1>5. CASE DrainEventQueue \/ TakeEvent
  BY <1>5 DEF DrainEventQueue, TakeEvent, Awake, opens, SessionInv, ThreadInsideSession
<1>6. CASE FirstWait \/ NoMoreEvents
  <2>1. pc' = WakeOpen /\ isOpen' = isOpen /\ eventThread \in {"drained", "woken", "callback"}
    BY <1>6 DEF FirstWait, NoMoreEvents, WaitOrEnd, LoopWakes, Awake, opens
  <2>2. \A u \in Threads : /\ pc'[u] # "open_wait"
                           /\ pc'[u] \in {"open_thread", "close_link"} => pc'[u] = pc[u]
    BY <1>0, <2>1, WakeFacts DEF PcType
  <2>3. isOpen /\ \A u \in Threads : pc[u] # "close_link"
    BY <2>1 DEF SessionInv, ThreadInsideSession
  <2>4. ASSUME NEW u \in Threads PROVE pc'[u] # "open_wait" /\ pc'[u] # "close_link"
    <3>1. pc'[u] = "close_link" => pc[u] = "close_link"
      BY <2>2
    <3>2. QED BY <2>2, <2>3, <3>1
  <2>5. QED BY <2>1, <2>3, <2>4 DEF SessionInv, ThreadInsideSession
<1>7. CASE ReadHandler
  <2>1. /\ isOpen' = isOpen /\ (pc' = pc \/ pc' = WakeOpen)
        /\ eventThread' = eventThread \/ (eventThread = "waiting" /\ eventThread' = "woken")
    BY <1>7 DEF ReadHandler, opens
  <2>2. \A u \in Threads : pc'[u] \in {"open_thread", "close_link", "open_wait"} => pc'[u] = pc[u]
    BY <1>0, <2>1, WakeFacts DEF PcType
  <2>3. QED BY <2>1, <2>2 DEF SessionInv, ThreadInsideSession
<1>8. CASE LinkBreaks \/ UNCHANGED vars
  BY <1>8 DEF LinkBreaks, vars, opens, events, SessionInv, ThreadInsideSession
<1>9. QED BY <1>1, <1>2, <1>3, <1>4, <1>5, <1>6, <1>7, <1>8 DEF Next, Resume, EventThread

-----------------------------------------------------------------------------
(* Events.                                                                 *)

LEMMA StepQueueInv == TypeOK /\ SessionInv /\ QueueInv /\ [Next]_vars => QueueInv'
<1> SUFFICES ASSUME TypeOK, SessionInv, QueueInv, [Next]_vars PROVE QueueInv'
  OBVIOUS
<1> USE TypeFacts
<1>1. ASSUME NEW t \in Threads, Call(t) \/ Resume(t) PROVE QueueInv'
  <2>1. UNCHANGED <<eventQueue, arrived, handled>> /\ Taken' = Taken
    BY <1>1, OpenCloseFrame DEF Taken
  <2>2. CASE OpenLink(t)
    <3>1. eventThread = "none" /\ eventThread' = "none" /\ before' = arrived
      BY <2>2 DEF OpenLink, SessionInv, ThreadInsideSession
    <3>2. QED BY <2>1, <3>1 DEF QueueInv
  <2>3. CASE ~OpenLink(t)
    <3>1. /\ before' = before
          /\ eventThread' \in {"drained", "waiting", "woken", "callback"} =>
                eventThread \in {"drained", "waiting", "woken", "callback"}
      BY <1>1, <2>3 DEF Call, Resume, Open, Close, OpenAdapter, OpenRefused, OpenFails,
         OpenThread, OpenReturn, GapStateCreate, CloseAdapter, CloseStop, CloseJoin, CloseLink,
         GapStateDelete, Send, SendReturns, events, WakeEventThread
    <3>2. QED BY <2>1, <3>1 DEF QueueInv
  <2>4. QED BY <2>2, <2>3
<1>2. CASE DrainEventQueue
  <2>1. eventQueue' = <<>> /\ UNCHANGED <<arrived, handled, before>>
    BY <1>2 DEF DrainEventQueue, Drained
  <2>2. Len(eventQueue') = 0 /\ Taken' = arrived /\ Taken <= arrived
    BY <2>1 DEF Taken
  <2>3. Channel!Latest(handled) <= arrived
    BY <2>2 DEF QueueInv, Channel!Latest, Taken, TypeOK
  <2>4. QED BY <2>1, <2>2, <2>3 DEF QueueInv
<1>3. CASE FirstWait \/ NoMoreEvents
  <2>1. UNCHANGED <<eventQueue, arrived, handled, before>> /\ Taken' = Taken
        /\ eventThread \in {"drained", "woken", "callback"}
    BY <1>3 DEF FirstWait, NoMoreEvents, WaitOrEnd, Awake, Taken
  <2>2. QED BY <2>1 DEF QueueInv
<1>4. CASE TakeEvent
  <2>1. /\ eventQueue # <<>> /\ eventQueue' = Tail(eventQueue)
        /\ handled' = Append(handled, Head(eventQueue)) /\ UNCHANGED <<arrived, before>>
        /\ eventThread \in {"woken", "callback"}
    BY <1>4 DEF TakeEvent, HasEvent, Popped, Awake
  <2>2. /\ Len(eventQueue) \in Nat \ {0} /\ Len(eventQueue') = Len(eventQueue) - 1
        /\ Head(eventQueue) = eventQueue[1] /\ Head(eventQueue) \in 1..MaxEvents
        /\ \A i \in 1..Len(eventQueue') : eventQueue'[i] = eventQueue[i + 1] /\ i + 1 \in 1..Len(eventQueue)
    BY <2>1, TailFacts
  <2>3. Taken' = Taken + 1 /\ Taken \in Int
    <3>1. arrived \in Nat /\ arrived' = arrived /\ Len(eventQueue) \in Nat
          /\ Len(eventQueue') = Len(eventQueue) - 1
      BY <2>1, <2>2
    <3>2. QED BY <3>1 DEF Taken
  <2>4. \A i \in 1..Len(eventQueue') : eventQueue'[i] = Taken' + i
    BY <2>2, <2>3 DEF QueueInv
  <2>5. Channel!Latest(handled') = Taken'
    <3>1. Head(eventQueue) = Taken + 1
      BY <2>2, <2>3 DEF QueueInv
    <3>2. Len(handled') = Len(handled) + 1 /\ handled'[Len(handled) + 1] = Head(eventQueue)
      BY <2>1, <2>2, QueueFacts
    <3>3. handled' # <<>>
      BY <3>2
    <3>4. QED BY <2>3, <3>1, <3>2, <3>3 DEF Channel!Latest
  <2>6. before <= arrived /\ before <= Taken'
    BY <2>1, <2>3 DEF QueueInv
  <2>7. Channel!Latest(handled') <= Taken'
    BY <2>3, <2>5
  <2>8. before' <= arrived' /\ before' <= Taken'
    BY <2>1, <2>6
  <2>9. QED BY <2>4, <2>7, <2>8 DEF QueueInv
<1>5. CASE ReadHandler
  <2>1. /\ arrived' = arrived + 1 /\ arrived' \in 1..MaxEvents
        /\ eventQueue' = Append(eventQueue, arrived') /\ UNCHANGED <<handled, before>>
        /\ eventThread' \in {"drained", "waiting", "woken", "callback"} =>
              eventThread \in {"drained", "waiting", "woken", "callback"}
    BY <1>5 DEF ReadHandler
  <2>2. /\ Len(eventQueue') = Len(eventQueue) + 1
        /\ \A i \in 1..Len(eventQueue) : eventQueue'[i] = eventQueue[i]
        /\ eventQueue'[Len(eventQueue) + 1] = arrived'
    BY <2>1, QueueFacts
  <2>3. Taken' = Taken /\ Taken \in Int /\ Taken + Len(eventQueue) + 1 = arrived'
    <3>1. arrived \in Nat /\ arrived' = arrived + 1 /\ Len(eventQueue) \in Nat
          /\ Len(eventQueue') = Len(eventQueue) + 1
      BY <2>1, <2>2
    <3>2. QED BY <3>1 DEF Taken
  <2>4. \A i \in 1..Len(eventQueue') : eventQueue'[i] = Taken' + i
    <3>1. ASSUME NEW i \in 1..Len(eventQueue') PROVE eventQueue'[i] = Taken' + i
      <4>1. i \in 1..Len(eventQueue) \/ i = Len(eventQueue) + 1
        BY <2>2
      <4>2. CASE i \in 1..Len(eventQueue)
        <5>1. eventQueue'[i] = eventQueue[i] /\ eventQueue[i] = Taken + i
          BY <2>2, <4>2 DEF QueueInv
        <5>2. QED BY <2>3, <5>1
      <4>3. CASE i = Len(eventQueue) + 1
        <5>1. Taken + i = arrived' /\ eventQueue'[i] = arrived'
          BY <2>2, <2>3, <4>3
        <5>2. QED BY <2>3, <5>1
      <4>4. QED BY <4>1, <4>2, <4>3
    <3>2. QED BY <3>1
  <2>5. Channel!Latest(handled') <= Taken' /\ before' = before /\ before <= arrived
        /\ (eventThread' \in {"drained", "waiting", "woken", "callback"} => before' <= Taken')
    BY <2>1, <2>3 DEF QueueInv
  <2>6. before' <= arrived'
    BY <2>1, <2>5
  <2>7. QED BY <2>4, <2>5, <2>6 DEF QueueInv
<1>6. CASE LinkBreaks \/ UNCHANGED vars
  BY <1>6 DEF LinkBreaks, vars, events, QueueInv, Taken
<1>7. QED BY <1>1, <1>2, <1>3, <1>4, <1>5, <1>6 DEF Next, EventThread

LEMMA StepNoLostWakeup ==
    TypeOK /\ SessionInv /\ QueueInv /\ NoLostWakeup /\ [Next]_vars => NoLostWakeup'
<1> SUFFICES ASSUME TypeOK, SessionInv, QueueInv, NoLostWakeup, [Next]_vars, eventThread' = "waiting"
             PROVE  \A i \in DOMAIN eventQueue' : eventQueue'[i] <= early'
  BY DEF NoLostWakeup
<1>1. ASSUME NEW t \in Threads, Call(t) \/ Resume(t) PROVE eventThread = "waiting"
  BY <1>1 DEF Call, Resume, Open, Close, OpenAdapter, OpenRefused, OpenFails, OpenLink,
     OpenThread, OpenReturn, GapStateCreate, CloseAdapter, CloseStop, CloseJoin, CloseLink,
     GapStateDelete, Send, SendReturns, events, WakeEventThread
<1>2. CASE \E t \in Threads : Call(t) \/ Resume(t)
  BY <1>1, <1>2, OpenCloseFrame DEF NoLostWakeup
<1>3. CASE FirstWait
  <2>1. early' = arrived /\ eventQueue' = eventQueue
    BY <1>3 DEF FirstWait, WaitOrEnd
  <2>2. DOMAIN eventQueue = 1..Len(eventQueue) /\ Len(eventQueue) \in Nat /\ arrived \in Nat
    BY TypeFacts
  <2>3. ASSUME NEW i \in 1..Len(eventQueue) PROVE eventQueue[i] <= arrived
    <3>1. eventQueue[i] = arrived - Len(eventQueue) + i
      BY DEF QueueInv, Taken
    <3>2. QED BY <2>2, <3>1
  <2>4. QED BY <2>1, <2>2, <2>3
<1>4. CASE NoMoreEvents
  <2>1. eventQueue' = eventQueue /\ eventQueue = <<>>
    BY <1>4 DEF NoMoreEvents, WaitOrEnd, HasEvent
  <2>2. QED BY <2>1
<1>5. CASE DrainEventQueue \/ TakeEvent
  BY <1>5 DEF DrainEventQueue, TakeEvent
<1>6. CASE ReadHandler
  <2>1. eventThread = "waiting" /\ OpenWaits # {}
    BY <1>6 DEF ReadHandler
  <2>2. QED BY <2>1 DEF OpenWaits, SessionInv
<1>7. CASE LinkBreaks \/ UNCHANGED vars
  BY <1>7 DEF LinkBreaks, vars, events, NoLostWakeup
<1>8. QED BY <1>2, <1>3, <1>4, <1>5, <1>6, <1>7 DEF Next, EventThread

LEMMA AlwaysIInv == Spec => []IInv
<1>1. IInv /\ [Next]_vars => IInv'
  <2> SUFFICES ASSUME IInv, [Next]_vars PROVE IInv'
    OBVIOUS
  <2>1. TypeOK' /\ LockInv' /\ SessionInv' /\ QueueInv' /\ NoLostWakeup'
    BY StepTypeOK, StepLockInv, StepSessionInv, StepQueueInv, StepNoLostWakeup DEF IInv
  <2>2. QED BY <2>1 DEF IInv
<1>2. QED BY InitIInv, <1>1, PTL DEF Spec

-----------------------------------------------------------------------------
(* Every variable of the session and its threads keeps its type.           *)
THEOREM TypeCorrect == Spec => []TypeOK
<1>1. IInv => TypeOK
  BY DEF IInv
<1>2. QED BY <1>1, AlwaysIInv, PTL

(* The event thread exists only while the transport is open, whatever      *)
(* calls to open and close, from how many threads and callbacks, meet.     *)
THEOREM InsideSession == Spec => []ThreadInsideSession
<1>1. IInv => ThreadInsideSession
  BY DEF IInv, SessionInv
<1>2. QED BY <1>1, AlwaysIInv, PTL

(* An event that comes when the thread sleeps wakes it: open() cannot take *)
(* its notification, because it waits only before the thread first sleeps. *)
THEOREM WakesUp == Spec => []NoLostWakeup
<1>1. IInv => NoLostWakeup
  BY DEF IInv
<1>2. QED BY <1>1, AlwaysIInv, PTL

(* Only events that came after the link was opened are handled.            *)
THEOREM NeverStale == Spec => NoStaleEvent
<1>1. IInv /\ [Next]_vars => [TakeEvent => Head(eventQueue) > before]_vars
  <2> SUFFICES ASSUME IInv, TakeEvent PROVE Head(eventQueue) > before
    OBVIOUS
  <2>1. eventQueue # <<>> /\ eventThread \in {"woken", "callback"}
    BY DEF TakeEvent, HasEvent, Awake
  <2>2. Len(eventQueue) \in Nat \ {0} /\ Head(eventQueue) = eventQueue[1]
    BY <2>1, TypeFacts, TailFacts DEF IInv
  <2>3. Head(eventQueue) = Taken + 1 /\ before <= Taken /\ Taken \in Int
    BY <2>1, <2>2, TypeFacts DEF IInv, QueueInv, Taken
  <2>4. QED BY <2>3, TypeFacts DEF IInv
<1>2. QED BY <1>1, AlwaysIInv, PTL DEF Spec, NoStaleEvent

(* Events reach the application in the order they arrived, at most once.   *)
THEOREM Refinement == Spec => ImplementsChannel
<1>1. Init => Channel!Init
  BY DEF Init, Channel!Init
<1>2. IInv /\ [Next]_vars => [Channel!Next]_<<arrived, handled>>
  <2> SUFFICES ASSUME IInv, [Next]_vars PROVE [Channel!Next]_<<arrived, handled>>
    OBVIOUS
  <2>1. CASE TakeEvent
    <3>1. /\ eventQueue # <<>> /\ handled' = Append(handled, Head(eventQueue)) /\ arrived' = arrived
      BY <2>1 DEF TakeEvent, HasEvent
    <3>2. Len(eventQueue) \in Nat \ {0} /\ Head(eventQueue) = eventQueue[1]
          /\ Len(eventQueue) <= arrived
      BY <3>1, TypeFacts, TailFacts DEF IInv
    <3>3. Head(eventQueue) = Taken + 1 /\ Taken + 1 <= arrived /\ Taken \in Int
      BY <3>2, TypeFacts DEF IInv, QueueInv, Taken
    <3>4. Channel!Latest(handled) <= Taken /\ Channel!Latest(handled) \in Nat
      BY TypeFacts DEF IInv, QueueInv, Channel!Latest
    <3>5. Head(eventQueue) \in (Channel!Latest(handled) + 1)..arrived
      BY <3>3, <3>4, TypeFacts DEF IInv
    <3>6. handled' = Append(handled, Head(eventQueue)) /\ UNCHANGED arrived
      BY <3>1
    <3>7. Channel!Deliver
      BY <3>5, <3>6 DEF Channel!Deliver
    <3>8. QED BY <3>7 DEF Channel!Next
  <2>2. CASE ReadHandler
    BY <2>2 DEF ReadHandler, Channel!Next, Channel!Offer
  <2>3. CASE \E t \in Threads : Call(t) \/ Resume(t)
    BY <2>3, OpenCloseFrame
  <2>4. CASE DrainEventQueue \/ FirstWait \/ NoMoreEvents \/ LinkBreaks \/ UNCHANGED vars
    BY <2>4 DEF DrainEventQueue, FirstWait, NoMoreEvents, WaitOrEnd, LinkBreaks, vars, events
  <2>5. QED BY <2>1, <2>2, <2>3, <2>4 DEF Next, EventThread
<1>3. QED BY <1>1, <1>2, AlwaysIInv, PTL DEF Spec, ImplementsChannel, Channel!Spec

-----------------------------------------------------------------------------
(* The GAP state, with one thread of the application: only that thread     *)
(* opens and closes the link.  A callback that closes has the event thread *)
(* under it, so it is told off before it comes to the link.                *)
OneApp == \A s, t \in Apps : s = t

GapInv ==
    /\ pc["event"] \in {"idle", "send", "send_wait", "close", "close_stop", "delete"}
    /\ pc["event"] # "idle" => eventThread = "callback"
    /\ \A t \in Apps : pc[t] \in {"open_thread", "open_wait", "open_ready", "create"} => isOpen
    /\ gapState => isOpen \/ \E t \in Apps : pc[t] = "delete"

(* A step of one thread that leaves the transport open if it was.          *)
LEMMA AppStep ==
    ASSUME PcType, GapInv, NEW t \in Apps, NEW label \in Labels, Goto(t, label),
           isOpen => isOpen', eventThread' = eventThread \/ eventThread # "callback",
           label \in {"open_thread", "open_wait", "open_ready", "create"} => isOpen',
           gapState' => isOpen' \/ (gapState /\ pc[t] # "delete")
    PROVE  GapInv'
<1>1. t \in Threads /\ "event" \in Threads /\ t # "event" /\ \A u \in Apps : u \in Threads
  BY AppsAssumption DEF Threads
<1>2. pc'[t] = label /\ \A u \in Threads : u # t => pc'[u] = pc[u]
  BY <1>1, GotoFacts DEF PcType
<1>3. pc'["event"] = pc["event"]
  BY <1>1, <1>2
<1>4. pc'["event"] # "idle" => eventThread' = "callback"
  BY <1>3 DEF GapInv
<1>5. \A u \in Apps : pc'[u] \in {"open_thread", "open_wait", "open_ready", "create"} => isOpen'
  BY <1>1, <1>2 DEF GapInv
<1>6. gapState' => isOpen' \/ \E u \in Apps : pc'[u] = "delete"
  <2>1. SUFFICES ASSUME gapState', ~isOpen' PROVE \E u \in Apps : pc'[u] = "delete"
    OBVIOUS
  <2>2. gapState /\ ~isOpen /\ pc[t] # "delete"
    BY <2>1
  <2>3. PICK u \in Apps : pc[u] = "delete"
    BY <2>2 DEF GapInv
  <2>4. QED BY <1>1, <1>2, <2>2, <2>3
<1>7. QED BY <1>3, <1>4, <1>5, <1>6 DEF GapInv

LEMMA EventStep ==
    ASSUME PcType, GapInv, NEW label \in {"idle", "send", "send_wait", "close", "close_stop", "delete"},
           Goto("event", label), isOpen' = isOpen, gapState' => gapState,
           label # "idle" => eventThread' = "callback"
    PROVE  GapInv'
<1>1. "event" \in Threads /\ label \in Labels /\ \A u \in Apps : u \in Threads /\ u # "event"
  BY AppsAssumption DEF Threads, Labels
<1>2. pc'["event"] = label /\ \A u \in Apps : pc'[u] = pc[u]
  BY <1>1, GotoFacts DEF PcType
<1>3. QED BY <1>2 DEF GapInv

LEMMA StepGapInv == OneApp /\ IInv /\ GapInv /\ [Next]_vars => GapInv'
<1> SUFFICES ASSUME OneApp, IInv, GapInv, [Next]_vars PROVE GapInv'
  OBVIOUS
<1>0. PcType /\ SessionInv /\ TypeOK /\ \A t \in Threads : t \in Apps \/ t = "event"
  BY TypeFacts DEF IInv, Threads
<1>1. ASSUME NEW t \in Apps, Call(t) PROVE GapInv'
  <2>1. t # "event" /\ pc[t] = "idle" /\ UNCHANGED <<isOpen, gapState, eventThread>>
    BY <1>1, AppsAssumption DEF Call, opens, events
  <2>2. PICK label \in {"open", "close", "send"} : Goto(t, label)
    BY <1>1, <2>1 DEF Call
  <2>3. label \in Labels \ {"open_thread", "open_wait", "open_ready", "create"}
    BY DEF Labels
  <2>4. QED BY <1>0, <2>1, <2>2, <2>3, AppStep DEF GapInv
<1>2. CASE Call("event")
  <2>1. UNCHANGED <<isOpen, gapState, eventThread>> /\ eventThread = "callback"
    BY <1>2, AppsAssumption DEF Call, opens, events
  <2>2. PICK label \in {"close", "send"} : Goto("event", label)
    BY <1>2, CallsAssumption, AppsAssumption DEF Call
  <2>3. QED BY <1>0, <2>1, <2>2, EventStep
<1>3. ASSUME NEW t \in Apps, Open(t) PROVE GapInv'
  <2>1. CASE OpenAdapter(t) \/ OpenRefused(t) \/ OpenFails(t)
    <3>1. PICK label \in {"idle", "open_transport"} : Goto(t, label)
      BY <2>1 DEF OpenAdapter, OpenRefused, OpenFails
    <3>2. UNCHANGED <<isOpen, gapState, eventThread>> /\ pc[t] \in {"open", "open_transport"}
      BY <2>1 DEF OpenAdapter, OpenRefused, OpenFails, opens, events
    <3>3. label \in Labels \ {"open_thread", "open_wait", "open_ready", "create"}
      BY DEF Labels
    <3>4. QED BY <1>0, <3>1, <3>2, <3>3, AppStep
  <2>2. CASE OpenLink(t)
    <3>1. isOpen' /\ gapState' = gapState /\ eventThread' = eventThread /\ Goto(t, "open_thread")
      BY <2>2 DEF OpenLink
    <3>2. QED BY <1>0, <3>1, AppStep DEF Labels
  <2>3. CASE OpenThread(t)
    <3>1. /\ pc[t] = "open_thread" /\ eventThread = "none" /\ UNCHANGED <<isOpen, gapState>>
          /\ Goto(t, "open_wait")
      BY <2>3 DEF OpenThread, opens
    <3>2. isOpen
      BY <3>1 DEF GapInv
    <3>3. QED BY <1>0, <3>1, <3>2, AppStep DEF Labels
  <2>4. CASE OpenReturn(t)
    <3>1. /\ pc[t] = "open_ready" /\ UNCHANGED <<isOpen, gapState, eventThread>>
          /\ Goto(t, "create")
      BY <2>4 DEF OpenReturn, opens, events
    <3>2. isOpen
      BY <3>1 DEF GapInv
    <3>3. QED BY <1>0, <3>1, <3>2, AppStep DEF Labels
  <2>5. CASE GapStateCreate(t)
    <3>1. pc[t] = "create" /\ UNCHANGED <<isOpen, eventThread>> /\ Goto(t, "idle")
      BY <2>5 DEF GapStateCreate, events
    <3>2. isOpen
      BY <3>1 DEF GapInv
    <3>3. QED BY <1>0, <3>1, <3>2, AppStep DEF Labels
  <2>6. QED BY <1>3, <2>1, <2>2, <2>3, <2>4, <2>5 DEF Open
<1>4. ASSUME NEW t \in Apps, Close(t) PROVE GapInv'
  <2>0. t # "event" /\ t \in Threads
    BY AppsAssumption DEF Threads
  <2>1. CASE CloseAdapter(t) \/ CloseJoin(t)
    <3>1. PICK label \in {"close_stop", "close_link", "delete"} : Goto(t, label)
      BY <2>1 DEF CloseAdapter, CloseJoin, AfterClose
    <3>2. /\ UNCHANGED <<isOpen, gapState>> /\ pc[t] \in {"close", "close_join"}
          /\ (eventThread' = eventThread \/ eventThread = "ended")
      BY <2>1 DEF CloseAdapter, CloseJoin, opens, events
    <3>3. label \in Labels \ {"open_thread", "open_wait", "open_ready", "create"}
      BY DEF Labels
    <3>4. QED BY <1>0, <3>1, <3>2, <3>3, AppStep
  <2>2. CASE CloseStop(t)
    <3>1. Joins(t) \in Labels \ {"open_thread", "open_wait", "open_ready", "create"}
      BY DEF Joins, AfterClose, Labels
    <3>2. /\ Goto(t, Joins(t)) /\ UNCHANGED <<isOpen, gapState>> /\ pc[t] = "close_stop"
          /\ (eventThread' = eventThread \/ eventThread = "waiting")
      BY <2>2 DEF CloseStop, WakeEventThread, opens
    <3>3. QED BY <1>0, <3>1, <3>2, AppStep
  <2>3. CASE CloseLink(t)
    <3>1. Goto(t, "delete") /\ UNCHANGED <<gapState, eventThread>>
      BY <2>3 DEF CloseLink, AfterClose, events
    <3>2. pc'[t] = "delete" /\ \A u \in Threads : u # t => pc'[u] = pc[u]
      BY <1>0, <2>0, <3>1, GotoFacts DEF PcType, Labels
    <3>3. pc'["event"] = pc["event"]
      BY <2>0, <3>2 DEF Threads
    <3>4. \A u \in Apps : pc'[u] = "delete"
      BY <3>2 DEF OneApp
    <3>5. QED BY <3>1, <3>3, <3>4 DEF GapInv
  <2>4. CASE GapStateDelete(t)
    <3>1. Goto(t, "idle") /\ UNCHANGED <<isOpen, eventThread>> /\ ~gapState'
      BY <2>4 DEF GapStateDelete, events
    <3>2. QED BY <1>0, <3>1, AppStep DEF Labels
  <2>5. QED BY <1>4, <2>1, <2>2, <2>3, <2>4 DEF Close
<1>5. CASE Open("event")
  <2>1. pc["event"] \in {"open", "open_transport", "open_thread", "open_ready", "create"}
    BY <1>5 DEF Open, OpenAdapter, OpenRefused, OpenFails, OpenLink, OpenThread, OpenReturn,
       GapStateCreate
  <2>2. QED BY <2>1 DEF GapInv
<1>6. CASE Close("event")
  <2>1. pc["event"] \in {"close", "close_stop", "delete"} /\ eventThread = "callback"
    BY <1>6 DEF Close, CloseAdapter, CloseStop, CloseJoin, CloseLink, GapStateDelete, GapInv
  <2>2. CASE CloseAdapter("event")
    <3>1. PICK label \in {"close_stop", "delete"} : Goto("event", label)
      BY <2>2 DEF CloseAdapter, AfterClose
    <3>2. UNCHANGED <<isOpen, gapState, eventThread>>
      BY <2>2 DEF CloseAdapter, events
    <3>3. QED BY <1>0, <2>1, <3>1, <3>2, EventStep
  <2>3. CASE CloseStop("event")
    <3>1. Joins("event") = "delete" /\ WakeEventThread = "callback"
      BY <2>1 DEF Joins, AfterClose, WakeEventThread
    <3>2. Goto("event", "delete") /\ UNCHANGED <<isOpen, gapState>> /\ eventThread' = "callback"
      BY <2>3, <3>1 DEF CloseStop, opens
    <3>3. QED BY <1>0, <3>2, EventStep
  <2>4. CASE GapStateDelete("event")
    <3>1. Goto("event", "idle") /\ isOpen' = isOpen /\ ~gapState'
      BY <2>4 DEF GapStateDelete
    <3>2. QED BY <1>0, <3>1, EventStep
  <2>5. ~CloseJoin("event") /\ ~CloseLink("event")
    BY <2>1 DEF CloseJoin, CloseLink
  <2>6. QED BY <1>6, <2>2, <2>3, <2>4, <2>5 DEF Close
<1>7. ASSUME NEW t \in Apps, Send(t) \/ SendReturns(t) PROVE GapInv'
  <2>1. PICK label \in {"idle", "send_wait"} : Goto(t, label)
    BY <1>7 DEF Send, SendReturns
  <2>2. UNCHANGED <<isOpen, gapState, eventThread>> /\ pc[t] \in {"send", "send_wait"}
    BY <1>7 DEF Send, SendReturns, opens, events
  <2>3. label \in Labels \ {"open_thread", "open_wait", "open_ready", "create"}
    BY DEF Labels
  <2>4. QED BY <1>0, <2>1, <2>2, <2>3, AppStep
<1>8. CASE Send("event") \/ SendReturns("event")
  <2>1. PICK label \in {"idle", "send_wait"} : Goto("event", label)
    BY <1>8 DEF Send, SendReturns
  <2>2. UNCHANGED <<isOpen, gapState, eventThread>> /\ eventThread = "callback"
    BY <1>8 DEF Send, SendReturns, opens, events, GapInv
  <2>3. QED BY <1>0, <2>1, <2>2, EventStep
<1>9. CASE DrainEventQueue \/ TakeEvent \/ LinkBreaks \/ UNCHANGED vars
  <2>1. UNCHANGED <<pc, isOpen, gapState>>
    BY <1>9 DEF DrainEventQueue, TakeEvent, LinkBreaks, vars, opens
  <2>2. eventThread = "callback" => eventThread' = "callback"
    BY <1>9 DEF DrainEventQueue, TakeEvent, LinkBreaks, vars, events
  <2>3. QED BY <2>1, <2>2 DEF GapInv
<1>10. CASE FirstWait \/ NoMoreEvents \/ ReadHandler
  <2>1. UNCHANGED <<isOpen, gapState>> /\ (pc' = pc \/ pc' = WakeOpen)
    BY <1>10 DEF FirstWait, NoMoreEvents, WaitOrEnd, LoopWakes, ReadHandler, opens
  <2>2. eventThread = "callback" /\ pc["event"] # "idle" => eventThread' = "callback"
    BY <1>10 DEF FirstWait, NoMoreEvents, Awake, WaitOrEnd, ReadHandler
  <2>3. \A u \in Threads : pc'[u] = pc[u] \/ (pc[u] = "open_wait" /\ pc'[u] = "open_ready")
    BY <1>0, <2>1, WakeFacts DEF PcType
  <2>4. "event" \in Threads /\ \A u \in Apps : u \in Threads
    BY DEF Threads
  <2>5. pc'["event"] = pc["event"]
    BY <2>3, <2>4 DEF GapInv
  <2>6. \A u \in Apps : pc'[u] \in {"open_thread", "open_wait", "open_ready", "create"} => isOpen'
    BY <2>1, <2>3, <2>4 DEF GapInv
  <2>7. \A u \in Apps : pc[u] = "delete" => pc'[u] = "delete"
    BY <2>3, <2>4
  <2>8. gapState' => isOpen' \/ \E u \in Apps : pc'[u] = "delete"
    BY <2>1, <2>7 DEF GapInv
  <2>9. QED BY <2>2, <2>5, <2>6, <2>8 DEF GapInv
<1>11. QED
  BY <1>0, <1>1, <1>2, <1>3, <1>4, <1>5, <1>6, <1>7, <1>8, <1>9, <1>10 DEF Next, Resume, EventThread

(* When nothing is under way there is a GAP state for an open transport    *)
(* only, with one thread of the application and any callbacks: whatever    *)
(* open() and close() return (GapStateOfOpenTransport).                    *)
THEOREM GapStateFollows == ASSUME OneApp PROVE Spec => []GapStateOfOpenTransport
<1>1. Init => GapInv
  BY DEF Init, GapInv, Threads
<1>2. GapInv => GapStateOfOpenTransport
  BY DEF GapInv, GapStateOfOpenTransport, Threads
<1>3. QED BY <1>1, <1>2, StepGapInv, AlwaysIInv, PTL DEF Spec

-----------------------------------------------------------------------------
(* Who waits for whom.  ENABLED is beyond the prover, so the guards are    *)
(* spelled out: a thread that CanGoOn has a step of Resume, and            *)
(* EventThreadGoesOn is when EventThread has one.                          *)
CanGoOn(t) ==
    \/ pc[t] \in {"open_ready", "create", "close_stop", "delete", "send_wait"}
    \/ pc[t] \in {"open", "close"} /\ publicMethodMutex = "none"
    \/ pc[t] \in {"open_transport", "close_link", "send"} /\ isOpenMutex = "none"
    \/ pc[t] = "open_thread" /\ eventThread = "none"
    \/ pc[t] = "close_join" /\ eventThread = "ended"

EventThreadGoesOn == eventThread \in {"started", "drained"} \/ Awake

NothingGoesOn == ~EventThreadGoesOn /\ \A t \in Threads : ~CanGoOn(t)

(* A callback closes the adapter while another thread, which has           *)
(* publicMethodMutex, waits in close() for that callback to return.        *)
NestedClose ==
    /\ eventThread = "callback" /\ pc["event"] = "close"
    /\ \E t \in Apps : pc[t] = "close_join" /\ publicMethodMutex = t

(* A mutex is held by a thread at a stage that holds it: none is left      *)
(* locked.  Callbacks do not open, and a close() from one does not join.   *)
OwnerInv ==
    /\ publicMethodMutex # "none" => pc[publicMethodMutex] \in AdapterHeld
    /\ isOpenMutex # "none" => pc[isOpenMutex] \in TransportHeld
    /\ pc["event"] \notin {"open", "close_join"}

(* open() finds no event thread, and the thread that close() joins has     *)
(* been told to end and does not sleep.                                    *)
JoinInv ==
    \A t \in Threads : /\ pc[t] = "open_thread" => eventThread = "none"
                       /\ pc[t] = "close_join" => ~processEvents /\ eventThread \notin {"none", "waiting"}

LEMMA OwnerStep ==
    ASSUME PcType, OwnerInv, NEW t \in Threads, NEW label \in Labels, Goto(t, label),
           publicMethodMutex' = IF label \in AdapterHeld THEN t
                                ELSE IF pc[t] \in AdapterHeld THEN "none" ELSE publicMethodMutex,
           isOpenMutex' = IF label \in TransportHeld THEN t
                          ELSE IF pc[t] \in TransportHeld THEN "none" ELSE isOpenMutex,
           publicMethodMutex \in Threads \union {"none"}, isOpenMutex \in Threads \union {"none"},
           t = "event" => label \notin {"open", "close_join"}
    PROVE  OwnerInv'
<1>1. pc'[t] = label /\ \A u \in Threads : u # t => pc'[u] = pc[u]
  BY GotoFacts DEF PcType
<1>2. publicMethodMutex' # "none" => pc'[publicMethodMutex'] \in AdapterHeld
  BY <1>1 DEF OwnerInv
<1>3. isOpenMutex' # "none" => pc'[isOpenMutex'] \in TransportHeld
  BY <1>1 DEF OwnerInv
<1>4. pc'["event"] \notin {"open", "close_join"}
  BY <1>1 DEF OwnerInv, Threads
<1>5. QED BY <1>2, <1>3, <1>4 DEF OwnerInv

LEMMA StepOwnerInv == IInv /\ OwnerInv /\ [Next]_vars => OwnerInv'
<1> SUFFICES ASSUME IInv, OwnerInv, [Next]_vars PROVE OwnerInv'
  OBVIOUS
<1>0. /\ PcType /\ LockInv /\ publicMethodMutex \in Threads \union {"none"}
      /\ isOpenMutex \in Threads \union {"none"}
  BY TypeFacts DEF IInv, TypeOK
<1> USE DEF Labels, AdapterHeld, TransportHeld
<1>1. ASSUME NEW t \in Threads, Call(t) PROVE OwnerInv'
  <2>1. PICK label \in {"open", "close", "send"} : Goto(t, label) /\ (t = "event" => label # "open")
    BY <1>1, CallsAssumption, AppsAssumption DEF Call
  <2>2. pc[t] = "idle" /\ UNCHANGED locks
    BY <1>1 DEF Call
  <2>3. QED BY <1>0, <2>1, <2>2, OwnerStep DEF locks
<1>2. ASSUME NEW t \in Threads, Open(t) PROVE OwnerInv'
  <2>1. CASE OpenAdapter(t)
    <3>1. CASE adapterIsOpen
      BY <1>0, <2>1, <3>1, OwnerStep DEF OpenAdapter
    <3>2. CASE ~adapterIsOpen
      BY <1>0, <2>1, <3>2, OwnerStep DEF OpenAdapter
    <3>3. QED BY <3>1, <3>2
  <2>2. CASE OpenRefused(t) \/ OpenFails(t)
    <3>1. pc[t] = "open_transport" /\ publicMethodMutex' = "none" /\ UNCHANGED isOpenMutex /\ Goto(t, "idle")
      BY <2>2 DEF OpenRefused, OpenFails
    <3>2. QED BY <1>0, <3>1, OwnerStep
  <2>3. CASE OpenLink(t)
    <3>1. pc[t] = "open_transport" /\ publicMethodMutex' = t /\ isOpenMutex' = t /\ Goto(t, "open_thread")
      BY <1>0, <2>3 DEF OpenLink, LockInv
    <3>2. QED BY <1>0, <3>1, OwnerStep
  <2>4. CASE OpenThread(t)
    <3>1. pc[t] = "open_thread" /\ publicMethodMutex' = t /\ isOpenMutex' = t /\ Goto(t, "open_wait")
      BY <1>0, <2>4 DEF OpenThread, LockInv, locks
    <3>2. QED BY <1>0, <3>1, OwnerStep
  <2>5. CASE OpenReturn(t)
    BY <1>0, <2>5, OwnerStep DEF OpenReturn
  <2>6. CASE GapStateCreate(t)
    BY <1>0, <2>6, OwnerStep DEF GapStateCreate, locks
  <2>7. QED BY <1>2, <2>1, <2>2, <2>3, <2>4, <2>5, <2>6 DEF Open
<1>3. ASSUME NEW t \in Threads, Close(t) PROVE OwnerInv'
  <2>1. CASE CloseAdapter(t)
    <3>1. CASE adapterIsOpen
      BY <1>0, <2>1, <3>1, OwnerStep DEF CloseAdapter
    <3>2. CASE ~adapterIsOpen
      BY <1>0, <2>1, <3>2, OwnerStep DEF CloseAdapter, AfterClose
    <3>3. QED BY <3>1, <3>2
  <2>2. CASE CloseStop(t)
    <3>1. /\ pc[t] = "close_stop" /\ publicMethodMutex = t /\ UNCHANGED isOpenMutex
          /\ Goto(t, Joins(t))
          /\ publicMethodMutex' = IF Joins(t) = "delete" THEN "none" ELSE t
      BY <1>0, <2>2 DEF CloseStop, LockInv, AfterClose
    <3>2. Joins(t) \in {"delete", "close_link", "close_join"} /\ (t = "event" => Joins(t) # "close_join")
      BY DEF Joins, AfterClose
    <3>3. QED BY <1>0, <3>1, <3>2, OwnerStep
  <2>3. CASE CloseJoin(t)
    <3>1. pc[t] = "close_join" /\ publicMethodMutex' = t /\ UNCHANGED isOpenMutex /\ Goto(t, "close_link")
      BY <1>0, <2>3 DEF CloseJoin, LockInv, locks
    <3>2. QED BY <1>0, <3>1, OwnerStep
  <2>4. CASE CloseLink(t)
    BY <1>0, <2>4, OwnerStep DEF CloseLink, AfterClose
  <2>5. CASE GapStateDelete(t)
    BY <1>0, <2>5, OwnerStep DEF GapStateDelete, locks
  <2>6. QED BY <1>3, <2>1, <2>2, <2>3, <2>4, <2>5 DEF Close
<1>4. ASSUME NEW t \in Threads, Send(t) \/ SendReturns(t) PROVE OwnerInv'
  <2>1. CASE Send(t) /\ isOpen
    BY <1>0, <2>1, OwnerStep DEF Send
  <2>2. CASE Send(t) /\ ~isOpen
    BY <1>0, <2>2, OwnerStep DEF Send
  <2>3. CASE SendReturns(t)
    BY <1>0, <2>3, OwnerStep DEF SendReturns
  <2>4. QED BY <1>4, <2>1, <2>2, <2>3
<1>5. CASE FirstWait \/ NoMoreEvents \/ ReadHandler
  <2>1. UNCHANGED <<publicMethodMutex, isOpenMutex>> /\ (pc' = WakeOpen \/ pc' = pc)
    BY <1>5 DEF FirstWait, NoMoreEvents, WaitOrEnd, LoopWakes, ReadHandler, locks
  <2>2. \A u \in Threads : pc'[u] = pc[u] \/ (pc[u] = "open_wait" /\ pc'[u] = "open_ready")
    BY <1>0, <2>1, WakeFacts DEF PcType
  <2>3. QED BY <1>0, <2>1, <2>2 DEF OwnerInv, Threads
<1>6. CASE DrainEventQueue \/ TakeEvent \/ LinkBreaks \/ UNCHANGED vars
  BY <1>6 DEF DrainEventQueue, TakeEvent, LinkBreaks, vars, locks, OwnerInv
<1>7. QED BY <1>1, <1>2, <1>3, <1>4, <1>5, <1>6 DEF Next, Resume, EventThread

LEMMA JoinFrame ==
    ASSUME PcType, JoinInv, NEW t \in Threads,
           NEW label \in Labels \ {"open_thread", "close_join"}, Goto(t, label),
           UNCHANGED <<processEvents, eventThread>>
    PROVE  JoinInv'
<1>1. pc'[t] = label /\ \A u \in Threads : u # t => pc'[u] = pc[u]
  BY GotoFacts DEF PcType
<1>2. QED BY <1>1 DEF JoinInv

LEMMA StepJoinInv == IInv /\ JoinInv /\ [Next]_vars => JoinInv'
<1> SUFFICES ASSUME IInv, JoinInv, [Next]_vars PROVE JoinInv'
  OBVIOUS
<1>0. PcType /\ LockInv /\ SessionInv
  BY TypeFacts DEF IInv
<1> USE DEF Labels
<1>1. ASSUME NEW t \in Threads, Call(t) PROVE JoinInv'
  <2>1. PICK label \in {"open", "close", "send"} : Goto(t, label)
    BY <1>1, CallsAssumption DEF Call
  <2>2. QED BY <1>0, <1>1, <2>1, JoinFrame DEF Call, events
<1>2. ASSUME NEW t \in Threads,
             \/ OpenAdapter(t) \/ OpenRefused(t) \/ OpenFails(t) \/ OpenReturn(t)
             \/ GapStateCreate(t) \/ CloseAdapter(t) \/ CloseLink(t) \/ GapStateDelete(t)
             \/ Send(t) \/ SendReturns(t)
      PROVE  JoinInv'
  <2>1. PICK label \in {"idle", "open_transport", "create", "close_stop", "delete", "send_wait"} : Goto(t, label)
    BY <1>2 DEF OpenAdapter, OpenRefused, OpenFails, OpenReturn, GapStateCreate, CloseAdapter,
       CloseLink, GapStateDelete, Send, SendReturns, AfterClose
  <2>2. UNCHANGED events
    BY <1>2 DEF OpenAdapter, OpenRefused, OpenFails, OpenReturn, GapStateCreate, CloseAdapter,
       CloseLink, GapStateDelete, Send, SendReturns
  <2>3. QED BY <1>0, <2>1, <2>2, JoinFrame DEF events
<1>3. ASSUME NEW t \in Threads, OpenLink(t) PROVE JoinInv'
  <2>1. /\ pc'[t] = "open_thread" /\ \A u \in Threads : u # t => pc'[u] = pc[u]
        /\ ~isOpen /\ UNCHANGED <<processEvents, eventThread>>
    BY <1>0, <1>3, GotoFacts DEF OpenLink, PcType
  <2>2. eventThread = "none"
    BY <1>0, <2>1 DEF SessionInv, ThreadInsideSession
  <2>3. QED BY <2>1, <2>2 DEF JoinInv
<1>4. ASSUME NEW t \in Threads, OpenThread(t) PROVE JoinInv'
  <2>1. pc[t] = "open_thread" /\ \A u \in Threads : u # t => pc[u] \notin AdapterHeld
    BY <1>0, <1>4 DEF OpenThread, LockInv, AdapterHeld
  <2>2. pc'[t] = "open_wait" /\ \A u \in Threads : u # t => pc'[u] = pc[u]
    BY <1>0, <1>4, GotoFacts DEF OpenThread, PcType
  <2>3. QED BY <2>1, <2>2 DEF JoinInv, AdapterHeld
<1>5. ASSUME NEW t \in Threads, CloseStop(t) PROVE JoinInv'
  <2>1. /\ Joins(t) \in {"delete", "close_link", "close_join"}
        /\ Joins(t) = "close_join" => eventThread # "none"
    BY DEF Joins, AfterClose
  <2>2. pc'[t] = Joins(t) /\ \A u \in Threads : u # t => pc'[u] = pc[u]
    BY <1>0, <1>5, <2>1, GotoFacts DEF CloseStop, PcType
  <2>3. ~processEvents' /\ eventThread' = IF eventThread = "waiting" THEN "woken" ELSE eventThread
    BY <1>5 DEF CloseStop, WakeEventThread
  <2>4. QED BY <2>1, <2>2, <2>3 DEF JoinInv
<1>6. ASSUME NEW t \in Threads, CloseJoin(t) PROVE JoinInv'
  <2>1. pc[t] = "close_join" /\ \A u \in Threads : u # t => pc[u] \notin AdapterHeld
    BY <1>0, <1>6 DEF CloseJoin, LockInv, AdapterHeld
  <2>2. pc'[t] = "close_link" /\ \A u \in Threads : u # t => pc'[u] = pc[u]
    BY <1>0, <1>6, GotoFacts DEF CloseJoin, PcType
  <2>3. QED BY <2>1, <2>2 DEF JoinInv, AdapterHeld
<1>7. CASE EventThread \/ ReadHandler
  <2>1. \A u \in Threads : pc'[u] \in {"open_thread", "close_join"} => pc'[u] = pc[u]
    <3>1. pc' = pc \/ pc' = WakeOpen
      BY <1>7 DEF EventThread, DrainEventQueue, FirstWait, TakeEvent, NoMoreEvents, WaitOrEnd,
         LoopWakes, ReadHandler
    <3>2. QED BY <1>0, <3>1, WakeFacts DEF PcType
  <2>2. /\ processEvents' = processEvents
        /\ eventThread = "none" => eventThread' = "none"
        /\ ~processEvents /\ eventThread # "waiting" => eventThread' # "waiting"
        /\ eventThread # "none" => eventThread' # "none"
    BY <1>7 DEF EventThread, DrainEventQueue, FirstWait, TakeEvent, NoMoreEvents, WaitOrEnd,
       ReadHandler, Awake
  <2>3. QED BY <2>1, <2>2 DEF JoinInv
<1>8. CASE LinkBreaks \/ UNCHANGED vars
  BY <1>8 DEF LinkBreaks, vars, events, JoinInv
<1>9. QED BY <1>1, <1>2, <1>3, <1>4, <1>5, <1>6, <1>7, <1>8 DEF Next, Resume, Open, Close

(* The holder of isOpenMutex never waits for anyone but the event thread   *)
(* at its start, and the holder of publicMethodMutex only for isOpenMutex  *)
(* or for the event thread at its end.                                     *)
LEMMA NobodyStuckInside ==
    ASSUME IInv, OwnerInv, JoinInv, NothingGoesOn
    PROVE  isOpenMutex = "none" /\ \A t \in Threads : pc[t] \in AdapterHeld => pc[t] = "close_join"
<1>0. PcType /\ SessionInv /\ isOpenMutex \in Threads \union {"none"}
  BY TypeFacts DEF IInv, TypeOK
<1>1. \A t \in Threads : pc[t] \notin TransportHeld
  <2> SUFFICES ASSUME NEW t \in Threads, pc[t] \in TransportHeld PROVE FALSE
    OBVIOUS
  <2>1. ~CanGoOn(t) /\ eventThread \notin {"started", "drained"}
    BY DEF NothingGoesOn, EventThreadGoesOn
  <2>2. QED BY <1>0, <2>1 DEF CanGoOn, TransportHeld, JoinInv, SessionInv
<1>2. isOpenMutex = "none"
  BY <1>0, <1>1 DEF OwnerInv
<1>3. ASSUME NEW t \in Threads, pc[t] \in AdapterHeld PROVE pc[t] = "close_join"
  <2>1. ~CanGoOn(t) /\ pc[t] \notin TransportHeld
    BY <1>1 DEF NothingGoesOn
  <2>2. QED BY <1>2, <1>3, <2>1 DEF CanGoOn, AdapterHeld, TransportHeld
<1>4. QED BY <1>2, <1>3

(* When nothing goes on in the driver, no call is under way, or it is the  *)
(* one deadlock: a callback in close() of a session that another thread is *)
(* closing.  No other order of the two mutexes, of the condition variable  *)
(* that open() and the event thread share, and of the join of the event    *)
(* thread stops the calls that have begun, for any application threads.    *)
THEOREM OnlyNestedCloseStops ==
    Spec => [](NothingGoesOn => NestedClose \/ \A t \in Threads : pc[t] = "idle")
<1>1. Init => OwnerInv /\ JoinInv
  BY DEF Init, OwnerInv, JoinInv, Threads
<1>2. IInv /\ OwnerInv /\ JoinInv =>
        (NothingGoesOn => NestedClose \/ \A t \in Threads : pc[t] = "idle")
  <2> SUFFICES ASSUME IInv, OwnerInv, JoinInv, NothingGoesOn,
                      NEW t \in Threads, pc[t] # "idle"
               PROVE  NestedClose
    OBVIOUS
  <2>0. PcType /\ LockInv /\ publicMethodMutex \in Threads \union {"none"} /\ "event" \in Threads
    BY TypeFacts DEF IInv, TypeOK, Threads
  <2>1. isOpenMutex = "none" /\ \A u \in Threads : pc[u] \in AdapterHeld => pc[u] = "close_join"
    BY NobodyStuckInside
  <2>2. PICK u \in Threads : pc[u] = "close_join" /\ publicMethodMutex = u
    <3>1. CASE pc[t] \in AdapterHeld
      BY <2>0, <2>1, <3>1 DEF LockInv
    <3>2. CASE pc[t] \notin AdapterHeld
      <4>1. ~CanGoOn(t) /\ pc[t] \in Labels
        BY <2>0 DEF NothingGoesOn, PcType
      <4>2. publicMethodMutex # "none"
        <5>1. pc[t] # "open_wait"
          BY <3>2 DEF AdapterHeld
        <5>2. QED BY <2>1, <3>2, <4>1, <5>1 DEF CanGoOn, Labels, AdapterHeld
      <4>3. QED BY <2>0, <2>1, <4>2 DEF OwnerInv
    <3>3. QED BY <3>1, <3>2
  <2>3. u \in Apps
    BY <2>2 DEF OwnerInv, Threads
  <2>4. eventThread = "callback" /\ pc["event"] # "idle"
    <3>1. eventThread \notin {"none", "waiting", "started", "drained", "ended"} /\ ~Awake
      BY <2>2 DEF JoinInv, NothingGoesOn, EventThreadGoesOn, CanGoOn
    <3>2. QED BY <3>1 DEF IInv, TypeOK, Awake
  <2>5. pc["event"] = "close"
    <3>1. ~CanGoOn("event") /\ pc["event"] \in Labels
      BY <2>0 DEF NothingGoesOn, PcType
    <3>2. pc["event"] \notin AdapterHeld
      BY <2>0, <2>1 DEF OwnerInv
    <3>3. QED BY <2>1, <2>4, <3>1, <3>2 DEF CanGoOn, Labels, AdapterHeld, OwnerInv
  <2>6. QED BY <2>2, <2>3, <2>4, <2>5 DEF NestedClose
<1>3. QED BY <1>1, <1>2, StepOwnerInv, StepJoinInv, AlwaysIInv, PTL DEF Spec

(* The adapter uses the link as H5Link offers it: close() reaches only a   *)
(* link that is running or down, and an open() that fails takes it the way *)
(* a failed open() does.  H5StateMachine implements the same H5Link.       *)
THEOREM UsesLink == Spec => Link!Spec
<1> DEFINE OpenLinkInv == isOpen => link \in {"running", "down"}
<1>1. Init => OpenLinkInv /\ Link!Init
  BY DEF Init, Link!Init
<1>2. ASSUME OpenLinkInv, [Next]_vars PROVE OpenLinkInv' /\ [Link!Next]_link
  <2>1. ASSUME NEW t \in Threads, OpenFails(t) \/ OpenLink(t) \/ CloseLink(t)
        PROVE  OpenLinkInv' /\ [Link!Next]_link
    BY <1>2, <2>1 DEF OpenFails, OpenLink, CloseLink, Link!Next, Link!Opens, Link!Fails, Link!Closes
  <2>2. ASSUME NEW t \in Threads,
               \/ Call(t) \/ OpenAdapter(t) \/ OpenRefused(t) \/ OpenThread(t) \/ OpenReturn(t)
               \/ GapStateCreate(t) \/ CloseAdapter(t) \/ CloseStop(t) \/ CloseJoin(t)
               \/ GapStateDelete(t) \/ Send(t) \/ SendReturns(t)
        PROVE  UNCHANGED <<isOpen, link>>
    BY <2>2 DEF Call, OpenAdapter, OpenRefused, OpenThread, OpenReturn, GapStateCreate,
       CloseAdapter, CloseStop, CloseJoin, GapStateDelete, Send, SendReturns, opens
  <2>3. CASE LinkBreaks
    BY <1>2, <2>3 DEF LinkBreaks, Link!Next, Link!Breaks
  <2>4. CASE EventThread \/ ReadHandler \/ UNCHANGED vars
    BY <1>2, <2>4 DEF EventThread, DrainEventQueue, FirstWait, TakeEvent, NoMoreEvents, WaitOrEnd,
       ReadHandler, vars, opens
  <2>5. QED BY <1>2, <2>1, <2>2, <2>3, <2>4 DEF Next, Resume, Open, Close
<1>3. QED BY <1>1, <1>2, PTL DEF Spec, Link!Spec
=============================================================================
