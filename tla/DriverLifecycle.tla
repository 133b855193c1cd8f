--------------------------- MODULE DriverLifecycle ---------------------------
(***************************************************************************)
(* sd_rpc_open(), sd_rpc_close() and commands, through AdapterInternal and  *)
(* SerializationTransport, with the event thread that calls the             *)
(* application back.  The link below is H5Link, which H5StateMachine        *)
(* implements: its open() succeeds, fails, or times out and leaves the link *)
(* at work.  Its close() returns.                                           *)
(*                                                                          *)
(* Threads take locks in this order: publicMethodMutex of the adapter,      *)
(* isOpenMutex of the serialization transport, eventMutex.  The regions     *)
(* under eventMutex are single steps; the owners of the other two are       *)
(* variables.  A callback calls what CallbackCalls allows it.               *)
(***************************************************************************)
EXTENDS Naturals, Sequences

CONSTANTS
    Apps,            \* threads of the application
    CallbackCalls,   \* what event callbacks call: "send", "close"
    MaxEvents        \* bound: events of the device

ASSUME AppsAssumption == "event" \notin Apps /\ "none" \notin Apps
ASSUME CallsAssumption == CallbackCalls \subseteq {"send", "close"}
ASSUME MaxEventsAssumption == MaxEvents \in Nat

VARIABLES
    pc,             \* where each thread is in a call of the driver
    publicMethodMutex, isOpenMutex,    \* their owners, or "none"
    adapterIsOpen,  \* AdapterInternal::isOpen
    isOpen,         \* SerializationTransport::isOpen
    link,           \* that of H5Link
    eventThread,    \* "none" when it is not joinable
    processEvents,
    eventQueue,     \* the numbers of the events in it
    gapState,       \* whether adapters_gap_state has an entry for the adapter
    arrived,        \* events received
    handled,        \* the events given to the application, in order
    early,          \* history: events received before the thread first waits
    before          \* history: events received before the link was opened

locks  == <<publicMethodMutex, isOpenMutex>>
events == <<eventThread, processEvents, eventQueue, arrived, handled, early,
            before>>
opens  == <<adapterIsOpen, isOpen, link, gapState>>
vars   == <<pc, locks, opens, events>>

Threads == Apps \union {"event"}

Link == INSTANCE H5Link

Init ==
    /\ pc = [t \in Threads |-> "idle"]
    /\ publicMethodMutex = "none" /\ isOpenMutex = "none"
    /\ adapterIsOpen = FALSE /\ isOpen = FALSE /\ gapState = FALSE
    /\ link = "idle"
    /\ eventThread = "none" /\ processEvents = FALSE
    /\ eventQueue = <<>>
    /\ arrived = 0
    /\ handled = <<>>
    /\ early = 0
    /\ before = 0

Goto(t, label) == pc' = [pc EXCEPT ![t] = label]

(* The application calls from its threads or from the event callback; from *)
(* then on the thread waits for the locks of the call.                     *)
Call(t) ==
    /\ pc[t] = "idle"
    /\ \/ t \in Apps /\ \E call \in {"open", "close", "send"} : Goto(t, call)
       \/ /\ t = "event" /\ eventThread = "callback"
          /\ \E call \in CallbackCalls : Goto(t, call)
    /\ UNCHANGED <<locks, opens, events>>

(* A thread that waits for eventWaitCondition: open() or the event thread. *)
OpenWaits       == {t \in Threads : pc[t] = "open_wait"}
WakeOpen        == [t \in Threads |-> IF t \in OpenWaits THEN "open_ready" ELSE pc[t]]
WakeEventThread == IF eventThread = "waiting" THEN "woken" ELSE eventThread

-----------------------------------------------------------------------------
(* sd_rpc_open()                                                           *)

OpenAdapter(t) ==
    /\ pc[t] = "open"
    /\ publicMethodMutex = "none"
    /\ IF adapterIsOpen    \* NRF_ERROR_INVALID_STATE
       THEN Goto(t, "idle") /\ UNCHANGED <<publicMethodMutex, adapterIsOpen>>
       ELSE Goto(t, "open_transport") /\ publicMethodMutex' = t /\ adapterIsOpen' = TRUE
    /\ UNCHANGED <<isOpenMutex, isOpen, link, gapState, events>>

OpenRefused(t) ==    \* NRF_ERROR_SD_RPC_SERIALIZATION_TRANSPORT_ALREADY_OPEN
    /\ pc[t] = "open_transport"
    /\ isOpenMutex = "none"
    /\ isOpen
    /\ publicMethodMutex' = "none"
    /\ Goto(t, "idle")
    /\ UNCHANGED <<isOpenMutex, opens, events>>

OpenFails(t) ==
    /\ pc[t] = "open_transport"
    /\ isOpenMutex = "none"
    /\ ~isOpen
    /\ Link!Fails
    /\ publicMethodMutex' = "none"
    /\ Goto(t, "idle")
    /\ UNCHANGED <<isOpenMutex, adapterIsOpen, isOpen, gapState, events>>

OpenLink(t) ==
    /\ pc[t] = "open_transport"
    /\ isOpenMutex = "none"
    /\ ~isOpen
    /\ Link!Opens
    /\ isOpen' = TRUE
    /\ isOpenMutex' = t
    /\ before' = arrived
    /\ Goto(t, "open_thread")
    /\ UNCHANGED <<publicMethodMutex, adapterIsOpen, gapState, eventThread, processEvents,
                   eventQueue, arrived, handled, early>>

(* The event thread is never joinable here: see ThreadInsideSession.       *)
OpenThread(t) ==
    /\ pc[t] = "open_thread"
    /\ eventThread = "none"
    /\ eventThread' = "started"
    /\ processEvents' = TRUE
    /\ Goto(t, "open_wait")
    /\ UNCHANGED <<locks, opens, eventQueue, arrived, handled, early, before>>

OpenReturn(t) ==
    /\ pc[t] = "open_ready"
    /\ publicMethodMutex' = "none"
    /\ isOpenMutex' = "none"
    /\ Goto(t, "create")
    /\ UNCHANGED <<opens, events>>

GapStateCreate(t) ==
    /\ pc[t] = "create"
    /\ gapState' = TRUE
    /\ Goto(t, "idle")
    /\ UNCHANGED <<locks, adapterIsOpen, isOpen, link, events>>

-----------------------------------------------------------------------------
(* sd_rpc_close()                                                          *)

(* What follows AdapterInternal::close(), whatever it returns.  KeepsState *)
(* forgets the GAP state.                                                  *)
KeepsState == "idle"
AfterClose == "delete"

CloseAdapter(t) ==
    /\ pc[t] = "close"
    /\ publicMethodMutex = "none"
    /\ IF adapterIsOpen
       THEN Goto(t, "close_stop") /\ publicMethodMutex' = t /\ adapterIsOpen' = FALSE
       ELSE Goto(t, AfterClose) /\ UNCHANGED <<publicMethodMutex, adapterIsOpen>>
    /\ UNCHANGED <<isOpenMutex, isOpen, link, gapState, events>>

(* What close() does once the event thread has been told to stop.  NoJoin  *)
(* does not wait for it, WaitsForItself joins from the callback too.       *)
NoJoin(t)         == "close_link"
WaitsForItself(t) == IF eventThread = "none" THEN "close_link" ELSE "close_join"
Joins(t) ==
    IF eventThread = "none" THEN "close_link"
    ELSE IF t = "event" THEN AfterClose    \* closed from a callback: an error
    ELSE "close_join"

CloseStop(t) ==
    /\ pc[t] = "close_stop"
    /\ processEvents' = FALSE
    /\ eventThread' = WakeEventThread
    /\ Goto(t, Joins(t))
    /\ publicMethodMutex' = IF Joins(t) = AfterClose THEN "none" ELSE publicMethodMutex
    /\ UNCHANGED <<isOpenMutex, opens, eventQueue, arrived, handled, early, before>>

CloseJoin(t) ==
    /\ pc[t] = "close_join"
    /\ eventThread = "ended"
    /\ eventThread' = "none"
    /\ Goto(t, "close_link")
    /\ UNCHANGED <<locks, opens, processEvents, eventQueue, arrived, handled, early, before>>

(* Only an open transport closes the link below.                           *)
CloseLink(t) ==
    /\ pc[t] = "close_link"
    /\ isOpenMutex = "none"
    /\ isOpen' = FALSE
    /\ IF isOpen THEN Link!Closes ELSE UNCHANGED link
    /\ publicMethodMutex' = "none"
    /\ Goto(t, AfterClose)
    /\ UNCHANGED <<isOpenMutex, adapterIsOpen, gapState, events>>

GapStateDelete(t) ==
    /\ pc[t] = "delete"
    /\ gapState' = FALSE
    /\ Goto(t, "idle")
    /\ UNCHANGED <<locks, adapterIsOpen, isOpen, link, events>>

-----------------------------------------------------------------------------
(* SerializationTransport::send(): holds isOpenMutex until the response    *)
(* arrives or the time is up.  It does not take publicMethodMutex.         *)

Send(t) ==
    /\ pc[t] = "send"
    /\ isOpenMutex = "none"
    /\ IF isOpen
       THEN Goto(t, "send_wait") /\ isOpenMutex' = t
       ELSE Goto(t, "idle") /\ UNCHANGED isOpenMutex
    /\ UNCHANGED <<publicMethodMutex, opens, events>>

SendReturns(t) ==
    /\ pc[t] = "send_wait"
    /\ isOpenMutex' = "none"
    /\ Goto(t, "idle")
    /\ UNCHANGED <<publicMethodMutex, opens, events>>

-----------------------------------------------------------------------------
(* The io thread: readHandler() for an event; notify_one() wakes one of    *)
(* the threads that wait, if there is one.                                 *)

ReadHandler ==
    /\ link = "running"
    /\ arrived < MaxEvents
    /\ arrived' = arrived + 1
    /\ eventQueue' = Append(eventQueue, arrived')
    /\ \/ eventThread = "waiting" /\ eventThread' = "woken" /\ UNCHANGED pc
       \/ OpenWaits # {} /\ pc' = WakeOpen /\ UNCHANGED eventThread
       \/ eventThread # "waiting" /\ OpenWaits = {} /\ UNCHANGED <<pc, eventThread>>
    /\ UNCHANGED <<locks, opens, processEvents, handled, early, before>>

LinkBreaks ==
    /\ Link!Breaks
    /\ UNCHANGED <<pc, locks, adapterIsOpen, isOpen, gapState, events>>

-----------------------------------------------------------------------------
(* The event thread: eventHandlingRunner().                                *)

(* NoDrain keeps the events of the session before.                         *)
NoDrain == eventQueue
Drained == <<>>

DrainEventQueue ==
    /\ eventThread = "started"
    /\ eventThread' = "drained"
    /\ eventQueue' = Drained
    /\ UNCHANGED <<pc, locks, opens, processEvents, arrived, handled, early, before>>

(* while (processEvents) notify and wait; or the thread ends.  NoWake      *)
(* leaves out the notification open() waits for.                           *)
NoWake    == pc
LoopWakes == WakeOpen

WaitOrEnd ==
    /\ eventThread' = IF processEvents THEN "waiting" ELSE "ended"
    /\ pc' = LoopWakes
    /\ UNCHANGED <<locks, opens, processEvents, eventQueue, arrived, handled,
                   before>>

FirstWait ==
    /\ eventThread = "drained"
    /\ early' = arrived
    /\ WaitOrEnd

(* OnceOnly handles one event for each time the thread is woken.           *)
OnceOnly(thread) == thread = "woken" /\ eventQueue # <<>> /\ processEvents
HasEvent(thread) == eventQueue # <<>> /\ processEvents

(* The thread is woken, or a callback returns: it takes the next event or  *)
(* goes back to wait.                                                      *)
Awake ==
    \/ eventThread = "woken"
    \/ eventThread = "callback" /\ pc["event"] = "idle"

(* Peeks reads the front of the queue and forgets to pop it.               *)
Peeks  == eventQueue
Popped == Tail(eventQueue)

TakeEvent ==
    /\ Awake
    /\ HasEvent(eventThread)
    /\ eventThread' = "callback"
    /\ handled' = Append(handled, Head(eventQueue))
    /\ eventQueue' = Popped
    /\ UNCHANGED <<pc, locks, opens, processEvents, arrived, early, before>>

NoMoreEvents ==
    /\ Awake
    /\ ~HasEvent(eventThread)
    /\ WaitOrEnd
    /\ UNCHANGED early

-----------------------------------------------------------------------------
Open(t)  == OpenAdapter(t) \/ OpenRefused(t) \/ OpenFails(t) \/ OpenLink(t)
                \/ OpenThread(t) \/ OpenReturn(t) \/ GapStateCreate(t)
Close(t) == CloseAdapter(t) \/ CloseStop(t) \/ CloseJoin(t) \/ CloseLink(t)
                \/ GapStateDelete(t)
Resume(t) == Open(t) \/ Close(t) \/ Send(t) \/ SendReturns(t)
EventThread == DrainEventQueue \/ FirstWait \/ TakeEvent \/ NoMoreEvents
Next == (\E t \in Threads : Call(t) \/ Resume(t)) \/ EventThread \/ ReadHandler \/ LinkBreaks

(* Threads go on with what they have begun, and callbacks return; a thread *)
(* that keeps asking for a lock gets it in the end.                        *)
Fairness ==
    /\ \A t \in Threads : SF_vars(Resume(t))
    /\ SF_vars(EventThread)

Spec     == Init /\ [][Next]_vars
FairSpec == Spec /\ Fairness

-----------------------------------------------------------------------------
(* Properties.                                                             *)

(* Every variable has its type, and no more events wait or have been       *)
(* handled than have arrived.                                              *)
TypeOK ==
    /\ pc \in [Threads -> {"idle", "open", "open_transport", "open_thread", "open_wait",
                           "open_ready", "create", "close", "close_stop", "close_join",
                           "close_link", "delete", "send", "send_wait"}]
    /\ {publicMethodMutex, isOpenMutex} \subseteq Threads \union {"none"}
    /\ {adapterIsOpen, isOpen, processEvents, gapState} \subseteq BOOLEAN
    /\ link \in {"idle", "running", "down", "spent"}
    /\ eventThread \in {"none", "started", "drained", "waiting", "woken", "callback", "ended"}
    /\ arrived \in 0..MaxEvents
    /\ early \in 0..MaxEvents
    /\ eventQueue \in Seq(1..MaxEvents)
    /\ handled \in Seq(1..MaxEvents)
    /\ before \in 0..MaxEvents
    /\ Len(eventQueue) + Len(handled) <= arrived

(* The event thread, which the destructor and the next open() rely on,     *)
(* exists only while the transport is open: no callback comes after        *)
(* close(), and open() never finds a thread of the session before ("Thread *)
(* should not be running from before when calling this").                  *)
ThreadInsideSession == eventThread # "none" => isOpen

(* With one thread that opens, a GAP state is kept for an open transport   *)
(* only, once no call is under way: a close() that is refused, fails or     *)
(* comes from a callback in the middle of sd_rpc_open() included.           *)
GapStateOfOpenTransport == (\A t \in Threads : pc[t] = "idle") /\ gapState => isOpen

(* Events wait in the queue of a thread that waits only if they came       *)
(* before it first waited; the notification of any other event wakes it.   *)
NoLostWakeup ==
    eventThread = "waiting" => \A i \in DOMAIN eventQueue : eventQueue[i] <= early

(* Events are handled in the order they arrive and at most once.           *)
Channel == INSTANCE AtMostOnceChannel WITH offered <- arrived, delivered <- handled

ImplementsChannel == Channel!Spec

(* An event that came before the link was opened, left in the queue by the *)
(* session before or by a link that was never closed, is not handled.      *)
NoStaleEvent == [][TakeEvent => Head(eventQueue) > before]_vars

(* open() returns, whatever arrives while it waits for its thread.         *)
OpenReturns == \A t \in Threads : pc[t] = "open_wait" ~> pc[t] = "idle"

(* close() waits for the event thread, whose callback may itself call the  *)
(* driver: "Stop event processing thread before closing since event         *)
(* callbacks may in application space invoke new calls to                   *)
(* SerializationTransport".  It returns unless that call is a close() too,  *)
(* which waits for publicMethodMutex on the thread that is joined.          *)
OnlyNestedCloseHangs ==
    \A t \in Threads : pc[t] = "close_join" ~> pc[t] = "idle" \/ pc["event"] = "close"
=============================================================================
