--------------------------- MODULE H5StateMachine ---------------------------
(***************************************************************************)
(* The link state machine of H5Transport, the Three-Wire UART transport    *)
(* layer, with the threads that drive it:                                  *)
(*                                                                         *)
(*   worker  the state machine thread (stateMachineWorker): runs the       *)
(*           action of the current state, then moves to the next state;    *)
(*   app     the thread inside open() or close(); isOpenMutex is held for  *)
(*           the whole call, so there is one at a time;                    *)
(*   io      the serial port thread: processPacket() for each packet and   *)
(*           statusHandler() when the port fails.                          *)
(*                                                                         *)
(* A step is what a thread does between taking a mutex and releasing it or *)
(* waiting on a condition variable.  stateMachineMutex is never held       *)
(* across two steps.  currentStateMutex is: open() keeps it while it waits *)
(* for the worker and opens the port, so its owner is part of the state.   *)
(*                                                                         *)
(* The device is the environment: any packet may arrive at any time the    *)
(* port is read.  Durations are not modelled: a wait_for may always end.   *)
(***************************************************************************)
EXTENDS Naturals, FiniteSets

CONSTANT
    PacketRetransmissions   \* PACKET_RETRANSMISSIONS

ASSUME PacketRetransmissionsAssumption == PacketRetransmissions \in Nat \ {0}

VARIABLES
    currentState,       \* h5_state_t
    exitCriterias,      \* for each state with criteria, the flags that are true
    currentStateLocked, \* open() is holding currentStateMutex
    worker,             \* where the state machine thread is
    nextState,          \* what the last state action returned
    retransmissions,    \* syncRetransmission of the running state action
    stateMachineReady,
    isOpen,
    app,                \* where the thread in open() or close() is
    port,               \* the serial port: "failed" is open, reading stopped
    heard               \* history: responses processed since the state was entered

vars == <<currentState, exitCriterias, currentStateLocked, worker, nextState,
          retransmissions, stateMachineReady, isOpen, app, port, heard>>

Handshaking == {"UNINITIALIZED", "INITIALIZED"}
Running     == {"START", "RESET", "ACTIVE"} \union Handshaking
Terminal    == {"FAILED", "CLOSED", "NO_RESPONSE"}

(* The fields of the ExitCriterias classes.                                *)
CommonFlags == {"ioResourceError", "close"}
StateFlags  == [START         |-> {"isOpened"},
                RESET         |-> {"resetSent", "resetWait"},
                UNINITIALIZED |-> {"syncSent", "syncRspReceived"},
                INITIALIZED   |-> {"syncConfigSent", "syncConfigRspReceived"},
                ACTIVE        |-> {"syncReceived", "irrecoverableSyncError"}]
AllFlags    == CommonFlags \union UNION {StateFlags[s] : s \in Running}

(* What a packet from the device can be, as far as the states tell apart;  *)
(* BAD_ACK is an ACK_PACKET that fits neither seqNum nor its successor.    *)
Responses == {"SYNC_RSP", "CONFIG_RSP"}
Packets   == Responses \union {"SYNC", "BAD_ACK"}

WorkerSteps == {"none", "run", "wait", "leave", "done"}
OpenSteps   == {"open_ready", "open_uart", "open_flag", "open_wait"}
CloseSteps  == {"close_join", "close_uart"}

-----------------------------------------------------------------------------
(* isFullfilled() of each class, and the state an action returns.  Here    *)
(* and below, an operator that says what is wrong with it is a variant: a  *)
(* slip the definition after it must not make.  Nothing uses a variant.    *)

Succeeded(s, flags) ==
    IF s = "ACTIVE" THEN flags \intersect StateFlags[s] # {}
                    ELSE StateFlags[s] \subseteq flags

(* Variant: isFullfilled() of the derived class forgets close.             *)
IgnoresClose(s, flags) == "ioResourceError" \in flags \/ Succeeded(s, flags)

IsFullfilled(s, flags) ==
    flags \intersect CommonFlags # {} \/ Succeeded(s, flags)

Following == [START |-> "RESET", RESET |-> "UNINITIALIZED",
              UNINITIALIZED |-> "INITIALIZED", INITIALIZED |-> "ACTIVE",
              ACTIVE |-> "RESET"]

ExitState(s, flags, remaining) ==
    IF "ioResourceError" \in flags THEN "FAILED"
    ELSE IF "close" \in flags THEN "CLOSED"
    ELSE IF Succeeded(s, flags) THEN Following[s]
    ELSE IF s \in Handshaking /\ remaining = 0 THEN "NO_RESPONSE"
    ELSE "FAILED"

(* reset() of the state about to be entered; terminal states have none.    *)
(* Variant: there is no reset.                                             *)
NoReset(s) == exitCriterias

ResetCriterias(s) ==
    IF s \in Running THEN [exitCriterias EXCEPT ![s] = {}] ELSE exitCriterias

Raise(s, flag) == exitCriterias' = [exitCriterias EXCEPT ![s] = @ \union {flag}]

-----------------------------------------------------------------------------
Init ==
    /\ currentState = "START"
    /\ exitCriterias = [s \in Running |-> {}]
    /\ currentStateLocked = FALSE
    /\ worker = "none"
    /\ nextState = "START"
    /\ retransmissions = 0
    /\ stateMachineReady = FALSE
    /\ isOpen = FALSE
    /\ app = "idle"
    /\ port = "closed"
    /\ heard = {}

-----------------------------------------------------------------------------
(* The worker.                                                             *)

(* syncRetransmission-- and the test of the loop.  Variants: the counter   *)
(* stays, and the test lets it go below zero.                              *)
NoCountdown(remaining) == remaining
Countdown(remaining)   == remaining - 1
TriesLeft(remaining)   == remaining > 0

(* The loop of the handshake states: send and wait while the criteria are  *)
(* not met and tries remain, otherwise return.                             *)
TryOrLeave(remaining) ==
    LET s     == currentState
        flags == exitCriterias[s]
        sent  == IF s = "UNINITIALIZED" THEN "syncSent" ELSE "syncConfigSent"
    IN  /\ retransmissions' = remaining
        /\ \/ /\ ~IsFullfilled(s, flags) /\ TriesLeft(remaining)
              /\ Raise(s, sent)
              /\ worker' = "wait"
              /\ UNCHANGED nextState
           \/ /\ IsFullfilled(s, flags) \/ ~TriesLeft(remaining)
              /\ nextState' = ExitState(s, flags, remaining)
              /\ worker' = "leave"
              /\ UNCHANGED exitCriterias

(* stateActionStart() reports that the worker runs.  Variant: it does not. *)
NeverReady == stateMachineReady
Ready      == stateMachineReady \/ currentState = "START"

(* stateActions[currentState]() up to its first wait.                      *)
RunAction ==
    /\ worker = "run"
    /\ \/ /\ currentState \in {"START", "ACTIVE"}
          /\ stateMachineReady' = Ready
          /\ worker' = "wait"
          /\ UNCHANGED <<exitCriterias, nextState, retransmissions>>
       \/ /\ currentState = "RESET"
          /\ Raise("RESET", "resetSent")
          /\ worker' = "wait"
          /\ UNCHANGED <<nextState, retransmissions, stateMachineReady>>
       \/ /\ currentState \in Handshaking
          /\ TryOrLeave(PacketRetransmissions)
          /\ UNCHANGED stateMachineReady
    /\ UNCHANGED <<currentState, currentStateLocked, isOpen, app, port, heard>>

(* The wait of a state action ends: its predicate holds, or its time is up *)
(* (START and ACTIVE wait without a time limit).                           *)
EndWait ==
    /\ worker = "wait"
    /\ \/ /\ currentState \in {"START", "ACTIVE"}
          /\ IsFullfilled(currentState, exitCriterias[currentState])
          /\ nextState' = ExitState(currentState, exitCriterias[currentState], 0)
          /\ worker' = "leave"
          /\ UNCHANGED <<exitCriterias, retransmissions>>
       \/ /\ currentState = "RESET"
          /\ Raise("RESET", "resetWait")
          /\ nextState' = ExitState("RESET", exitCriterias["RESET"] \union {"resetWait"}, 0)
          /\ worker' = "leave"
          /\ UNCHANGED retransmissions
       \/ /\ currentState \in Handshaking
          /\ TryOrLeave(Countdown(retransmissions))
    /\ UNCHANGED <<currentState, currentStateLocked, stateMachineReady, isOpen,
                   app, port, heard>>

(* stateMachineWorker() after the state action: under both mutexes, reset  *)
(* the criteria of the next state and make it current.                     *)
EnterState ==
    /\ worker = "leave"
    /\ ~currentStateLocked
    /\ exitCriterias' = ResetCriterias(nextState)
    /\ currentState' = nextState
    /\ heard' = {}
    /\ worker' = IF nextState \in Terminal THEN "done" ELSE "run"
    /\ stateMachineReady' = (stateMachineReady /\ nextState \notin Terminal)
    /\ UNCHANGED <<currentStateLocked, nextState, retransmissions, isOpen, app, port>>

-----------------------------------------------------------------------------
(* The io thread.                                                          *)

(* The flag a packet raises in a state, if any.                            *)
Effect(s, packet) ==
    CASE s = "UNINITIALIZED" /\ packet = "SYNC_RSP"  -> {"syncRspReceived"}
      [] s = "INITIALIZED" /\ packet = "CONFIG_RSP"  -> {"syncConfigRspReceived"}
      [] s = "ACTIVE" /\ packet = "SYNC"             -> {"syncReceived"}
      [] s = "ACTIVE" /\ packet = "BAD_ACK"          -> {"irrecoverableSyncError"}
      [] OTHER                                       -> {}

ProcessPacket(packet) ==
    /\ port = "open"
    /\ ~currentStateLocked
    /\ currentState \in Running \ {"RESET"}
    /\ exitCriterias' = [exitCriterias EXCEPT
                            ![currentState] = @ \union Effect(currentState, packet)]
    /\ heard' = heard \union ({packet} \intersect Responses)
    /\ UNCHANGED <<currentState, currentStateLocked, worker, nextState,
                   retransmissions, stateMachineReady, isOpen, app, port>>

(* UartTransport reports IO_RESOURCES_UNAVAILABLE once and stops reading.  *)
StatusHandler ==
    /\ port = "open"
    /\ port' = "failed"
    /\ \/ currentState \in Running /\ Raise(currentState, "ioResourceError")
       \/ currentState \in Terminal /\ UNCHANGED exitCriterias
    /\ UNCHANGED <<currentState, currentStateLocked, worker, nextState,
                   retransmissions, stateMachineReady, isOpen, app, heard>>

-----------------------------------------------------------------------------
(* open().  A call on an open transport, like close() on a closed one,     *)
(* returns at once and changes nothing.                                    *)

(* The states open() starts from.                                          *)
CanStart == currentState \in {"START", "CLOSED"}

OpenRefused ==
    /\ app = "idle" /\ ~isOpen
    /\ ~CanStart
    /\ isOpen' = TRUE
    /\ UNCHANGED <<currentState, exitCriterias, currentStateLocked, worker, nextState,
                   retransmissions, stateMachineReady, app, port, heard>>

(* setupStateMachine() and the first half of startStateMachine().          *)
OpenStart ==
    /\ app = "idle" /\ ~isOpen
    /\ CanStart
    /\ isOpen' = TRUE
    /\ currentStateLocked' = TRUE
    /\ exitCriterias' = [s \in Running |-> {}]
    /\ currentState' = "START"
    /\ heard' = {}
    /\ worker' = "run"
    /\ app' = "open_ready"
    /\ UNCHANGED <<nextState, retransmissions, stateMachineReady, port>>

OpenReady ==
    /\ app = "open_ready"
    /\ stateMachineReady
    /\ app' = "open_uart"
    /\ UNCHANGED <<currentState, exitCriterias, currentStateLocked, worker, nextState,
                   retransmissions, stateMachineReady, isOpen, port, heard>>

(* nextTransportLayer->open() succeeds or fails; some of its failures also *)
(* call statusHandler().                                                   *)
OpenUart ==
    /\ app = "open_uart"
    /\ \/ port' \in {"open", "closed"} /\ UNCHANGED exitCriterias
       \/ port' = "closed" /\ Raise(currentState, "ioResourceError")
    /\ app' = "open_flag"
    /\ UNCHANGED <<currentState, currentStateLocked, worker, nextState,
                   retransmissions, stateMachineReady, isOpen, heard>>

(* The flag raised for the result of opening the port.  Variant: the       *)
(* result is ignored.                                                      *)
AlwaysOpened == "isOpened"
OpenOutcome  == IF port = "closed" THEN "ioResourceError" ELSE "isOpened"

OpenFlag ==
    /\ app = "open_flag"
    /\ Raise(currentState, OpenOutcome)
    /\ currentStateLocked' = FALSE
    /\ app' = "open_wait"
    /\ UNCHANGED <<currentState, worker, nextState, retransmissions,
                   stateMachineReady, isOpen, port, heard>>

(* waitForState(STATE_ACTIVE, OPEN_WAIT_TIMEOUT) ends, open() returns.     *)
(* Variant: a failed open() marks the transport as not open.               *)
OpenReturnResets ==
    /\ app = "open_wait"
    /\ app' = "idle"
    /\ isOpen' = (currentState = "ACTIVE")
    /\ UNCHANGED <<currentState, exitCriterias, currentStateLocked, worker, nextState,
                   retransmissions, stateMachineReady, port, heard>>

OpenReturn ==
    /\ app = "open_wait"
    /\ app' = "idle"
    /\ UNCHANGED <<currentState, exitCriterias, currentStateLocked, worker, nextState,
                   retransmissions, stateMachineReady, isOpen, port, heard>>

-----------------------------------------------------------------------------
(* close().                                                                *)

CloseFlag ==
    /\ app = "idle" /\ isOpen
    /\ ~currentStateLocked
    /\ isOpen' = FALSE
    /\ \/ currentState \in Running /\ Raise(currentState, "close")
       \/ currentState \in Terminal /\ UNCHANGED exitCriterias
    /\ app' = "close_join"
    /\ UNCHANGED <<currentState, currentStateLocked, worker, nextState,
                   retransmissions, stateMachineReady, port, heard>>

(* stopStateMachine().  Variant: the thread is not waited for.             *)
CloseDetaches ==
    /\ app = "close_join"
    /\ app' = "close_uart"
    /\ UNCHANGED <<currentState, exitCriterias, currentStateLocked, worker, nextState,
                   retransmissions, stateMachineReady, isOpen, port, heard>>

CloseJoin ==
    /\ app = "close_join"
    /\ worker \in {"none", "done"}
    /\ worker' = "none"
    /\ app' = "close_uart"
    /\ UNCHANGED <<currentState, exitCriterias, currentStateLocked, nextState,
                   retransmissions, stateMachineReady, isOpen, port, heard>>

CloseUart ==
    /\ app = "close_uart"
    /\ port' = "closed"
    /\ app' = "idle"
    /\ UNCHANGED <<currentState, exitCriterias, currentStateLocked, worker, nextState,
                   retransmissions, stateMachineReady, isOpen, heard>>

-----------------------------------------------------------------------------
Worker == RunAction \/ EndWait \/ EnterState
Io     == StatusHandler \/ \E packet \in Packets : ProcessPacket(packet)
Call   == OpenRefused \/ OpenStart \/ CloseFlag
Resume == OpenReady \/ OpenUart \/ OpenFlag \/ OpenReturn \/ CloseJoin \/ CloseUart
Next   == Worker \/ Io \/ Call \/ Resume

(* Threads that can run do run, a timed wait ends, and a started call goes *)
(* on; nothing obliges the device to answer or the application to call.    *)
Fairness == WF_vars(Worker) /\ WF_vars(Resume)

Spec     == Init /\ [][Next]_vars
FairSpec == Spec /\ Fairness

-----------------------------------------------------------------------------
(* Properties.                                                             *)

(* Every variable has its type: the types of the members of H5Transport.   *)
TypeOK ==
    /\ currentState \in Running \union Terminal
    /\ exitCriterias \in [Running -> SUBSET AllFlags]
    /\ currentStateLocked \in BOOLEAN
    /\ worker \in WorkerSteps
    /\ nextState \in Running \union Terminal
    /\ retransmissions \in 0..PacketRetransmissions
    /\ stateMachineReady \in BOOLEAN
    /\ isOpen \in BOOLEAN
    /\ app \in {"idle"} \union OpenSteps \union CloseSteps
    /\ port \in {"closed", "open", "failed"}
    /\ heard \subseteq Responses

(* The handshake only advances on a response processed since the state was *)
(* entered: a response to an earlier session, whose flag is still set in   *)
(* the criteria of a state the machine comes back to, never counts.        *)
FreshHandshake ==
    worker = "leave" =>
        /\ nextState = "INITIALIZED" => "SYNC_RSP" \in heard
        /\ nextState = "ACTIVE" => "CONFIG_RSP" \in heard

(* startStateMachine() never finds a thread that is still joinable, so the *)
(* std::terminate() it falls back on is unreachable.                       *)
NeverTerminates == app = "idle" /\ ~isOpen => worker = "none"

(* Once past START the machine talks to a port that was opened and has not *)
(* been closed: no control packet goes to a closed port.                   *)
SendsOnlyToOpenPort ==
    currentState \in Running \ {"START"} => port # "closed"

(* When close() reaches UartTransport::close(), which waits for the io     *)
(* thread, the state is terminal: processPacket() sends nothing in such a  *)
(* state, so the io thread cannot be waiting for a lock close() holds.     *)
QuietUartClose == app = "close_uart" => currentState \in Terminal

(* "No exit exists from this state": FAILED and NO_RESPONSE are final, for *)
(* the transport too, since open() accepts neither.                        *)
FailureIsFinal ==
    [][(currentState \in {"FAILED", "NO_RESPONSE"}) => (currentState' = currentState)]_vars

(* open() returns: neither the wait for the worker nor the locks it holds  *)
(* keep it from doing so.                                                  *)
OpenReturns == app \in OpenSteps ~> app = "idle"

(* The machine does not stay in a handshake state: a silent device ends in *)
(* NO_RESPONSE after the last retransmission.                              *)
HandshakeEnds == \A s \in Handshaking : currentState = s ~> currentState # s

(* A close request or a port failure noted before the worker has left the  *)
(* state action is never lost: the machine stops.                          *)
StopHonoured ==
    (/\ worker \in {"run", "wait"}
     /\ exitCriterias[currentState] \intersect CommonFlags # {})
        ~> worker \in {"done", "none"}

(* Everything comes to a stop in one way only: a close() waits for the     *)
(* worker, the worker waits in ACTIVE for a flag that was raised on the    *)
(* criteria of the state before, and the port, failed, delivers nothing.   *)
(* No other order of the calls, the locks and the waits blocks all threads.*)
OnlyLostCloseHangs ==
    ~ENABLED Next =>
        /\ app = "close_join"
        /\ worker = "wait" /\ currentState = "ACTIVE"
        /\ port = "failed"
=============================================================================
