----------------------- MODULE H5StateMachine_proofs -----------------------
(***************************************************************************)
(* Proofs about the link state machine of H5Transport, for any number of   *)
(* retransmissions: its type invariant, the safety invariants that the     *)
(* runs check on a small instance, that a failure is final, that only a    *)
(* close() whose flag was lost can stop every thread, and that it          *)
(* implements H5Link.                                                      *)
(***************************************************************************)
EXTENDS H5StateMachine, TLAPS

-----------------------------------------------------------------------------
(* The inductive invariant, in four parts.                                 *)

OpenLocked == {"open_ready", "open_uart", "open_flag"}

(* How far the worker is agrees with the state.                            *)
WorkerInv ==
    /\ worker \in {"run", "wait", "leave"} => currentState \in Running
    /\ worker = "none" => currentState \in Terminal \union {"START"}
    /\ worker = "done" => currentState \in Terminal
    /\ worker = "wait" /\ currentState \in Handshaking => retransmissions > 0

(* What each step of open() and close() relies on.                         *)
AppInv ==
    /\ app \in OpenLocked =>
          currentStateLocked /\ currentState = "START" /\ worker \in {"run", "wait", "leave"}
    /\ app \in OpenSteps => isOpen
    /\ app \in CloseSteps => ~isOpen
    /\ app = "idle" /\ ~isOpen => worker = "none"
    /\ (isOpen \/ app = "close_join") /\ worker = "none" => currentState \in Terminal
    /\ app = "close_uart" => worker = "none" /\ currentState \in Terminal

(* What the flags of the current state are evidence of.                    *)
FlagInv ==
    currentState \in Running =>
        LET flags == exitCriterias[currentState]
        IN  /\ "close" \in flags => ~isOpen
            /\ currentState = "START" /\ "isOpened" \in flags =>
                  port # "closed" /\ app \notin OpenLocked
            /\ currentState = "UNINITIALIZED" /\ "syncRspReceived" \in flags =>
                  "SYNC_RSP" \in heard
            /\ currentState = "INITIALIZED" /\ "syncConfigRspReceived" \in flags =>
                  "CONFIG_RSP" \in heard

(* What the state chosen next is evidence of.                              *)
ChoiceInv ==
    worker = "leave" =>
        /\ nextState # "START"
        /\ nextState = "CLOSED" => ~isOpen
        /\ nextState \in Running => port # "closed" /\ app \notin OpenLocked

(* STATE_CLOSED is only ever the result of a close() under way or done.    *)
ClosedByRequest == currentState = "CLOSED" => ~isOpen

IInv ==
    /\ TypeOK /\ WorkerInv /\ AppInv /\ FlagInv /\ ChoiceInv
    /\ FreshHandshake /\ SendsOnlyToOpenPort /\ ClosedByRequest

-----------------------------------------------------------------------------
(* Lemmas about the operators the steps are built from.                    *)

(* AllFlags, spelled out.                                                  *)
LEMMA FlagNames ==
    AllFlags = {"ioResourceError", "close", "isOpened", "resetSent", "resetWait",
                "syncSent", "syncRspReceived", "syncConfigSent",
                "syncConfigRspReceived", "syncReceived", "irrecoverableSyncError"}
  <1>1. Running = {"START", "RESET", "ACTIVE", "UNINITIALIZED", "INITIALIZED"}
    BY DEF Running, Handshaking
  <1>2. UNION {StateFlags[s] : s \in Running} =
            StateFlags["START"] \union StateFlags["RESET"] \union StateFlags["ACTIVE"]
            \union StateFlags["UNINITIALIZED"] \union StateFlags["INITIALIZED"]
    BY <1>1
  <1>3. QED BY <1>2 DEF AllFlags, CommonFlags, StateFlags

(* What is known of the flags of the state a state action returns.         *)
LEMMA ExitStateFacts ==
    ASSUME NEW s \in Running, NEW flags, NEW remaining,
           NEW result, result = ExitState(s, flags, remaining)
    PROVE  /\ result \in Running \union Terminal
           /\ result # "START"
           /\ result = "CLOSED" => "close" \in flags
           /\ s = "START" /\ result \in Running => "isOpened" \in flags
           /\ result = "INITIALIZED" => s = "UNINITIALIZED" /\ "syncRspReceived" \in flags
           /\ result = "ACTIVE" => s = "INITIALIZED" /\ "syncConfigRspReceived" \in flags
  BY DEF ExitState, Succeeded, Following, StateFlags, Running, Handshaking, Terminal

(* A packet raises at most one flag, that of a response in the state that  *)
(* waits for it, and never one of the common flags.                        *)
LEMMA EffectFacts ==
    ASSUME NEW s \in Running, NEW packet \in Packets
    PROVE  /\ Effect(s, packet) \subseteq AllFlags
           /\ "close" \notin Effect(s, packet)
           /\ "isOpened" \notin Effect(s, packet)
           /\ "syncRspReceived" \in Effect(s, packet) => packet = "SYNC_RSP"
           /\ "syncConfigRspReceived" \in Effect(s, packet) => packet = "CONFIG_RSP"
  <1>1. \/ Effect(s, packet) = {"syncRspReceived"} /\ packet = "SYNC_RSP"
        \/ Effect(s, packet) = {"syncConfigRspReceived"} /\ packet = "CONFIG_RSP"
        \/ Effect(s, packet) = {"syncReceived"}
        \/ Effect(s, packet) = {"irrecoverableSyncError"}
        \/ Effect(s, packet) = {}
    BY DEF Effect
  <1>2. QED BY <1>1, FlagNames

-----------------------------------------------------------------------------
(* Raising a flag keeps the criteria well typed.                           *)
LEMMA RaiseType ==
    ASSUME exitCriterias \in [Running -> SUBSET AllFlags],
           NEW s \in Running, NEW flag \in AllFlags, Raise(s, flag)
    PROVE  exitCriterias' \in [Running -> SUBSET AllFlags]
  BY DEF Raise

(* One pass of the handshake loop keeps the types.                         *)
LEMMA TryOrLeaveType ==
    ASSUME TypeOK, currentState \in Handshaking,
           NEW remaining \in 0..PacketRetransmissions, TryOrLeave(remaining)
    PROVE  /\ exitCriterias' \in [Running -> SUBSET AllFlags]
           /\ nextState' \in Running \union Terminal
           /\ retransmissions' \in 0..PacketRetransmissions
           /\ worker' \in {"wait", "leave"}
  <1>1. currentState \in Running /\ exitCriterias \in [Running -> SUBSET AllFlags]
        /\ nextState \in Running \union Terminal
    BY DEF TypeOK, Running
  <1>2. retransmissions' = remaining /\ worker' \in {"wait", "leave"}
    BY DEF TryOrLeave
  <1>3. CASE \E flag \in {"syncSent", "syncConfigSent"} :
                 Raise(currentState, flag) /\ UNCHANGED nextState
    BY <1>1, <1>2, <1>3, RaiseType, FlagNames
  <1>4. CASE /\ nextState' = ExitState(currentState, exitCriterias[currentState], remaining)
             /\ UNCHANGED exitCriterias
    BY <1>1, <1>2, <1>4, ExitStateFacts
  <1>5. QED BY <1>3, <1>4 DEF TryOrLeave

LEMMA InitIInv == Init => IInv
<1> SUFFICES ASSUME Init PROVE IInv
  OBVIOUS
<1>1. TypeOK
  <2>1. exitCriterias \in [Running -> SUBSET AllFlags]
    BY DEF Init
  <2>2. retransmissions \in 0..PacketRetransmissions
    BY PacketRetransmissionsAssumption DEF Init
  <2>3. QED
    BY <2>2 DEF Init, TypeOK, Running, WorkerSteps
<1>2. FlagInv
  BY DEF Init, FlagInv
<1>3. WorkerInv /\ AppInv /\ ChoiceInv /\ FreshHandshake /\ SendsOnlyToOpenPort
      /\ ClosedByRequest
  BY DEF Init, WorkerInv, AppInv, ChoiceInv, FreshHandshake, SendsOnlyToOpenPort,
       ClosedByRequest, OpenSteps, OpenLocked
<1>4. QED
  BY <1>1, <1>2, <1>3 DEF IInv

LEMMA StepIInv == IInv /\ [Next]_vars => IInv'
<1> SUFFICES ASSUME IInv, [Next]_vars PROVE IInv'
  OBVIOUS
<1> USE DEF IInv
<1>0. PacketRetransmissions \in Nat \ {0}
  BY PacketRetransmissionsAssumption
<1>RunAction. CASE RunAction
  <2> USE <1>0, <1>RunAction DEF RunAction, Ready
  <2>1. TypeOK'
    <3>1. CASE currentState \in {"START", "ACTIVE"}
      BY <3>1 DEF TypeOK, Handshaking, WorkerSteps
    <3>2. CASE currentState = "RESET"
      BY <3>2, RaiseType, FlagNames DEF TypeOK, Running, Handshaking, WorkerSteps
    <3>3. CASE currentState \in Handshaking
      <4>1. PacketRetransmissions \in 0..PacketRetransmissions
        OBVIOUS
      <4>2. QED BY <3>3, TryOrLeaveType DEF TypeOK, Handshaking, WorkerSteps
    <3>4. QED BY <3>1, <3>2, <3>3
  <2>2. WorkerInv' /\ AppInv'
    BY DEF WorkerInv, AppInv, TryOrLeave, Handshaking
  <2>3. FlagInv'
    BY DEF TypeOK, FlagInv, TryOrLeave, Raise
  <2>4. ChoiceInv' /\ FreshHandshake' /\ SendsOnlyToOpenPort' /\ ClosedByRequest'
    BY ExitStateFacts
    DEF AppInv, FlagInv, ChoiceInv, FreshHandshake, SendsOnlyToOpenPort,
         ClosedByRequest, TryOrLeave, Running, Handshaking
  <2>5. QED BY <2>1, <2>2, <2>3, <2>4
<1>EndWait. CASE EndWait
  <2> USE <1>0, <1>EndWait DEF EndWait
  <2>1. TypeOK'
    <3>1. CASE currentState \in {"START", "ACTIVE"}
      BY <3>1, ExitStateFacts DEF TypeOK, Running, Handshaking, WorkerSteps
    <3>2. CASE currentState = "RESET"
      BY <3>2, RaiseType, FlagNames, ExitStateFacts
      DEF TypeOK, Running, Handshaking, WorkerSteps
    <3>3. CASE currentState \in Handshaking
      <4>1. Countdown(retransmissions) \in 0..PacketRetransmissions
        BY <3>3 DEF TypeOK, WorkerInv, Countdown
      <4>2. QED BY <3>3, <4>1, TryOrLeaveType DEF TypeOK, Handshaking, WorkerSteps
    <3>4. QED BY <3>1, <3>2, <3>3
  <2>2. WorkerInv' /\ AppInv'
    BY DEF WorkerInv, AppInv, TryOrLeave, TriesLeft
  <2>3. FlagInv'
    BY DEF TypeOK, FlagInv, TryOrLeave, Raise
  <2>4. ChoiceInv' /\ FreshHandshake' /\ SendsOnlyToOpenPort' /\ ClosedByRequest'
    BY ExitStateFacts
    DEF AppInv, FlagInv, ChoiceInv, FreshHandshake, SendsOnlyToOpenPort,
         ClosedByRequest, TryOrLeave, Running, Handshaking
  <2>5. QED BY <2>1, <2>2, <2>3, <2>4
<1>EnterState. CASE EnterState
  <2> USE <1>0, <1>EnterState DEF EnterState
  <2>1. TypeOK'
    BY DEF TypeOK, ResetCriterias, WorkerSteps
  <2>2. WorkerInv' /\ AppInv'
    BY DEF TypeOK, WorkerInv, AppInv
  <2>3. FlagInv'
    BY DEF TypeOK, FlagInv, ResetCriterias
  <2>4. ChoiceInv' /\ FreshHandshake' /\ SendsOnlyToOpenPort' /\ ClosedByRequest'
    BY DEF ChoiceInv, FreshHandshake, SendsOnlyToOpenPort, ClosedByRequest
  <2>5. QED BY <2>1, <2>2, <2>3, <2>4
<1>StatusHandler. CASE StatusHandler
  <2> USE <1>0, <1>StatusHandler DEF StatusHandler
  <2>1. TypeOK'
    <3>1. exitCriterias' \in [Running -> SUBSET AllFlags]
      <4>1. CASE currentState \in Running /\ Raise(currentState, "ioResourceError")
        BY <4>1, RaiseType, FlagNames DEF TypeOK
      <4>2. CASE UNCHANGED exitCriterias
        BY <4>2 DEF TypeOK
      <4>3. QED BY <4>1, <4>2
    <3>2. QED BY <3>1 DEF TypeOK
  <2>2. WorkerInv' /\ AppInv'
    BY DEF WorkerInv, AppInv
  <2>3. FlagInv'
    BY DEF TypeOK, FlagInv, Raise
  <2>4. ChoiceInv' /\ FreshHandshake' /\ SendsOnlyToOpenPort' /\ ClosedByRequest'
    BY DEF ChoiceInv, FreshHandshake, SendsOnlyToOpenPort, ClosedByRequest
  <2>5. QED BY <2>1, <2>2, <2>3, <2>4
<1>ProcessPacket. ASSUME NEW packet \in Packets, ProcessPacket(packet) PROVE IInv'
  <2> USE <1>0, <1>ProcessPacket DEF ProcessPacket
  <2>0. currentState \in Running
    OBVIOUS
  <2>1. TypeOK'
    <3>1. heard' \subseteq Responses
      BY DEF TypeOK
    <3>2. exitCriterias' \in [Running -> SUBSET AllFlags]
      BY EffectFacts DEF TypeOK
    <3>3. QED BY <3>2 DEF TypeOK
  <2>2. WorkerInv' /\ AppInv'
    BY DEF WorkerInv, AppInv
  <2>3. FlagInv'
    <3>1. exitCriterias'[currentState] =
              exitCriterias[currentState] \union Effect(currentState, packet)
      BY DEF TypeOK
    <3>2. heard \subseteq heard' /\ (packet \in Responses => packet \in heard')
      OBVIOUS
    <3>3. QED BY <3>2, EffectFacts DEF FlagInv, Responses
  <2>4. ChoiceInv' /\ FreshHandshake' /\ SendsOnlyToOpenPort' /\ ClosedByRequest'
    BY DEF ChoiceInv, FreshHandshake, SendsOnlyToOpenPort, ClosedByRequest
  <2>5. QED BY <2>1, <2>2, <2>3, <2>4
<1>OpenRefused. CASE OpenRefused
  <2> USE <1>0, <1>OpenRefused DEF OpenRefused, CanStart
  <2>1. TypeOK'
    BY DEF TypeOK
  <2>2. WorkerInv' /\ AppInv'
    BY DEF WorkerInv, AppInv, CloseSteps
  <2>3. FlagInv'
    BY DEF WorkerInv, AppInv, FlagInv, Running, Handshaking, Terminal
  <2>4. ChoiceInv' /\ FreshHandshake' /\ SendsOnlyToOpenPort' /\ ClosedByRequest'
    BY DEF AppInv, ChoiceInv, FreshHandshake, SendsOnlyToOpenPort, ClosedByRequest
  <2>5. QED BY <2>1, <2>2, <2>3, <2>4
<1>OpenStart. CASE OpenStart
  <2> USE <1>0, <1>OpenStart DEF OpenStart, CanStart
  <2>1. TypeOK'
    BY DEF TypeOK, Running, WorkerSteps, OpenSteps
  <2>2. WorkerInv' /\ AppInv'
    BY DEF WorkerInv, AppInv, Running, CloseSteps
  <2>3. FlagInv'
    BY DEF FlagInv
  <2>4. ChoiceInv' /\ FreshHandshake' /\ SendsOnlyToOpenPort' /\ ClosedByRequest'
    BY DEF ChoiceInv, FreshHandshake, SendsOnlyToOpenPort, ClosedByRequest
  <2>5. QED BY <2>1, <2>2, <2>3, <2>4
<1>OpenReady. CASE OpenReady
  <2> USE <1>0, <1>OpenReady DEF OpenReady
  <2>1. TypeOK'
    BY DEF TypeOK, OpenSteps
  <2>2. WorkerInv' /\ AppInv'
    BY DEF WorkerInv, AppInv, OpenSteps, CloseSteps, OpenLocked
  <2>3. FlagInv'
    BY DEF FlagInv, OpenLocked
  <2>4. ChoiceInv' /\ FreshHandshake' /\ SendsOnlyToOpenPort' /\ ClosedByRequest'
    BY DEF ChoiceInv, FreshHandshake, SendsOnlyToOpenPort, ClosedByRequest, OpenLocked
  <2>5. QED BY <2>1, <2>2, <2>3, <2>4
<1>OpenUart. CASE OpenUart
  <2> USE <1>0, <1>OpenUart DEF OpenUart
  <2>1. TypeOK'
    <3>1. currentState \in Running
      BY DEF AppInv, OpenLocked, Running
    <3>2. exitCriterias' \in [Running -> SUBSET AllFlags]
      <4>1. CASE Raise(currentState, "ioResourceError")
        BY <3>1, <4>1, RaiseType, FlagNames DEF TypeOK
      <4>2. CASE UNCHANGED exitCriterias
        BY <4>2 DEF TypeOK
      <4>3. QED BY <4>1, <4>2
    <3>3. QED BY <3>2 DEF TypeOK, OpenSteps
  <2>2. WorkerInv' /\ AppInv'
    BY DEF WorkerInv, AppInv, OpenSteps, CloseSteps, OpenLocked
  <2>3. FlagInv'
    BY DEF TypeOK, FlagInv, Raise, OpenLocked
  <2>4. ChoiceInv' /\ FreshHandshake' /\ SendsOnlyToOpenPort' /\ ClosedByRequest'
    BY DEF AppInv, ChoiceInv, FreshHandshake, SendsOnlyToOpenPort, ClosedByRequest,
         OpenLocked
  <2>5. QED BY <2>1, <2>2, <2>3, <2>4
<1>OpenFlag. CASE OpenFlag
  <2> USE <1>0, <1>OpenFlag DEF OpenFlag, OpenOutcome
  <2>1. TypeOK'
    <3>1. currentState \in Running
      BY DEF AppInv, OpenLocked, Running
    <3>2. exitCriterias' \in [Running -> SUBSET AllFlags]
      BY <3>1, RaiseType, FlagNames DEF TypeOK
    <3>3. QED BY <3>2 DEF TypeOK, OpenSteps
  <2>2. WorkerInv' /\ AppInv'
    BY DEF WorkerInv, AppInv, OpenSteps, CloseSteps, OpenLocked
  <2>3. FlagInv'
    BY DEF FlagInv, Raise, OpenLocked
  <2>4. ChoiceInv' /\ FreshHandshake' /\ SendsOnlyToOpenPort' /\ ClosedByRequest'
    BY DEF ChoiceInv, FreshHandshake, SendsOnlyToOpenPort, ClosedByRequest, OpenLocked
  <2>5. QED BY <2>1, <2>2, <2>3, <2>4
<1>OpenReturn. CASE OpenReturn
  <2> USE <1>0, <1>OpenReturn DEF OpenReturn
  <2>1. TypeOK'
    BY DEF TypeOK
  <2>2. WorkerInv' /\ AppInv'
    BY DEF WorkerInv, AppInv, OpenSteps, CloseSteps, OpenLocked
  <2>3. FlagInv'
    BY DEF FlagInv, OpenLocked
  <2>4. ChoiceInv' /\ FreshHandshake' /\ SendsOnlyToOpenPort' /\ ClosedByRequest'
    BY DEF ChoiceInv, FreshHandshake, SendsOnlyToOpenPort, ClosedByRequest, OpenLocked
  <2>5. QED BY <2>1, <2>2, <2>3, <2>4
<1>CloseFlag. CASE CloseFlag
  <2> USE <1>0, <1>CloseFlag DEF CloseFlag
  <2>1. TypeOK'
    <3>1. exitCriterias' \in [Running -> SUBSET AllFlags]
      <4>1. CASE currentState \in Running /\ Raise(currentState, "close")
        BY <4>1, RaiseType, FlagNames DEF TypeOK
      <4>2. CASE UNCHANGED exitCriterias
        BY <4>2 DEF TypeOK
      <4>3. QED BY <4>1, <4>2
    <3>2. isOpen' = FALSE /\ app' \in CloseSteps
      BY DEF CloseSteps
    <3>3. QED BY <3>1, <3>2 DEF TypeOK
  <2>2. WorkerInv' /\ AppInv'
    BY DEF WorkerInv, AppInv, OpenSteps, OpenLocked
  <2>3. FlagInv'
    BY DEF TypeOK, FlagInv, Raise, OpenLocked
  <2>4. ChoiceInv' /\ FreshHandshake' /\ SendsOnlyToOpenPort' /\ ClosedByRequest'
    BY DEF ChoiceInv, FreshHandshake, SendsOnlyToOpenPort, ClosedByRequest, OpenLocked
  <2>5. QED BY <2>1, <2>2, <2>3, <2>4
<1>CloseJoin. CASE CloseJoin
  <2> USE <1>0, <1>CloseJoin DEF CloseJoin
  <2>1. TypeOK'
    BY DEF TypeOK, WorkerSteps, CloseSteps
  <2>2. WorkerInv' /\ AppInv'
    BY DEF WorkerInv, AppInv, OpenSteps, CloseSteps, OpenLocked
  <2>3. FlagInv'
    BY DEF FlagInv, OpenLocked
  <2>4. ChoiceInv' /\ FreshHandshake' /\ SendsOnlyToOpenPort' /\ ClosedByRequest'
    BY DEF ChoiceInv, FreshHandshake, SendsOnlyToOpenPort, ClosedByRequest
  <2>5. QED BY <2>1, <2>2, <2>3, <2>4
<1>CloseUart. CASE CloseUart
  <2> USE <1>0, <1>CloseUart DEF CloseUart
  <2>1. TypeOK'
    BY DEF TypeOK
  <2>2. WorkerInv' /\ AppInv'
    BY DEF WorkerInv, AppInv, OpenSteps, CloseSteps, OpenLocked
  <2>3. FlagInv'
    BY DEF AppInv, FlagInv, Terminal
  <2>4. ChoiceInv' /\ FreshHandshake' /\ SendsOnlyToOpenPort' /\ ClosedByRequest'
    BY DEF AppInv, ChoiceInv, FreshHandshake, SendsOnlyToOpenPort, ClosedByRequest, Running,
         Handshaking, Terminal
  <2>5. QED BY <2>1, <2>2, <2>3, <2>4
<1>Stutter. CASE UNCHANGED vars
  BY <1>Stutter
  DEF vars, TypeOK, WorkerInv, AppInv, FlagInv, ChoiceInv, FreshHandshake,
       SendsOnlyToOpenPort, ClosedByRequest
<1>QED. QED
  BY <1>RunAction, <1>EndWait, <1>EnterState, <1>StatusHandler, <1>ProcessPacket,
     <1>OpenRefused, <1>OpenStart, <1>OpenReady, <1>OpenUart, <1>OpenFlag,
     <1>OpenReturn, <1>CloseFlag, <1>CloseJoin, <1>CloseUart, <1>Stutter
  DEF Next, Worker, Io, Call, Resume

-----------------------------------------------------------------------------
(* The inductive invariant holds in every reachable state.                 *)
THEOREM Inductive == Spec => []IInv
<1>1. QED BY InitIInv, StepIInv, PTL DEF Spec

(* Type correctness of the link state machine.                             *)
THEOREM TypeCorrect == Spec => []TypeOK
<1>1. IInv => TypeOK
  BY DEF IInv
<1>2. QED BY <1>1, Inductive, PTL

(* The handshake advances only on a response of its own session,           *)
(* processPacket() and stateMachineWorker() of h5_transport.cpp.           *)
THEOREM HandshakeIsFresh == Spec => []FreshHandshake
<1>1. IInv => FreshHandshake
  BY DEF IInv
<1>2. QED BY <1>1, Inductive, PTL

(* startStateMachine() never reaches std::terminate().                     *)
THEOREM StartIsSafe == Spec => []NeverTerminates
<1>1. IInv => NeverTerminates
  BY DEF IInv, AppInv, NeverTerminates
<1>2. QED BY <1>1, Inductive, PTL

(* The state machine sends only while the serial port is open.             *)
THEOREM PortDiscipline == Spec => []SendsOnlyToOpenPort
<1>1. IInv => SendsOnlyToOpenPort
  BY DEF IInv
<1>2. QED BY <1>1, Inductive, PTL

(* The io thread sends nothing while close() waits for it.                 *)
THEOREM QuietClose == Spec => []QuietUartClose
<1>1. IInv => QuietUartClose
  BY DEF IInv, AppInv, QuietUartClose
<1>2. QED BY <1>1, Inductive, PTL

(* No step leaves STATE_FAILED or STATE_NO_RESPONSE, a later open() included. *)
THEOREM FailureStays == Spec => FailureIsFinal
<1>1. IInv /\ [Next]_vars =>
          [(currentState \in {"FAILED", "NO_RESPONSE"}) => (currentState' = currentState)]_vars
  BY DEF IInv, WorkerInv, Next, Worker, Io, Call, Resume, RunAction, EndWait, EnterState,
       StatusHandler, ProcessPacket, OpenRefused, OpenStart, OpenReady, OpenUart, OpenFlag,
       OpenReturn, CloseFlag, CloseJoin, CloseUart, CanStart, vars, Running, Handshaking
<1>2. QED BY <1>1, Inductive, PTL DEF Spec, FailureIsFinal

-----------------------------------------------------------------------------
(* Where everything comes to a stop.  ENABLED is beyond the prover, so the *)
(* guards are spelled out: a thread that CanGoOn has a step of Next.       *)
CanGoOn ==
    \/ worker = "run"
    \/ worker = "wait" /\ (\/ currentState \notin {"START", "ACTIVE"}
                           \/ IsFullfilled(currentState, exitCriterias[currentState]))
    \/ worker = "leave" /\ ~currentStateLocked
    \/ port = "open"
    \/ app = "idle" /\ (isOpen => ~currentStateLocked)
    \/ app = "open_ready" /\ stateMachineReady
    \/ app \in {"open_uart", "open_flag", "open_wait", "close_uart"}
    \/ app = "close_join" /\ worker \in {"none", "done"}

(* The lock of open() is held by open(); the worker has reported that it    *)
(* runs when it waits in START; and a close() that finds it there is heard. *)
HangInv ==
    /\ currentStateLocked => app \in OpenLocked
    /\ currentState = "START" /\ worker \in {"wait", "leave"} => stateMachineReady
    /\ currentState = "START" /\ worker # "none" /\ app = "close_join" =>
          "close" \in exitCriterias["START"]

LEMMA RaiseGrows ==
    ASSUME exitCriterias \in [Running -> SUBSET AllFlags], NEW s \in Running, NEW flag,
           Raise(s, flag)
    PROVE  /\ \A r \in Running : exitCriterias[r] \subseteq exitCriterias'[r]
           /\ flag \in exitCriterias'[s]
  BY DEF Raise

LEMMA StepHangInv == IInv /\ HangInv /\ [Next]_vars => HangInv'
<1> SUFFICES ASSUME IInv, HangInv, [Next]_vars PROVE HangInv'
  OBVIOUS
<1>0. /\ exitCriterias \in [Running -> SUBSET AllFlags] /\ "START" \in Running
      /\ currentState \in Running \union Terminal /\ "START" \notin Terminal \union Handshaking
  BY DEF IInv, TypeOK, Running, Terminal, Handshaking
<1>1. CASE RunAction
  <2>1. UNCHANGED <<currentState, currentStateLocked, app>> /\ worker = "run"
    BY <1>1 DEF RunAction
  <2>2. currentState = "START" => stateMachineReady' /\ UNCHANGED exitCriterias
    BY <1>0, <1>1 DEF RunAction, Ready
  <2>3. QED BY <2>1, <2>2 DEF HangInv
<1>2. CASE EndWait
  <2>1. UNCHANGED <<currentState, currentStateLocked, app, stateMachineReady>> /\ worker = "wait"
    BY <1>2 DEF EndWait
  <2>2. currentState = "START" => UNCHANGED exitCriterias
    BY <1>0, <1>2 DEF EndWait
  <2>3. QED BY <2>1, <2>2 DEF HangInv
<1>3. CASE EnterState
  <2>1. /\ UNCHANGED <<currentStateLocked, app>> /\ worker = "leave" /\ currentState' = nextState
    BY <1>3 DEF EnterState
  <2>2. nextState # "START"
    BY <2>1 DEF IInv, ChoiceInv
  <2>3. QED BY <2>1, <2>2 DEF HangInv
<1>4. CASE StatusHandler
  <2>1. UNCHANGED <<currentState, currentStateLocked, worker, stateMachineReady, app>>
    BY <1>4 DEF StatusHandler
  <2>2. exitCriterias["START"] \subseteq exitCriterias'["START"]
    BY <1>0, <1>4, RaiseGrows DEF StatusHandler
  <2>3. QED BY <2>1, <2>2 DEF HangInv
<1>5. ASSUME NEW packet \in Packets, ProcessPacket(packet) PROVE HangInv'
  <2>1. UNCHANGED <<currentState, currentStateLocked, worker, stateMachineReady, app>>
    BY <1>5 DEF ProcessPacket
  <2>2. exitCriterias["START"] \subseteq exitCriterias'["START"]
    BY <1>0, <1>5 DEF ProcessPacket
  <2>3. QED BY <2>1, <2>2 DEF HangInv
<1>6. CASE OpenRefused \/ OpenReady \/ OpenReturn
  BY <1>6 DEF OpenRefused, OpenReady, OpenReturn, HangInv, IInv, AppInv, OpenLocked
<1>7. CASE OpenStart
  BY <1>7 DEF OpenStart, HangInv, OpenLocked
<1>8. CASE OpenUart
  BY <1>8 DEF OpenUart, HangInv, OpenLocked
<1>9. CASE OpenFlag
  BY <1>9 DEF OpenFlag, HangInv
<1>10. CASE CloseFlag
  <2>1. /\ UNCHANGED <<currentState, currentStateLocked, worker, stateMachineReady>>
        /\ ~currentStateLocked
    BY <1>10 DEF CloseFlag
  <2>2. currentState = "START" => "close" \in exitCriterias'["START"]
    BY <1>0, <1>10, RaiseGrows DEF CloseFlag
  <2>3. QED BY <2>1, <2>2 DEF HangInv
<1>11. CASE CloseJoin \/ CloseUart
  BY <1>11 DEF CloseJoin, CloseUart, HangInv, OpenLocked
<1>12. CASE UNCHANGED vars
  BY <1>12 DEF vars, HangInv
<1>13. QED
  BY <1>1, <1>2, <1>3, <1>4, <1>5, <1>6, <1>7, <1>8, <1>9, <1>10, <1>11, <1>12
  DEF Next, Worker, Io, Call, Resume

(* A thread can always go on, but for the close() whose flag was lost: the  *)
(* worker waits in ACTIVE and the port has failed.  No other order of the  *)
(* calls, the locks and the waits of the worker, the io thread and the      *)
(* application stops them all, for any number of retransmissions.          *)
THEOREM OnlyLostCloseStops ==
    Spec => [](\/ CanGoOn
               \/ /\ app = "close_join" /\ port = "failed"
                  /\ worker = "wait" /\ currentState = "ACTIVE")
<1> DEFINE Lost == /\ app = "close_join" /\ port = "failed"
                   /\ worker = "wait" /\ currentState = "ACTIVE"
<1>1. Init => HangInv
  BY DEF Init, HangInv
<1>2. IInv /\ HangInv => CanGoOn \/ Lost
  <2> SUFFICES ASSUME IInv, HangInv, ~CanGoOn PROVE Lost
    OBVIOUS
  <2>1. app = "close_join"
    <3>1. app \in {"idle"} \union OpenSteps \union CloseSteps
      BY DEF IInv, TypeOK
    <3>2. app # "idle"
      BY DEF CanGoOn, HangInv, OpenLocked
    <3>3. app # "open_ready"
      BY DEF CanGoOn, HangInv, IInv, AppInv, OpenLocked
    <3>4. QED BY <3>1, <3>2, <3>3 DEF CanGoOn, OpenSteps, CloseSteps
  <2>2. worker = "wait"
    <3>1. ~currentStateLocked
      BY <2>1 DEF HangInv, OpenLocked
    <3>2. QED BY <2>1, <3>1 DEF CanGoOn, IInv, TypeOK, WorkerSteps
  <2>3. currentState \in Running /\ currentState # "START"
    <3>1. currentState \in Running
      BY <2>2 DEF IInv, WorkerInv
    <3>2. currentState = "START" => "close" \in exitCriterias["START"]
      BY <2>1, <2>2 DEF HangInv
    <3>3. QED BY <2>2, <3>1, <3>2 DEF CanGoOn, IsFullfilled, CommonFlags
  <2>4. currentState = "ACTIVE"
    BY <2>2, <2>3 DEF CanGoOn
  <2>5. port = "failed"
    BY <2>3 DEF CanGoOn, IInv, SendsOnlyToOpenPort, TypeOK
  <2>6. QED BY <2>1, <2>2, <2>4, <2>5
<1>3. QED BY <1>1, <1>2, StepHangInv, Inductive, PTL DEF Spec

-----------------------------------------------------------------------------
(* The link as the layer above sees it.  What tells an open link from a    *)
(* closed one is isOpen until close() has closed the port as well.         *)
LinkState ==
    LET open == isOpen \/ app \in CloseSteps
    IN  IF currentState \in {"FAILED", "NO_RESPONSE"}
        THEN IF open THEN "down" ELSE "spent"
        ELSE IF open THEN "running" ELSE "idle"

Link == INSTANCE H5Link WITH link <- LinkState

(* The state machine implements the link that DriverLifecycle is built on: *)
(* whatever the device, the port and the timing do, open() and close() take *)
(* the link to where H5Link says, and it never works again once it is down. *)
THEOREM ImplementsLink == Spec => Link!Spec
<1>1. Init => Link!Init
  BY DEF Init, Link!Init, LinkState, CloseSteps
<1>2. ASSUME IInv, [Next]_vars PROVE [Link!Next]_LinkState
  <2> USE DEF LinkState, CloseSteps
  <2>1. CASE EnterState
    <3>1. currentState \notin Terminal /\ (isOpen \/ app \in CloseSteps) /\ UNCHANGED <<isOpen, app>>
      BY <1>2, <2>1 DEF EnterState, IInv, TypeOK, WorkerInv, AppInv, OpenSteps, Running, Terminal, Handshaking
    <3>2. QED BY <3>1 DEF Terminal, Link!Next, Link!Breaks
  <2>2. CASE OpenRefused
    <3>1. currentState \in {"FAILED", "NO_RESPONSE"} /\ ~isOpen /\ isOpen' /\ UNCHANGED <<currentState, app>>
          /\ app = "idle"
      BY <1>2, <2>2 DEF OpenRefused, CanStart, IInv, TypeOK, WorkerInv, AppInv, Terminal
    <3>2. QED BY <3>1 DEF Link!Next, Link!Fails
  <2>3. CASE OpenStart
    BY <2>3 DEF OpenStart, CanStart, Link!Next, Link!Opens
  <2>4. CASE CloseUart
    <3>1. app = "close_uart" /\ app' = "idle" /\ ~isOpen /\ UNCHANGED <<currentState, isOpen>>
      BY <1>2, <2>4 DEF CloseUart, IInv, AppInv
    <3>2. QED BY <3>1 DEF Link!Next, Link!Closes
  <2>5. CASE CloseFlag
    BY <2>5 DEF CloseFlag
  <2>6. CASE CloseJoin
    BY <2>6 DEF CloseJoin
  <2>7. CASE OpenReady \/ OpenUart \/ OpenFlag \/ OpenReturn
    <3>1. isOpen /\ UNCHANGED <<currentState, isOpen>>
      BY <1>2, <2>7 DEF OpenReady, OpenUart, OpenFlag, OpenReturn, IInv, AppInv, OpenSteps
    <3>2. QED BY <3>1
  <2>8. CASE RunAction \/ EndWait \/ Io \/ UNCHANGED vars
    BY <2>8 DEF RunAction, EndWait, Io, StatusHandler, ProcessPacket, vars
  <2>9. QED BY <1>2, <2>1, <2>2, <2>3, <2>4, <2>5, <2>6, <2>7, <2>8 DEF Next, Worker, Call, Resume
<1>3. QED BY <1>1, <1>2, Inductive, PTL DEF Spec, Link!Spec
=============================================================================
