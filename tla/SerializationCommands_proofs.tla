-------------------- MODULE SerializationCommands_proofs --------------------
(***************************************************************************)
(* Proofs about commands and their responses, for any number of commands:  *)
(* the types, that a call decodes its own response until one returned      *)
(* without it, and that a response that was handled is noticed.            *)
(***************************************************************************)
EXTENDS SerializationCommands, TLAPS

-----------------------------------------------------------------------------
(* The invariant.                                                          *)

(* How far the last command, one with a response, has come on the device   *)
(* and the io thread when no earlier response can be about.                *)
Sent     == reached < command /\ answers = <<>> /\ handler = 0
Answered == reached = command /\ answers = <<command>> /\ handler = 0
Copying  == reached = command /\ answers = <<>> /\ handler = 1 /\ response = command
Copied   == reached = command /\ answers = <<>> /\ handler = 2 /\ response = command
Flagged  == reached = command /\ answers = <<>> /\ handler = 0 /\ responseReceived

Progress ==
    \/ (Sent \/ Answered \/ Copying) /\ content[command] = 0 /\ ~responseReceived
    \/ Copied /\ content[command] = command /\ ~responseReceived
    \/ Flagged /\ content[command] = command

(* Nothing is to come for a command without a response, and a call with    *)
(* one ends, or decodes, only when all of it has happened.                 *)
OwnInv ==
    ~late => /\ wantsResponse => Progress
             /\ ~wantsResponse => answers = <<>> /\ handler = 0
             /\ wantsResponse /\ sender \in {"idle", "decode"} => Flagged

(* Buffers of commands to come are empty; only a call that wants a response *)
(* waits for it.                                                           *)
CallInv ==
    /\ \A c \in Commands : c > command => content[c] = 0
    /\ sender # "idle" => command >= 1
    /\ wantsResponse => command >= 1
    /\ sender \in {"wait", "decode"} => wantsResponse

(* Once handled, the response of the command under way is flagged.         *)
NoticedInv ==
    sender \in {"link", "wait"} /\ response = command /\ handler = 0 => responseReceived

IInv == TypeOK /\ CallInv /\ OwnInv /\ NoticedInv

-----------------------------------------------------------------------------
LEMMA StageFacts ==
    /\ Stages = <<"copy", "flag">> /\ Len(Stages) = 2
    /\ TypeOK => /\ handler \in {0, 1, 2}
                 /\ At("copy") <=> handler = 1
                 /\ At("flag") <=> handler = 2
    /\ handler = 0 /\ NextStage => handler' = 1
    /\ handler = 1 /\ NextStage => handler' = 2
    /\ handler = 2 /\ NextStage => handler' = 0
<1>1. Stages = <<"copy", "flag">> /\ Len(Stages) = 2
  BY DEF Stages
<1>2. TypeOK => handler \in {0, 1, 2}
  BY <1>1 DEF TypeOK
<1>3. ASSUME TypeOK PROVE (At("copy") <=> handler = 1) /\ (At("flag") <=> handler = 2)
  <2>1. DOMAIN Stages = {1, 2} /\ Stages[1] = "copy" /\ Stages[2] = "flag"
    BY <1>1
  <2>2. QED BY <1>2, <1>3, <2>1 DEF At
<1>4. /\ handler = 0 /\ NextStage => handler' = 1
      /\ handler = 1 /\ NextStage => handler' = 2
      /\ handler = 2 /\ NextStage => handler' = 0
  BY <1>1 DEF NextStage
<1>5. QED BY <1>1, <1>2, <1>3, <1>4

LEMMA TailOfOne ==
    ASSUME NEW S, NEW s \in Seq(S), s # <<>>
    PROVE  Head(s) \in S /\ Tail(s) \in Seq(S)
  OBVIOUS

LEMMA SeqOfMore ==
    ASSUME NEW S, NEW T, S \subseteq T, NEW s \in Seq(S)
    PROVE  s \in Seq(T)
  OBVIOUS

LEMMA AppendOne ==
    ASSUME NEW S, NEW s \in Seq(S), NEW e \in S
    PROVE  Append(s, e) \in Seq(S) /\ <<>> \in Seq(S)
  OBVIOUS

LEMMA InitIInv == Init => IInv
<1> SUFFICES ASSUME Init PROVE IInv
  OBVIOUS
<1>1. TypeOK
  <2>1. content \in [Commands -> 0..command] /\ answers \in Seq(1..command)
    BY DEF Init
  <2>2. command \in 0..MaxCommands /\ reached \in 0..command /\ response \in 0..command
        /\ handler \in 0..Len(Stages)
    BY MaxCommandsAssumption, StageFacts DEF Init
  <2>3. QED BY <2>1, <2>2 DEF Init, TypeOK
<1>2. CallInv /\ OwnInv /\ NoticedInv
  BY DEF Init, CallInv, OwnInv, NoticedInv, Commands
<1>3. QED BY <1>1, <1>2 DEF IInv

LEMMA StepTypeOK == IInv /\ [Next]_vars => TypeOK'
<1> SUFFICES ASSUME IInv, [Next]_vars PROVE TypeOK'
  OBVIOUS
<1> USE MaxCommandsAssumption DEF IInv
<1>1. ASSUME NEW wants \in BOOLEAN, Send(wants) PROVE TypeOK'
  <2>1. /\ command' = command + 1 /\ command' \in 0..MaxCommands /\ command \in Nat
        /\ responseBuffer' = IF wantsResponse' THEN command' ELSE 0
    BY <1>1 DEF Send, BufferFor, TypeOK
  <2>2. 0..command \subseteq 0..command' /\ 1..command \subseteq 1..command'
    BY <2>1
  <2>3. content' \in [Commands -> 0..command']
    <3>1. content' \in [Commands -> 0..command]
      BY <1>1 DEF Send, TypeOK
    <3>2. QED BY <2>2, <3>1
  <2>4. answers' \in Seq(1..command')
    <3>1. answers' \in Seq(1..command)
      BY <1>1 DEF Send, deviceVars, TypeOK
    <3>2. QED BY <2>2, <3>1, SeqOfMore
  <2>5. reached' \in 0..command' /\ response' \in 0..command'
    BY <1>1, <2>2 DEF Send, deviceVars, TypeOK
  <2>6. /\ sender' = "link" /\ wantsResponse' \in BOOLEAN /\ responseReceived' = FALSE
        /\ UNCHANGED <<result, handler, late>>
    BY <1>1 DEF Send
  <2>7. QED BY <2>1, <2>3, <2>4, <2>5, <2>6 DEF TypeOK
<1>2. CASE Resume
  <2>1. /\ sender' \in {"idle", "link", "wait", "decode"}
        /\ result' \in {"none", "SUCCESS", "SEND", "NO_RESPONSE"} /\ late' \in BOOLEAN
    BY <1>2 DEF Resume, LinkSucceeds, LinkFails, Received, NoResponse, Decode, TypeOK
  <2>2. UNCHANGED <<command, wantsResponse, responseReceived, responseBuffer, content, handler,
                    response, reached, answers>>
    BY <1>2 DEF Resume, LinkSucceeds, LinkFails, Received, NoResponse, Decode, FlagAfterLink, deviceVars
  <2>3. QED BY <2>1, <2>2 DEF TypeOK
<1>3. CASE ReadHandler
  <2>1. Head(answers) \in 1..command /\ Tail(answers) \in Seq(1..command)
    BY <1>3, TailOfOne DEF ReadHandler, TypeOK
  <2>2. handler' = 1
    BY <1>3, StageFacts DEF ReadHandler
  <2>3. QED BY <1>3, <2>1, <2>2, StageFacts DEF ReadHandler, callVars, TypeOK
<1>4. CASE CopyResponse
  <2>1. handler' = 2
    BY <1>4, StageFacts DEF CopyResponse
  <2>2. content' \in [Commands -> 0..command]
    BY <1>4 DEF CopyResponse, TypeOK
  <2>3. QED BY <1>4, <2>1, <2>2, StageFacts DEF CopyResponse, callVars, deviceVars, TypeOK
<1>5. CASE FlagResponse
  <2>1. handler' = 0
    BY <1>5, StageFacts DEF FlagResponse
  <2>2. QED BY <1>5, <2>1, StageFacts DEF FlagResponse, callVars, deviceVars, TypeOK
<1>6. CASE DeviceReceive
  <2>1. command \in 1..command /\ reached' \in 0..command
    BY <1>6 DEF DeviceReceive, TypeOK
  <2>2. answers' \in Seq(1..command)
    <3>1. Append(answers, command) \in Seq(1..command) /\ <<>> \in Seq(1..command)
      BY <2>1, AppendOne DEF TypeOK
    <3>2. answers' \in {Append(answers, command), <<>>}
      BY <1>6 DEF DeviceReceive
    <3>3. QED BY <3>1, <3>2
  <2>3. QED BY <1>6, <2>1, <2>2 DEF DeviceReceive, callVars, TypeOK
<1>7. CASE UNCHANGED vars
  BY <1>7 DEF vars, callVars, deviceVars, TypeOK
<1>8. QED BY <1>1, <1>2, <1>3, <1>4, <1>5, <1>6, <1>7 DEF Next, Call, Io

LEMMA StepCallInv == IInv /\ [Next]_vars => CallInv'
<1> SUFFICES ASSUME IInv, [Next]_vars PROVE CallInv'
  OBVIOUS
<1> USE DEF IInv
<1>1. ASSUME NEW wants \in BOOLEAN, Send(wants) PROVE CallInv'
  <2>1. command \in Nat /\ command' = command + 1
    BY <1>1, MaxCommandsAssumption DEF Send, TypeOK
  <2>2. \A c \in Commands : c > command' => content'[c] = 0
    <3>1. \A c \in Commands : c > command' => c > command
      BY <2>1 DEF Commands
    <3>2. QED BY <1>1, <3>1 DEF Send, CallInv
  <2>3. QED BY <1>1, <2>1, <2>2 DEF Send, CallInv
<1>2. CASE Resume
  BY <1>2 DEF Resume, LinkSucceeds, LinkFails, Received, NoResponse, Decode, CallInv
<1>3. CASE CopyResponse
  <2>1. \A c \in Commands : c > command => content'[c] = content[c]
    BY <1>3 DEF CopyResponse, TypeOK
  <2>2. QED BY <1>3, <2>1 DEF CopyResponse, callVars, CallInv
<1>4. CASE ReadHandler \/ FlagResponse \/ DeviceReceive \/ UNCHANGED vars
  BY <1>4 DEF ReadHandler, FlagResponse, DeviceReceive, vars, callVars, CallInv
<1>5. QED BY <1>1, <1>2, <1>3, <1>4 DEF Next, Call, Io

LEMMA StepOwnInv == IInv /\ [Next]_vars => OwnInv'
<1> SUFFICES ASSUME IInv, [Next]_vars, ~late' PROVE OwnInv'
  BY DEF OwnInv
<1> USE DEF IInv
<1>0. ~late /\ command \in Nat /\ reached \in Nat
  BY DEF Next, Call, Resume, Io, Send, LinkSucceeds, LinkFails, Received, NoResponse, Decode,
     ReadHandler, CopyResponse, FlagResponse, DeviceReceive, vars, callVars, TypeOK
<1>1. ASSUME NEW wants \in BOOLEAN, Send(wants) PROVE OwnInv'
  <2>1. answers = <<>> /\ handler = 0
    BY <1>0, <1>1 DEF OwnInv, Flagged, Send
  <2>2. command' \in Commands /\ command' = command + 1
    BY <1>0, <1>1, MaxCommandsAssumption DEF Send, Commands
  <2>3. content'[command'] = 0 /\ reached' < command'
    BY <1>0, <1>1, <2>2 DEF Send, CallInv, TypeOK, deviceVars
  <2>4. QED BY <1>1, <2>1, <2>3 DEF Send, OwnInv, Progress, Sent, deviceVars
<1>2. CASE LinkSucceeds
  BY <1>0, <1>2 DEF LinkSucceeds, FlagAfterLink, OwnInv, Progress, Sent, Answered, Copying, Copied,
     Flagged, deviceVars
<1>3. CASE Received \/ Decode
  <2>1. wantsResponse /\ Flagged
    BY <1>0, <1>3 DEF Received, Decode, CallInv, OwnInv, Progress, Flagged
  <2>2. QED BY <1>0, <1>3, <2>1 DEF Received, Decode, OwnInv, Progress, Flagged, Sent, Answered, Copying,
               Copied, deviceVars
<1>4. CASE LinkFails \/ NoResponse
  BY <1>4 DEF LinkFails, NoResponse
<1>5. CASE ReadHandler
  <2>1. wantsResponse /\ Answered /\ content[command] = 0 /\ ~responseReceived
        /\ sender \notin {"idle", "decode"}
    BY <1>0, <1>5 DEF ReadHandler, OwnInv, Progress, Sent, Answered, Copying, Copied, Flagged
  <2>2. Head(<<command>>) = command /\ Tail(<<command>>) = <<>>
    OBVIOUS
  <2>3. handler' = 1 /\ response' = command /\ answers' = <<>>
    BY <1>5, <2>1, <2>2, StageFacts DEF ReadHandler, Answered
  <2>4. QED BY <1>5, <2>1, <2>3 DEF ReadHandler, callVars, OwnInv, Progress, Answered, Copying
<1>6. CASE CopyResponse
  <2>1. handler = 1 /\ handler' = 2
    BY <1>6, StageFacts DEF CopyResponse
  <2>2. wantsResponse /\ Copying /\ content[command] = 0 /\ ~responseReceived
        /\ sender \notin {"idle", "decode"}
    BY <1>0, <2>1 DEF OwnInv, Progress, Sent, Answered, Copying, Copied, Flagged
  <2>3. responseBuffer = command /\ command # 0 /\ command \in Commands
    BY <1>0, <2>2, MaxCommandsAssumption DEF TypeOK, CallInv, Commands
  <2>4. content' = [content EXCEPT ![command] = command]
    BY <1>6, <2>2, <2>3 DEF CopyResponse, MayNotFit, Copying
  <2>5. content'[command] = command
    BY <2>3, <2>4 DEF TypeOK
  <2>6. QED BY <1>6, <2>1, <2>2, <2>5 DEF CopyResponse, callVars, deviceVars, OwnInv, Progress, Copying, Copied
<1>7. CASE FlagResponse
  <2>1. handler = 2 /\ handler' = 0
    BY <1>7, StageFacts DEF FlagResponse
  <2>2. wantsResponse /\ Copied /\ content[command] = command
    BY <1>0, <2>1 DEF OwnInv, Progress, Sent, Answered, Copying, Copied, Flagged
  <2>3. QED BY <1>7, <2>1, <2>2 DEF FlagResponse, callVars, deviceVars, OwnInv, Progress, Copied, Flagged
<1>8. CASE DeviceReceive
  <2>1. wantsResponse => Sent /\ content[command] = 0 /\ ~responseReceived
                         /\ sender \notin {"idle", "decode"}
    BY <1>0, <1>8 DEF DeviceReceive, OwnInv, Progress, Sent, Answered, Copying, Copied, Flagged
  <2>2. wantsResponse => answers' = <<command>>
    BY <1>8, <2>1 DEF DeviceReceive, Sent
  <2>3. QED BY <1>0, <1>8, <2>1, <2>2 DEF DeviceReceive, callVars, OwnInv, Progress, Sent, Answered
<1>9. CASE UNCHANGED vars
  BY <1>9 DEF vars, callVars, deviceVars, OwnInv, Progress, Sent, Answered, Copying, Copied, Flagged
<1>10. QED BY <1>1, <1>2, <1>3, <1>4, <1>5, <1>6, <1>7, <1>8, <1>9 DEF Next, Call, Resume, Io

LEMMA StepNoticedInv == IInv /\ [Next]_vars => NoticedInv'
<1> SUFFICES ASSUME IInv, [Next]_vars PROVE NoticedInv'
  OBVIOUS
<1> USE DEF IInv
<1>1. ASSUME NEW wants \in BOOLEAN, Send(wants) PROVE NoticedInv'
  <2>1. response' < command'
    BY <1>1 DEF Send, TypeOK
  <2>2. response' # command'
    BY <1>1, <2>1 DEF Send, TypeOK
  <2>3. QED BY <2>2 DEF NoticedInv
<1>2. CASE Resume
  BY <1>2 DEF Resume, LinkSucceeds, LinkFails, Received, NoResponse, Decode, FlagAfterLink, NoticedInv
<1>3. CASE ReadHandler \/ CopyResponse
  <2>1. handler' # 0
    BY <1>3, StageFacts DEF ReadHandler, CopyResponse
  <2>2. QED BY <2>1 DEF NoticedInv
<1>4. CASE FlagResponse
  BY <1>4 DEF FlagResponse, NoticedInv
<1>5. CASE DeviceReceive \/ UNCHANGED vars
  BY <1>5 DEF DeviceReceive, vars, callVars, NoticedInv
<1>6. QED BY <1>1, <1>2, <1>3, <1>4, <1>5 DEF Next, Call, Io

LEMMA AlwaysIInv == Spec => []IInv
<1>1. IInv /\ [Next]_vars => IInv'
  <2> SUFFICES ASSUME IInv, [Next]_vars PROVE IInv'
    OBVIOUS
  <2>1. TypeOK' /\ CallInv' /\ OwnInv' /\ NoticedInv'
    BY StepTypeOK, StepCallInv, StepOwnInv, StepNoticedInv
  <2>2. QED BY <2>1 DEF IInv
<1>2. QED BY InitIInv, <1>1, PTL DEF Spec

-----------------------------------------------------------------------------
(* Every variable of encode_decode(), send(), readHandler() and the device *)
(* keeps its type.                                                         *)
THEOREM TypeCorrect == Spec => []TypeOK
<1>1. IInv => TypeOK
  BY DEF IInv
<1>2. QED BY <1>1, AlwaysIInv, PTL

(* A call decodes the response of its own command, until one returned      *)
(* without its response: nothing ties the two in send() and readHandler()  *)
(* but that there is one at a time.                                        *)
THEOREM DecodesOwnResponse == Spec => []OwnResponse
<1>1. IInv => OwnResponse
  BY DEF IInv, OwnResponse, CallInv, OwnInv, Progress, Flagged, Sent, Answered, Copying, Copied
<1>2. QED BY <1>1, AlwaysIInv, PTL

(* No call ends in NO_RESPONSE after its response has been handled: send() *)
(* clears the flag before the command leaves, and waits with a predicate.  *)
THEOREM NoticesOwnResponse == Spec => OwnResponseNoticed
<1>1. IInv /\ [Next]_vars => [NoResponse => ~(response = command /\ handler = 0)]_vars
  BY DEF IInv, NoticedInv, NoResponse
<1>2. QED BY <1>1, AlwaysIInv, PTL DEF Spec, OwnResponseNoticed
=============================================================================
