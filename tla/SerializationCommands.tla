------------------------ MODULE SerializationCommands ------------------------
(***************************************************************************)
(* Commands and their responses: encode_decode() of a BLE call,             *)
(* SerializationTransport::send() and the responses readHandler() gets on   *)
(* the io thread.  isOpenMutex and sendMutex let one command at a time      *)
(* into send(), but nothing ties a response to its command: readHandler()   *)
(* fills the buffer that is in responseBuffer at that time, outside         *)
(* responseMutex, and then raises responseReceived.                         *)
(*                                                                          *)
(* The link below carries each command at most once and in order            *)
(* (H5Send), may report failure for a command the device got, and success   *)
(* for one it did not.  The device answers what it gets in order, as late   *)
(* as it likes.                                                             *)
(***************************************************************************)
EXTENDS Naturals, Sequences

CONSTANT MaxCommands    \* bound: commands sent

ASSUME MaxCommandsAssumption == MaxCommands \in Nat

VARIABLES
    sender,            \* where the call is; "idle" between calls
    command,           \* the number of the last command
    wantsResponse,     \* FALSE for sd_rpc_conn_reset()
    responseReceived,
    responseBuffer,    \* the command whose buffer readHandler() fills, 0 for none
    content,           \* the response each command's buffer holds, 0 for none
    result,            \* what the last call returned
    handler,           \* the stage of readHandler(), 0 when it is not running
    response,          \* the response it handles
    reached,           \* device: the last command that reached it
    answers,           \* device: responses to come, in order
    late               \* history: a call returned without its response

callVars   == <<sender, command, wantsResponse, responseBuffer, result, late>>
deviceVars == <<reached, answers>>
vars       == <<callVars, deviceVars, responseReceived, content, handler, response>>

Commands == 1..MaxCommands

Init ==
    /\ sender = "idle"
    /\ command = 0
    /\ wantsResponse = FALSE
    /\ responseReceived = FALSE
    /\ responseBuffer = 0
    /\ content = [c \in Commands |-> 0]
    /\ result = "none"
    /\ handler = 0
    /\ response = 0
    /\ reached = 0
    /\ answers = <<>>
    /\ late = FALSE

-----------------------------------------------------------------------------
(* encode_decode() and SerializationTransport::send()                      *)

(* The buffer that send() installs: none when there is no response to wait *)
(* for.                                                                    *)
BufferFor(wants) == IF wants THEN command + 1 ELSE 0

Send(wants) ==
    /\ sender = "idle"
    /\ command < MaxCommands
    /\ command' = command + 1
    /\ wantsResponse' = wants
    /\ responseReceived' = FALSE
    /\ responseBuffer' = BufferFor(wants)
    /\ sender' = "link"
    /\ UNCHANGED <<result, late, deviceVars, content, handler, response>>

(* The link has reported success.  ClearsAfter is the slip of getting      *)
(* ready for the response only now.                                        *)
ClearsAfter   == FALSE
FlagAfterLink == responseReceived

LinkSucceeds ==
    /\ sender = "link"
    /\ responseReceived' = FlagAfterLink
    /\ IF wantsResponse
       THEN sender' = "wait" /\ UNCHANGED result
       ELSE sender' = "idle" /\ result' = "SUCCESS"
    /\ UNCHANGED <<command, wantsResponse, responseBuffer, late, deviceVars, content,
                   handler, response>>

LinkFails ==
    /\ sender = "link"
    /\ result' = "SEND"
    /\ late' = TRUE
    /\ sender' = "idle"
    /\ UNCHANGED <<command, wantsResponse, responseBuffer, deviceVars, responseReceived,
                   content, handler, response>>

(* wait_until() ends with its predicate true, or the time is up.           *)
Received ==
    /\ sender = "wait"
    /\ responseReceived
    /\ sender' = "decode"
    /\ UNCHANGED <<command, wantsResponse, responseBuffer, result, late, deviceVars,
                   responseReceived, content, handler, response>>

NoResponse ==
    /\ sender = "wait"
    /\ ~responseReceived
    /\ result' = "NO_RESPONSE"
    /\ late' = TRUE
    /\ sender' = "idle"
    /\ UNCHANGED <<command, wantsResponse, responseBuffer, deviceVars, responseReceived,
                   content, handler, response>>

(* encode_decode() decodes the buffer, outside every lock.                 *)
Decode ==
    /\ sender = "decode"
    /\ result' = "SUCCESS"
    /\ sender' = "idle"
    /\ UNCHANGED <<command, wantsResponse, responseBuffer, late, deviceVars,
                   responseReceived, content, handler, response>>

-----------------------------------------------------------------------------
(* readHandler() for a response, on the io thread.                         *)

(* The stages of the handler; FlagFirst is the slip of waking send()       *)
(* before the buffer is filled.                                            *)
FlagFirst == <<"flag", "copy">>
Stages    == <<"copy", "flag">>

At(stage) == handler \in DOMAIN Stages /\ Stages[handler] = stage
NextStage == handler' = (handler + 1) % (Len(Stages) + 1)

ReadHandler ==
    /\ handler = 0
    /\ answers # <<>>
    /\ response' = Head(answers)
    /\ answers' = Tail(answers)
    /\ NextStage
    /\ UNCHANGED <<callVars, reached, responseReceived, content>>

(* Without a buffer the response is logged only, and so may it be when the *)
(* buffer was cut to a shorter response before; send() is woken anyway.    *)
MayNotFit == IF responseBuffer = 0 THEN TRUE ELSE content[responseBuffer] # 0

CopyResponse ==
    /\ At("copy")
    /\ \/ /\ responseBuffer # 0
          /\ content' = [content EXCEPT ![responseBuffer] = response]
       \/ MayNotFit /\ UNCHANGED content
    /\ NextStage
    /\ UNCHANGED <<callVars, deviceVars, responseReceived, response>>

FlagResponse ==
    /\ At("flag")
    /\ responseReceived' = TRUE
    /\ NextStage
    /\ UNCHANGED <<callVars, deviceVars, content, response>>

-----------------------------------------------------------------------------
(* The device.                                                             *)

DeviceReceive ==
    /\ reached < command
    /\ reached' = command
    /\ answers' = IF wantsResponse THEN Append(answers, command) ELSE <<>>
    /\ UNCHANGED <<callVars, responseReceived, content, handler, response>>

-----------------------------------------------------------------------------
Call   == \E wants \in BOOLEAN : Send(wants)
Resume == LinkSucceeds \/ LinkFails \/ Received \/ NoResponse \/ Decode
Io     == ReadHandler \/ CopyResponse \/ FlagResponse
Next   == Call \/ Resume \/ Io \/ DeviceReceive

Spec == Init /\ [][Next]_vars

-----------------------------------------------------------------------------
(* Properties.                                                             *)

(* Every variable has its type, no response is under way before its        *)
(* command was sent, and the buffer installed is that of the last command. *)
TypeOK ==
    /\ sender \in {"idle", "link", "wait", "decode"}
    /\ command \in 0..MaxCommands
    /\ wantsResponse \in BOOLEAN
    /\ responseReceived \in BOOLEAN
    /\ responseBuffer = IF wantsResponse THEN command ELSE 0
    /\ content \in [Commands -> 0..command]
    /\ result \in {"none", "SUCCESS", "SEND", "NO_RESPONSE"}
    /\ handler \in 0..Len(Stages)
    /\ response \in 0..command
    /\ reached \in 0..command
    /\ answers \in Seq(1..command)
    /\ late \in BOOLEAN

(* As long as no call has returned without its response, a call decodes    *)
(* the response of its own command, which the io thread does not touch any  *)
(* more.                                                                   *)
OwnResponse == sender = "decode" /\ ~late => content[command] = command

(* A call does not end in NO_RESPONSE once its own response has been       *)
(* handled, even if that happened before the link reported its success, or *)
(* between the responses of earlier calls that came too late.              *)
OwnResponseNoticed ==
    [][NoResponse => ~(response = command /\ handler = 0)]_vars
=============================================================================
