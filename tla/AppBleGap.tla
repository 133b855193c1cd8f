------------------------------- MODULE AppBleGap -------------------------------
(***************************************************************************)
(* The GAP state of the adapters: the codec contexts, which tell a codec    *)
(* whose state to use, and the table of security keys it finds there.       *)
(*                                                                          *)
(* A thread enters the request context for each GAP call and the event      *)
(* context for each event, and stays until the call or the callback is      *)
(* over.  codec_mutex admits one thread to a context; each access to the    *)
(* table is under adapter_id_mutex, but that of its own context only, so    *)
(* that a command and an event meet in one table.                           *)
(*                                                                          *)
(* Threads are those of the application and the event thread of each        *)
(* adapter, named like the adapter.  A keyset is the number of the          *)
(* sd_ble_gap_sec_params_reply() that came with it.                         *)
(***************************************************************************)
EXTENDS Naturals, FiniteSets

CONSTANTS
    Apps, Adapters,
    Handles,             \* connection handles, 0 among them
    SER_MAX_CONNECTIONS,
    Pairing,             \* bound: the adapters whose connections are paired
    MaxReplies,          \* bound: calls of sd_ble_gap_sec_params_reply()
    none

ASSUME ThreadsAssumption == Apps \intersect Adapters = {} /\ none \notin Apps \union Adapters
ASSUME HandlesAssumption == Handles \subseteq Nat /\ 0 \in Handles
ASSUME PairingAssumption == Pairing \subseteq Adapters
ASSUME BoundsAssumption == SER_MAX_CONNECTIONS \in Nat \ {0} /\ MaxReplies \in Nat

VARIABLES
    codec_mutex,      \* the thread in each context
    adapter_id,       \* the adapter whose state the context's codec uses
    app_keys_table,   \* the slots of each adapter
    pc,               \* where a thread is in its use of each context
    job,              \* the call or event it is there for
    replies,          \* number of replies so far
    pairing,          \* device: the reply it accepted for each connection, 0 for none
    mishap            \* history: since the table was reset, a reply or an event of the
                      \* adapter failed half-way; or it was reset during a pairing

contextVars == <<codec_mutex, adapter_id>>
deviceVars  == <<pairing, mishap>>
vars        == <<contextVars, app_keys_table, pc, job, replies, deviceVars>>

Contexts == {"request", "event"}
Threads  == Apps \union Adapters
Slots    == 0..(SER_MAX_CONNECTIONS - 1)
Slot     == [conn_active : BOOLEAN, conn_handle : Handles, keyset : 0..MaxReplies]
Job      == [adapter : Adapters \union {none}, kind : {"reply", "enable", "auth_status"},
             handle : Handles, keyset : 0..MaxReplies, index : Slots]
NoJob    == [adapter |-> none, kind |-> "enable", handle |-> 0,
             keyset |-> 0, index |-> 0]

Init ==
    /\ codec_mutex = [c \in Contexts |-> none]
    /\ adapter_id = [c \in Contexts |-> none]
    /\ app_keys_table = [a \in Adapters |-> [i \in Slots |->
           [conn_active |-> FALSE, conn_handle |-> 0, keyset |-> 0]]]
    /\ pc = [c \in Contexts |-> [t \in Threads |-> "idle"]]
    /\ job = [c \in Contexts |-> [t \in Threads |-> NoJob]]
    /\ replies = 0
    /\ pairing = [a \in Adapters |-> [h \in Handles |-> 0]]
    /\ mishap = [a \in Adapters |-> FALSE]

Goto(c, t, label) == pc' = [pc EXCEPT ![c][t] = label]
At(c, t, label)   == pc[c][t] = label

-----------------------------------------------------------------------------
(* RequestReplyCodecContext and EventCodecContext.                         *)

(* A call or an event: the thread goes for the context.                    *)
Enter(c, t, adapter, kind, handle, keyset) ==
    /\ At(c, t, "idle")
    /\ job' = [job EXCEPT ![c][t] = [adapter |-> adapter, kind |-> kind, handle |-> handle,
                                     keyset |-> keyset, index |-> 0]]
    /\ Goto(c, t, "lock")
    /\ UNCHANGED <<contextVars, app_keys_table, deviceVars>>

(* AnyTime is the slip of not waiting for the thread that is there.        *)
AnyTime(c) == TRUE
Free(c)    == codec_mutex[c] = none

FirstStage(kind) == CASE kind = "reply"       -> "create"
                      [] kind = "enable"      -> "reset"
                      [] kind = "auth_status" -> "find"

(* app_ble_gap_set_current_adapter_id(): nobody reads adapter_id between   *)
(* the lock and the assignment.                                            *)
SetAdapterId(c, t) ==
    /\ At(c, t, "lock")
    /\ Free(c)
    /\ codec_mutex' = [codec_mutex EXCEPT ![c] = t]
    /\ adapter_id' = [adapter_id EXCEPT ![c] = job[c][t].adapter]
    /\ Goto(c, t, FirstStage(job[c][t].kind))
    /\ UNCHANGED <<app_keys_table, job, replies, deviceVars>>

Unlocked(c) == none

Unlock(c, t) ==
    /\ At(c, t, "unlock")
    /\ codec_mutex' = [codec_mutex EXCEPT ![c] = Unlocked(c)]
    /\ Goto(c, t, "clear")
    /\ UNCHANGED <<adapter_id, app_keys_table, job, replies, deviceVars>>

ClearAdapterId(c, t) ==
    /\ At(c, t, "clear")
    /\ adapter_id' = [adapter_id EXCEPT ![c] = none]
    /\ job' = [job EXCEPT ![c][t] = NoJob]
    /\ Goto(c, t, "idle")
    /\ UNCHANGED <<codec_mutex, app_keys_table, replies, deviceVars>>

IsSet(c) == adapter_id[c] # none
Table(c) == app_keys_table[adapter_id[c]]

(* The loops over the table stop at the first slot.                        *)
First(slots) == {i \in slots : \A j \in slots : i <= j}

-----------------------------------------------------------------------------
(* Calls: sd_ble_gap_sec_params_reply() and sd_ble_enable(), the others do *)
(* not touch the table.  The application replies once to each pairing, or  *)
(* again after a reply that failed.                                        *)

Replying(a, h) ==
    \E t \in Threads :
        /\ job["request"][t].kind = "reply"
        /\ job["request"][t].adapter = a
        /\ job["request"][t].handle = h
MayReply(a, h) == pairing[a][h] = 0 /\ ~Replying(a, h)

MayCall(t) == t \in Apps \/ At("event", t, "callback")

Call(t) ==
    /\ MayCall(t)
    /\ \E a \in Adapters :
          \/ Enter("request", t, a, "enable", 0, 0) /\ UNCHANGED replies
          \/ /\ replies < MaxReplies
             /\ replies' = replies + 1
             /\ a \in Pairing
             /\ \E h \in Handles :
                   MayReply(a, h) /\ Enter("request", t, a, "reply", h, replies')

(* app_ble_gap_sec_keys_storage_create() takes the first slot that is not  *)
(* active; an event may look at it before it has its handle.               *)
FreeSlots(table) == {i \in Slots : ~table[i].conn_active}

Create(t) ==
    LET free == IF IsSet("request") THEN FreeSlots(Table("request")) ELSE {}
    IN  /\ At("request", t, "create")
        /\ \/ \E i \in First(free) :
                 /\ app_keys_table' = [app_keys_table EXCEPT
                        ![adapter_id["request"]][i].conn_active = TRUE]
                 /\ job' = [job EXCEPT !["request"][t].index = i]
                 /\ Goto("request", t, "name")
           \/ /\ free = {}
              /\ Goto("request", t, "unlock")
              /\ UNCHANGED <<app_keys_table, job>>
        /\ UNCHANGED <<contextVars, replies, deviceVars>>

Name(t) ==
    /\ At("request", t, "name")
    /\ LET j == job["request"][t]
       IN  app_keys_table' =
               [app_keys_table EXCEPT ![j.adapter][j.index].conn_handle = j.handle]
    /\ Goto("request", t, "update")
    /\ UNCHANGED <<contextVars, job, replies, deviceVars>>

(* app_ble_gap_sec_keys_update(); replies without a keyset are left out.   *)
(* LeavesKeyset leaves that of the slot's last pairing.                    *)
LeavesKeyset(old, new) == old
Stored(old, new)       == new

Update(t) ==
    LET j == job["request"][t]
    IN  /\ At("request", t, "update")
        /\ IF IsSet("request")
           THEN /\ app_keys_table' = [app_keys_table EXCEPT
                       ![adapter_id["request"]][j.index].keyset = Stored(@, j.keyset)]
                /\ Goto("request", t, "send")
                /\ UNCHANGED mishap
           ELSE /\ mishap' = [mishap EXCEPT ![j.adapter] = TRUE]
                /\ Goto("request", t, "unlock")
                /\ UNCHANGED app_keys_table
        /\ UNCHANGED <<contextVars, job, replies, pairing>>

(* app_ble_gap_state_reset()                                               *)
Reset(t) ==
    LET a == job["request"][t].adapter
    IN  /\ At("request", t, "reset")
        /\ app_keys_table' =
               [b \in Adapters |-> IF b = adapter_id["request"]
                                   THEN [i \in Slots |-> [app_keys_table[b][i] EXCEPT
                                                             !.conn_active = FALSE]]
                                   ELSE app_keys_table[b]]
        /\ mishap' = [mishap EXCEPT ![a] = IF IsSet("request")
                          THEN \E h \in Handles : pairing[a][h] # 0 ELSE @]
        /\ Goto("request", t, "send")
        /\ UNCHANGED <<contextVars, job, replies, pairing>>

(* The command and its response.  The device takes a reply if it has none  *)
(* for the connection; the call may fail all the same.                     *)
DeviceAccepts(t) ==
    LET j == job["request"][t]
    IN  /\ At("request", t, "send")
        /\ j.kind = "reply"
        /\ pairing[j.adapter][j.handle] = 0
        /\ pairing' = [pairing EXCEPT ![j.adapter][j.handle] = j.keyset]
        /\ Goto("request", t, "answer")
        /\ UNCHANGED <<contextVars, app_keys_table, job, replies, mishap>>

SendSucceeds(t) ==
    /\ \/ At("request", t, "send") /\ job["request"][t].kind # "reply"
       \/ At("request", t, "answer")
    /\ Goto("request", t, "unlock")
    /\ UNCHANGED <<contextVars, app_keys_table, job, replies, deviceVars>>

SendFails(t) ==
    LET j == job["request"][t]
    IN  /\ At("request", t, "send") \/ At("request", t, "answer")
        /\ mishap' = [mishap EXCEPT ![j.adapter] = @ \/ j.kind = "reply"]
        /\ Goto("request", t, "unlock")
        /\ UNCHANGED <<contextVars, app_keys_table, job, replies, pairing>>

-----------------------------------------------------------------------------
(* Events: ble_gap_evt_auth_status_dec() on the event thread.  The event   *)
(* carries keys if the device had accepted a reply, and none if the        *)
(* pairing was given up before.                                            *)

AuthStatus(a) ==
    /\ \E h \in Handles : Enter("event", a, a, "auth_status", h, pairing[a][h])
    /\ UNCHANGED replies

(* The event cannot be decoded, or it can: the pairing is over.            *)
Over(a) == pairing' = [pairing EXCEPT ![a][job["event"][a].handle] =
                           IF @ = job["event"][a].keyset THEN 0 ELSE @]

Undecodable(a) ==
    /\ Over(a)
    /\ mishap' = [mishap EXCEPT ![a] = @ \/ job["event"][a].keyset # 0]
    /\ Goto("event", a, "unlock")
    /\ UNCHANGED <<app_keys_table, job>>

(* app_ble_gap_sec_keys_find()                                             *)
FoundBy(table, handle) == {i \in Slots : table[i].conn_handle = handle /\ table[i].conn_active}

Find(a) ==
    LET j     == job["event"][a]
        found == IF IsSet("event") THEN FoundBy(Table("event"), j.handle) ELSE {}
    IN  /\ At("event", a, "find")
        /\ \/ /\ j.keyset # 0
              /\ \E i \in First(found) : job' = [job EXCEPT !["event"][a].index = i]
              /\ Goto("event", a, "get")
              /\ UNCHANGED <<app_keys_table, deviceVars>>
           \/ /\ found = {} /\ j.keyset = 0
              /\ Goto("event", a, "callback")
              /\ UNCHANGED <<app_keys_table, job, deviceVars>>
           \/ (found = {}) # (j.keyset = 0) /\ Undecodable(a)
        /\ UNCHANGED <<contextVars, replies>>

(* app_ble_gap_sec_keys_get(): the keys go where the slot's keyset points. *)
Get(a) ==
    /\ At("event", a, "get")
    /\ IF IsSet("event")
       THEN Goto("event", a, "destroy") /\ UNCHANGED <<app_keys_table, job, deviceVars>>
       ELSE Undecodable(a)
    /\ UNCHANGED <<contextVars, replies>>

(* app_ble_gap_sec_keys_storage_destroy() looks at the handle only.        *)
(* FirstActive looks at conn_active only.                                  *)
FirstActive(table, handle) == {i \in Slots : table[i].conn_active}
DestroyedBy(table, handle) == {i \in Slots : table[i].conn_handle = handle}

Destroy(a) ==
    LET hit == IF IsSet("event") THEN DestroyedBy(Table("event"), job["event"][a].handle) ELSE {}
    IN  /\ At("event", a, "destroy")
        /\ \/ /\ \E i \in First(hit) :
                    app_keys_table' = [app_keys_table EXCEPT
                        ![adapter_id["event"]][i].conn_active = FALSE]
              /\ Over(a)
              /\ Goto("event", a, "callback")
              /\ UNCHANGED <<job, mishap>>
           \/ hit = {} /\ Undecodable(a)
        /\ UNCHANGED <<contextVars, replies>>

CallbackReturns(a) ==
    /\ At("event", a, "callback")
    /\ At("request", a, "idle")
    /\ Goto("event", a, "unlock")
    /\ UNCHANGED <<contextVars, app_keys_table, job, replies, deviceVars>>

-----------------------------------------------------------------------------
Context(c, t) == SetAdapterId(c, t) \/ Unlock(c, t) \/ ClearAdapterId(c, t)
Request(t)    == Create(t) \/ Name(t) \/ Update(t) \/ Reset(t)
                     \/ DeviceAccepts(t) \/ SendSucceeds(t) \/ SendFails(t)
Event(a)      == Find(a) \/ Get(a) \/ Destroy(a) \/ CallbackReturns(a)
Next ==
    \/ \E t \in Threads : Call(t) \/ Request(t) \/ \E c \in Contexts : Context(c, t)
    \/ \E a \in Adapters : AuthStatus(a) \/ Event(a)

Spec == Init /\ [][Next]_vars

-----------------------------------------------------------------------------
(* Properties.                                                             *)

Stages == {"idle", "lock", "create", "name", "update", "reset", "send", "answer",
           "find", "get", "destroy", "callback", "unlock", "clear"}

(* The stages of a thread that has its context, and of one at work in it.  *)
Outside == {"idle", "lock", "clear"}
Working == Stages \ (Outside \union {"unlock"})

(* Every variable has its type, and the thread that holds a context is the *)
(* one that is in it.                                                      *)
TypeOK ==
    /\ codec_mutex \in [Contexts -> Threads \union {none}]
    /\ adapter_id \in [Contexts -> Adapters \union {none}]
    /\ app_keys_table \in [Adapters -> [Slots -> Slot]]
    /\ pc \in [Contexts -> [Threads -> Stages]]
    /\ job \in [Contexts -> [Threads -> Job]]
    /\ replies \in 0..MaxReplies
    /\ pairing \in [Adapters -> [Handles -> 0..MaxReplies]]
    /\ mishap \in [Adapters -> BOOLEAN]
    /\ \A c \in Contexts, t \in Threads : codec_mutex[c] = t <=> pc[c][t] \notin Outside

(* A codec never works on the GAP state of an adapter other than its own,  *)
(* though the context may be cleared under it.                             *)
NeverAnotherAdapter ==
    \A c \in Contexts, t \in Threads :
        pc[c][t] \in Working => adapter_id[c] \in {job[c][t].adapter, none}

(* Unless a reply or an event failed half-way, the active slots of an      *)
(* adapter are those of the pairings under way, one for each, although the *)
(* slots are taken by commands and given back by events.                   *)
HalfNamed(a) ==
    \E t \in Threads : At("request", t, "name") /\ job["request"][t].adapter = a

KeysOfPairings ==
    \A a \in Adapters, h \in Handles :
        ~mishap[a] /\ ~HalfNamed(a) /\ ~Replying(a, h) =>
            Cardinality(FoundBy(app_keys_table[a], h)) = IF pairing[a][h] = 0 THEN 0 ELSE 1

(* And the keys of a pairing go to the keyset of the reply that the device *)
(* has accepted for it.                                                    *)
OwnKeyset ==
    \A a \in Adapters : ~mishap[a] /\ At("event", a, "get") =>
        app_keys_table[a][job["event"][a].index].keyset = job["event"][a].keyset
=============================================================================
