---------------------------- MODULE AdvBufferPool ----------------------------
(***************************************************************************)
(* The buffers of advertising and scanning (API version 6).  A call hands  *)
(* the SoftDevice pointers to its buffers; over the serial port they       *)
(* become the numbers of slots in m_ble_data_pool of the adapter           *)
(* (app_ble_gap.cpp), which events of the device carry back.               *)
(*                                                                         *)
(* A call of sd_ble_gap_adv_set_configure(), _scan_start() or _scan_stop() *)
(* holds the request context from its encoding to its decoding, so calls   *)
(* follow one another, whatever their adapters.  Events are decoded in the *)
(* event context, by the event thread of each adapter, between any two     *)
(* steps of a call.  The window in which a context is unlocked and not yet *)
(* cleared is the subject of AppBleGap; Leave is one step here.            *)
(*                                                                         *)
(* The device is external: it keeps the buffers of a command it executed   *)
(* until an event returns them or another command replaces them.           *)
(***************************************************************************)
EXTENDS Naturals, FiniteSets, Sequences

CONSTANTS
    Threads,     \* application threads
    Adapters,
    Buffers,     \* buffers of the application
    AdvData,     \* pairs of buffers a call of adv_set_configure() is made with
    ScanBuffers, \* buffers a call of scan_start() is made with
    PoolSize,    \* APP_BLE_GAP_ADV_BUF_COUNT: 8
    AtMost,      \* bound: how many kinds of mishap may happen
    NoThread, NoAdapter, NoBuffer   \* nobody, nullptr, nullptr

Pointers == Buffers \cup {NoBuffer}
Full     == PoolSize + 1     \* the -1 of adv_buf_register(), unsigned on the wire

(* Mishaps.  The first three leave slots in the pool that no event returns  *)
(* and nothing marks dirty: a command that fails, a scan that             *)
(* ends while the device has its buffer, a set of an adapter other than the *)
(* one adv_set_data remembers.  The others are calls that come early: with  *)
(* a buffer that is still registered, or before the event with the buffers  *)
(* of the set is decoded.                                                   *)
Mishaps   == {"command failed", "scan stopped", "other adapter", "buffer in use", "event overtaken"}
Leftovers == {"command failed", "scan stopped", "other adapter"}
Untimely  == {"command failed", "buffer in use", "event overtaken"}

ASSUME AtMostAssumption   == AtMost \in Nat
ASSUME PoolSizeAssumption == PoolSize \in Nat \ {0}
ASSUME AdvDataAssumption  == AdvData \subseteq Pointers \X Pointers /\ ScanBuffers \subseteq Buffers
ASSUME NobodyAssumption   == /\ NoThread \notin Threads
                             /\ NoAdapter \notin Adapters
                             /\ NoBuffer \notin Buffers

VARIABLES
    pool,          \* m_ble_data_pool of each adapter
    scanDataId,    \* scan_data_id of each adapter
    advSetData,    \* adv_set_data[0]: buf1 and buf2, one for all adapters
    mp_out_params, \* of ble_gap_impl.cpp, one for all calls
    holder,        \* the thread that has codec_mutex of the request context
    adapterId,     \* adapter_id of the request context
    call,          \* the call of each thread
    held,          \* device: the slots it got with "adv" and "scan" commands
    events,        \* events with slots that are not decoded yet
    returned,      \* history: what the last such event found in the pool
    mishaps        \* history: what happened so far that should rather not

vars == <<pool, scanDataId, advSetData, mp_out_params, holder, adapterId, call,
          held, events, returned, mishaps>>

Slots    == 1..PoolSize
FreeSlot == [state |-> "free", buf |-> NoBuffer]
NoCall   == [at |-> "idle", op |-> "none", adapter |-> NoAdapter,
             bufs |-> <<NoBuffer, NoBuffer>>, ids |-> <<0, 0>>]
Nothing  == [ids |-> <<0, 0>>, bufs |-> <<NoBuffer, NoBuffer>>]

LowestOf(S) == CHOOSE i \in S : \A j \in S : i <= j

-----------------------------------------------------------------------------
(* The pool of an adapter.                                                 *)

(* app_ble_gap_adv_buf_register(): the number it returns and the pool after *)
RegisterId(p, b) ==
    LET free == {i \in Slots : p[i].state = "free"}
    IN  IF b = NoBuffer THEN 0 ELSE IF free = {} THEN Full ELSE LowestOf(free)

Register(p, b) ==
    LET id == RegisterId(p, b)
    IN  IF id \in Slots THEN [p EXCEPT ![id] = [state |-> "in_use", buf |-> b]] ELSE p

(* app_ble_gap_adv_buf_addr_unregister(): the first slot with the address.  *)
AddrUnregister(p, b) ==
    LET found == {i \in Slots : p[i].buf = b /\ p[i].state # "free"}
    IN  IF b = NoBuffer \/ found = {} THEN p ELSE [p EXCEPT ![LowestOf(found)] = FreeSlot]

(* app_ble_gap_adv_buf_unregister() for the number an event carries.        *)
Unregister(p, id) == IF id \in Slots THEN [p EXCEPT ![id] = FreeSlot] ELSE p

(* The address it returns; ids count from 1, the slip NextSlot forgets that. *)
NextSlot(p, id) == IF id + 1 \in Slots THEN p[id + 1].buf ELSE NoBuffer
Found(p, id)    == IF id \in Slots THEN p[id].buf ELSE NoBuffer

(* app_ble_gap_ble_data_mark_dirty()                                       *)
MarkDirty(p, b) ==
    [i \in Slots |-> IF p[i].buf = b /\ p[i].state = "in_use"
                     THEN [p[i] EXCEPT !.state = "last_dirty"] ELSE p[i]]

InPool(p) == {p[i].buf : i \in Slots} \ {NoBuffer}

(* The loop of app_ble_gap_ble_adv_data_mark_dirty() gives the address of  *)
(* every dirty slot to adv_buf_addr_unregister(): as many of the first     *)
(* slots with an address are freed as slots with it are dirty.  KeepDirty  *)
(* leaves the loop out.                                                    *)
KeepDirty(p) == p
FreeDirty(p) ==
    LET same(i)  == {j \in Slots : p[j].buf = p[i].buf /\ p[j].state # "free"}
        dirty(i) == {j \in same(i) : p[j].state = "last_dirty"}
    IN  [i \in Slots |-> IF Cardinality({j \in same(i) : j < i}) < Cardinality(dirty(i))
                         THEN FreeSlot ELSE p[i]]

(* app_ble_gap_set_adv_data_set() in the pool of the current adapter.       *)
AfterConfigure(p) == MarkDirty(MarkDirty(FreeDirty(p), advSetData[1]), advSetData[2])

-----------------------------------------------------------------------------
Init ==
    /\ pool = [a \in Adapters |-> [i \in Slots |-> FreeSlot]]
    /\ scanDataId = [a \in Adapters |-> 0]
    /\ advSetData = <<NoBuffer, NoBuffer>>
    /\ mp_out_params = <<NoBuffer, NoBuffer>>
    /\ holder = NoThread
    /\ adapterId = NoAdapter
    /\ call = [t \in Threads |-> NoCall]
    /\ held = [a \in Adapters |-> [adv |-> Nothing, scan |-> Nothing]]
    /\ events = [a \in Adapters |-> <<>>]
    /\ returned = "own"
    /\ mishaps = {}

(* A thread that is "stuck" waits for the adapter_id_mutex it holds, and    *)
(* nobody else gets it either.                                             *)
AdapterIdMutexFree == \A t \in Threads : call[t].at # "stuck"

-----------------------------------------------------------------------------
(* app_ble_gap_scan_data_unset(true) locks adapter_id_mutex and, when it    *)
(* finds a scan buffer, calls app_ble_gap_adv_buf_unregister(), which locks *)
(* it again.  AnyScanData looks at the scan data of every adapter.          *)
AnyScanData == \E a \in Adapters : scanDataId[a] # 0
UnsetHangs  == adapterId # NoAdapter /\ scanDataId[adapterId] # 0

Happens(what) ==
    /\ what \cap mishaps \subseteq {"buffer in use"}
    /\ Cardinality(mishaps \cup what) <= AtMost
    /\ mishaps' = mishaps \cup what

None(kinds) == mishaps \cap kinds = {}

-----------------------------------------------------------------------------
(* A call.                                                                 *)

(* The constructor of RequestReplyCodecContext.                            *)
CodecMutexIgnored == TRUE
CodecMutexFree    == holder = NoThread

Enter(t) ==
    /\ call[t].at = "idle"
    /\ CodecMutexFree
    /\ AdapterIdMutexFree
    /\ \E a \in Adapters :
          /\ adapterId' = a
          /\ \/ \E bufs \in AdvData :
                   call' = [call EXCEPT ![t] = [NoCall EXCEPT !.at = "encode", !.op = "configure",
                                                              !.adapter = a, !.bufs = bufs]]
             \/ \E b \in ScanBuffers :
                   call' = [call EXCEPT ![t] = [NoCall EXCEPT !.at = "encode", !.op = "scan_start",
                                                              !.adapter = a, !.bufs = <<b, NoBuffer>>]]
             \/ call' = [call EXCEPT ![t] = [NoCall EXCEPT !.at = "encode", !.op = "scan_stop",
                                                           !.adapter = a]]
    /\ holder' = t
    /\ UNCHANGED <<pool, scanDataId, advSetData, mp_out_params, held, events, returned, mishaps>>

(* encode_function: both buffers are registered by ble_data_t_enc(), then  *)
(* scan_start() looks its buffer up again with app_ble_gap_scan_data_set(). *)
Encode(t) ==
    LET a     == adapterId
        bufs  == call[t].bufs
        pool1 == Register(pool[a], bufs[1])
        pool2 == Register(pool1, bufs[2])
        same  == {i \in Slots : pool2[i].buf = bufs[1]}
    IN  /\ call[t].at = "encode"
        /\ AdapterIdMutexFree
        /\ pool' = [pool EXCEPT ![a] = pool2]
        /\ call' = [call EXCEPT ![t].at = "send",
                                ![t].ids = <<RegisterId(pool[a], bufs[1]), RegisterId(pool1, bufs[2])>>]
        /\ mp_out_params' = IF call[t].op = "configure" THEN bufs ELSE mp_out_params
        /\ scanDataId' = IF call[t].op # "scan_start" THEN scanDataId
                         ELSE [scanDataId EXCEPT ![a] = IF same = {} THEN 0 ELSE LowestOf(same)]
        /\ Happens(IF bufs[1] \in InPool(pool[a]) \/ bufs[2] \in InPool(pool[a])
                   THEN {"buffer in use"} ELSE {})
        /\ UNCHANGED <<advSetData, holder, adapterId, held, events, returned>>

(* What the device does with a command it executes.                        *)
Executed(a, c) ==
    LET its == [ids |-> c.ids, bufs |-> c.bufs]
    IN  IF c.op = "configure" THEN [held EXCEPT ![a].adv = its]
        ELSE [held EXCEPT ![a].scan = IF c.op = "scan_start" THEN its ELSE Nothing]

(* The device has no use for a slot that is not in the pool, nor for a      *)
(* second buffer while it has one to fill.                                  *)
Accepts(a, c) ==
    /\ \A k \in {1, 2} : c.ids[k] # Full
    /\ c.op = "scan_start" => held[a].scan = Nothing

MishapsOf(a, c, executed) ==
    {m \in Mishaps :
        \/ m = "command failed" /\ ~executed
        \/ m = "scan stopped" /\ executed /\ c.op = "scan_stop" /\ held[a].scan # Nothing
        \/ /\ m = "other adapter" /\ c.op = "configure"
           /\ \E other \in Adapters \ {a} :
                 InPool(pool[other]) \cap {advSetData[1], advSetData[2]} # {}
        \/ /\ m = "event overtaken" /\ c.op = "configure"
           /\ events[a] # <<>> /\ Head(events[a]).kind = "adv"}

(* A response with a result code.  The decoder returns success for a result *)
(* that is an error, too, and the set counts as configured all the same.    *)
Respond(t) ==
    LET a == adapterId
        c == call[t]
    IN  /\ c.at = "send"
        /\ AdapterIdMutexFree
        /\ \E success \in BOOLEAN :
              /\ success => Accepts(a, c)
              /\ held' = IF success THEN Executed(a, c) ELSE held
              /\ Happens(MishapsOf(a, c, success))
              /\ call' = [call EXCEPT ![t].at = IF c.op = "scan_stop" /\ success THEN "leave_unset"
                                                ELSE "leave"]
        /\ IF c.op = "configure"
           THEN /\ pool' = [pool EXCEPT ![a] = AfterConfigure(@)]
                /\ advSetData' = mp_out_params
           ELSE UNCHANGED <<pool, advSetData>>
        /\ UNCHANGED <<scanDataId, mp_out_params, holder, adapterId, events, returned>>

(* send() fails, with or without the command having arrived.               *)
SendFails(t) ==
    /\ call[t].at = "send"
    /\ held' \in {held} \cup (IF Accepts(adapterId, call[t])
                              THEN {Executed(adapterId, call[t])} ELSE {})
    /\ call' = [call EXCEPT ![t].at = "leave"]
    /\ Happens({"command failed"})
    /\ UNCHANGED <<pool, scanDataId, advSetData, mp_out_params, holder, adapterId, events, returned>>

(* A response the decoder refuses, such as a late one of another command.   *)
(* scan_start() then calls app_ble_gap_scan_data_unset(true).               *)
RespondGarbage(t) ==
    LET c == call[t]
    IN  /\ c.at = "send"
        /\ AdapterIdMutexFree
        /\ held' \in {held} \cup (IF Accepts(adapterId, c) THEN {Executed(adapterId, c)} ELSE {})
        /\ call' = [call EXCEPT ![t].at = IF c.op = "scan_start" /\ UnsetHangs
                                          THEN "stuck" ELSE "leave"]
        /\ Happens({"command failed"})
        /\ UNCHANGED <<pool, scanDataId, advSetData, mp_out_params, holder, adapterId, events,
                       returned>>

(* The destructor of RequestReplyCodecContext.                             *)
Leave(t) ==
    /\ call[t].at \in {"leave", "leave_unset"}
    /\ AdapterIdMutexFree
    /\ holder' = NoThread
    /\ adapterId' = NoAdapter
    /\ call' = [call EXCEPT ![t] = IF call[t].at = "leave" THEN NoCall ELSE [@ EXCEPT !.at = "unset"]]
    /\ UNCHANGED <<pool, scanDataId, advSetData, mp_out_params, held, events, returned, mishaps>>

(* app_ble_gap_scan_data_unset(true) of scan_stop(), after the context was  *)
(* left: it finds no adapter, or the adapter of the call that came next.    *)
ScanStopUnset(t) ==
    /\ call[t].at = "unset"
    /\ AdapterIdMutexFree
    /\ call' = [call EXCEPT ![t] = IF UnsetHangs THEN [@ EXCEPT !.at = "stuck"] ELSE NoCall]
    /\ UNCHANGED <<pool, scanDataId, advSetData, mp_out_params, holder, adapterId, held, events,
                   returned, mishaps>>

-----------------------------------------------------------------------------
(* Events: BLE_GAP_EVT_ADV_REPORT, or _TIMEOUT when the time to scan is     *)
(* over, returns the scan buffer, _CONNECTED and _ADV_SET_TERMINATED the    *)
(* buffers of the advertising set.                                         *)

SendEvent(a, kind) ==
    /\ held[a][kind] # Nothing
    /\ events[a] = <<>>
    /\ events' = [events EXCEPT ![a] = <<[kind |-> kind, has |-> held[a][kind]]>>]
    /\ held' = [held EXCEPT ![a][kind] = Nothing]
    /\ UNCHANGED <<pool, scanDataId, advSetData, mp_out_params, holder, adapterId, call, returned,
                   mishaps>>

(* The decoder of adv_report() looks at the request context to forget the   *)
(* scan buffer, and so at the adapter of whatever call is under way; that   *)
(* of a timeout frees the slot and leaves the scan data of the adapter.     *)
DecodeEvent(a) ==
    /\ events[a] # <<>>
    /\ LET kind == Head(events[a]).kind
           has  == Head(events[a]).has
       IN  /\ \/ /\ kind = "scan" /\ AdapterIdMutexFree
                 /\ scanDataId' = IF adapterId = NoAdapter THEN scanDataId
                                  ELSE [scanDataId EXCEPT ![adapterId] = 0]
              \/ UNCHANGED scanDataId
           /\ returned' = IF has.bufs = <<Found(pool[a], has.ids[1]),
                                          Found(Unregister(pool[a], has.ids[1]), has.ids[2])>>
                          THEN "own" ELSE "another"
           /\ pool' = [pool EXCEPT ![a] = Unregister(Unregister(@, has.ids[1]), has.ids[2])]
    /\ events' = [events EXCEPT ![a] = <<>>]
    /\ UNCHANGED <<advSetData, mp_out_params, holder, adapterId, call, held, mishaps>>

-----------------------------------------------------------------------------
Call(t)  == Enter(t) \/ Encode(t) \/ Respond(t) \/ SendFails(t) \/ RespondGarbage(t)
            \/ Leave(t) \/ ScanStopUnset(t)
Event(a) == SendEvent(a, "adv") \/ SendEvent(a, "scan") \/ DecodeEvent(a)
Next     == (\E t \in Threads : Call(t)) \/ (\E a \in Adapters : Event(a))
Spec     == Init /\ [][Next]_vars

-----------------------------------------------------------------------------
(* Properties.                                                             *)

TypeOK ==
    /\ pool \in [Adapters -> [Slots -> [state : {"free", "in_use", "last_dirty"}, buf : Pointers]]]
    /\ scanDataId \in [Adapters -> 0..PoolSize]
    /\ advSetData \in Pointers \X Pointers
    /\ mp_out_params \in Pointers \X Pointers
    /\ holder \in Threads \cup {NoThread}
    /\ adapterId \in Adapters \cup {NoAdapter}
    /\ call \in [Threads -> [at : {"idle", "encode", "send", "leave", "leave_unset", "unset", "stuck"},
                           op : {"none", "configure", "scan_start", "scan_stop"},
                           adapter : Adapters \cup {NoAdapter},
                           bufs : Pointers \X Pointers, ids : (0..Full) \X (0..Full)]]
    /\ returned \in {"own", "another"}
    /\ mishaps \subseteq Mishaps

(* mp_out_params of ble_gap_impl.cpp is one variable for the calls of all   *)
(* threads and adapters.  From the encoding of a configuration to its       *)
(* decoding, which notes the buffers of the set from it (line 93), it holds *)
(* the buffers of this call and not those of another thread's call.         *)
OwnOutParams ==
    \A t \in Threads : call[t].at = "send" /\ call[t].op = "configure" =>
        mp_out_params = call[t].bufs

(* The pool is large enough: unless a command failed, a scan was stopped or *)
(* a set of another adapter took the place of this one's, a buffer always   *)
(* finds a slot and the device is never sent the id -1 (line 531).  This is *)
(* about the leftovers of alternating buffers, which are freed two          *)
(* configurations later; PoolSize 4 is not enough for sets of one buffer    *)
(* and a scan buffer, 5 is, and APP_BLE_GAP_ADV_BUF_COUNT 8 for sets of two. *)
Fits == None(Leftovers) => \A t \in Threads : \A k \in {1, 2} : call[t].ids[k] # Full

(* An event gives the application the buffers it gave with the set or the   *)
(* scan (app_ble_gap.h:229-231), not nullptr and not another buffer that    *)
(* took the slot over, as long as no command failed, no buffer was given    *)
(* twice and no configuration overtook the event of the last one: slots are *)
(* freed by address, by number and when they are dirty.                     *)
BufferBack == None(Untimely) => returned # "another"

(* A call never waits for itself in app_ble_gap_scan_data_unset(), except   *)
(* where the code has no defence: scan_start() with a response that cannot  *)
(* be decoded, and scan_stop() whose late unset meets the context of        *)
(* another thread's call (lines 744 and 762).                               *)
HangsExplained ==
    \A t \in Threads : call[t].at = "stuck" =>
        \/ call[t].op = "scan_start" /\ "command failed" \in mishaps
        \/ call[t].op = "scan_stop" /\ holder \in Threads \ {t}
=============================================================================
