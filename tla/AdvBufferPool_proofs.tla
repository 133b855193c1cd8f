------------------------ MODULE AdvBufferPool_proofs ------------------------
(***************************************************************************)
(* Proofs about calls, the request context they share and the slots of     *)
(* their buffers, for any threads, adapters and buffers: mp_out_params     *)
(* belongs to the call that is under way, a call that waits for itself     *)
(* does so in one of the two ways HangsExplained names, the types are      *)
(* right and events bring the buffers back, for a pool of any size; and a  *)
(* pool for three sets and two scan buffers is large enough.               *)
(***************************************************************************)
EXTENDS AdvBufferPool, FiniteSetTheorems, WellFoundedInduction, TLAPS

-----------------------------------------------------------------------------
(* The invariant.  From Enter to Leave a call is that of the holder of     *)
(* codec_mutex, the context has no adapter without a holder, and a call    *)
(* waits for itself in app_ble_gap_scan_data_unset() only.                 *)
InContext == {"encode", "send", "leave", "leave_unset"}

CallShape == DOMAIN call = Threads /\ \A t \in Threads : DOMAIN call[t] = DOMAIN NoCall

HolderInv ==
    /\ \A t \in Threads : /\ call[t].at \in InContext => holder = t
                          /\ holder = t => call[t].at \in InContext \cup {"stuck"}
    /\ holder \in Threads \cup {NoThread}
    /\ holder = NoThread => adapterId = NoAdapter

CallInv ==
    \A t \in Threads :
       /\ call[t].at \in {"leave_unset", "unset"} => call[t].op = "scan_stop"
       /\ call[t].at = "stuck" => call[t].op \in {"scan_start", "scan_stop"}

IInv == CallShape /\ HolderInv /\ CallInv /\ OwnOutParams /\ HangsExplained

-----------------------------------------------------------------------------
(* A step of a thread changes the call of that thread, in the stage at, and *)
(* nothing else of it but the slots it got.                                *)
Moves(t, at) ==
    /\ call'[t].at = at /\ call'[t].op = call[t].op /\ call'[t].bufs = call[t].bufs
    /\ \A u \in Threads \ {t} : call'[u] = call[u]

LEMMA MoveFacts ==
    ASSUME CallShape, NEW t \in Threads, NEW at, NEW ids,
           \/ call' = [call EXCEPT ![t].at = at]
           \/ call' = [call EXCEPT ![t] = [@ EXCEPT !.at = at]]
           \/ call' = [call EXCEPT ![t].at = at, ![t].ids = ids]
    PROVE  CallShape' /\ Moves(t, at)
<1>1. {"at", "op", "adapter", "bufs", "ids"} = DOMAIN NoCall
  BY DEF NoCall
<1>2. CASE call' = [call EXCEPT ![t].at = at]
  BY <1>1, <1>2 DEF CallShape, Moves
<1>3. CASE call' = [call EXCEPT ![t] = [@ EXCEPT !.at = at]]
  BY <1>1, <1>3 DEF CallShape, Moves
<1>4. CASE call' = [call EXCEPT ![t].at = at, ![t].ids = ids]
  BY <1>1, <1>4 DEF CallShape, Moves
<1>5. QED BY <1>2, <1>3, <1>4

LEMMA NewCallFacts ==
    ASSUME CallShape, NEW t \in Threads, NEW c, DOMAIN c = DOMAIN NoCall,
           call' = [call EXCEPT ![t] = c]
    PROVE  CallShape' /\ call'[t] = c /\ \A u \in Threads \ {t} : call'[u] = call[u]
  BY DEF CallShape

LEMMA InitIInv == Init => IInv
<1> SUFFICES ASSUME Init PROVE IInv
  OBVIOUS
<1>1. \A t \in Threads : call[t] = NoCall /\ call[t].at = "idle"
  BY DEF Init, NoCall
<1>2. CallShape
  BY <1>1 DEF Init, CallShape
<1>3. HolderInv /\ CallInv /\ OwnOutParams /\ HangsExplained
  BY <1>1, NobodyAssumption DEF Init, HolderInv, InContext, CallInv, OwnOutParams, HangsExplained
<1>4. QED BY <1>2, <1>3 DEF IInv

(* The parts of IInv after a step of t that leaves the context as it is.   *)
LEMMA StageStep ==
    ASSUME IInv, NEW t \in Threads, NEW at, Moves(t, at), CallShape', UNCHANGED <<holder, adapterId>>,
           at \in InContext => call[t].at \in InContext,
           at \in InContext \cup {"stuck"},
           at \in {"leave_unset", "unset"} => call[t].op = "scan_stop",
           at = "stuck" => call[t].op \in {"scan_start", "scan_stop"},
           at = "send" /\ call[t].op = "configure" => mp_out_params' = call[t].bufs,
           (\A u \in Threads \ {t} : call[u].at = "send" => call[u].op # "configure")
               \/ mp_out_params' = mp_out_params,
           mishaps \subseteq mishaps',
           at = "stuck" => \/ call[t].op = "scan_start" /\ "command failed" \in mishaps'
                           \/ call[t].op = "scan_stop" /\ holder \in Threads \ {t}
    PROVE  IInv'
<1>1. HolderInv'
  BY DEF IInv, HolderInv, Moves
<1>2. CallInv'
  BY DEF IInv, CallInv, Moves
<1>3. OwnOutParams'
  BY DEF IInv, OwnOutParams, Moves
<1>4. HangsExplained'
  BY DEF IInv, HangsExplained, Moves
<1>5. QED BY <1>1, <1>2, <1>3, <1>4 DEF IInv

LEMMA StepIInv == IInv /\ [Next]_vars => IInv'
<1> SUFFICES ASSUME IInv, [Next]_vars PROVE IInv'
  OBVIOUS
<1>0. CallShape
  BY DEF IInv
<1>1. ASSUME NEW t \in Threads, Enter(t) PROVE IInv'
  <2>1. holder = NoThread /\ holder' = t /\ UNCHANGED <<mp_out_params, mishaps>>
        /\ \A u \in Threads : call[u].at # "stuck"
    BY <1>1 DEF Enter, CodecMutexFree, AdapterIdMutexFree
  <2>2. \A u \in Threads : call[u].at \notin InContext
    BY <2>1, NobodyAssumption DEF IInv, HolderInv
  <2>3. PICK c : DOMAIN c = DOMAIN NoCall /\ c.at = "encode" /\ call' = [call EXCEPT ![t] = c]
    BY <1>1 DEF Enter, NoCall
  <2>4. CallShape' /\ call'[t] = c /\ \A u \in Threads \ {t} : call'[u] = call[u]
    BY <1>0, <2>3, NewCallFacts
  <2>5. HolderInv'
    <3>1. call'[t].at = "encode" /\ t # NoThread
      BY <2>3, <2>4, NobodyAssumption
    <3>2. \A u \in Threads \ {t} : call'[u].at \notin InContext
      BY <2>2, <2>4
    <3>3. QED BY <2>1, <3>1, <3>2 DEF HolderInv, InContext
  <2>6. CallInv' /\ HangsExplained'
    BY <2>1, <2>3, <2>4 DEF IInv, CallInv, HangsExplained
  <2>7. OwnOutParams'
    BY <2>1, <2>3, <2>4 DEF IInv, OwnOutParams
  <2>8. QED BY <2>4, <2>5, <2>6, <2>7 DEF IInv
<1>2. ASSUME NEW t \in Threads, Encode(t) PROVE IInv'
  <2>1. PICK ids : call' = [call EXCEPT ![t].at = "send", ![t].ids = ids]
    BY <1>2 DEF Encode
  <2>2. CallShape' /\ Moves(t, "send")
    BY <1>0, <2>1, MoveFacts
  <2>3. call[t].at = "encode" /\ UNCHANGED <<holder, adapterId>> /\ mishaps \subseteq mishaps'
        /\ (call[t].op = "configure" => mp_out_params' = call[t].bufs)
    BY <1>2 DEF Encode, Happens
  <2>4. \A u \in Threads \ {t} : call[u].at # "send"
    BY <2>3 DEF IInv, HolderInv, InContext
  <2>5. QED BY <2>2, <2>3, <2>4, StageStep DEF InContext
<1>3. ASSUME NEW t \in Threads, Respond(t) PROVE IInv'
  <2>1. PICK at \in {"leave", "leave_unset"} :
           call' = [call EXCEPT ![t].at = at] /\ (at = "leave_unset" => call[t].op = "scan_stop")
    BY <1>3 DEF Respond
  <2>2. CallShape' /\ Moves(t, at)
    BY <1>0, <2>1, MoveFacts
  <2>3. call[t].at = "send" /\ UNCHANGED <<holder, adapterId, mp_out_params>> /\ mishaps \subseteq mishaps'
    BY <1>3 DEF Respond, Happens
  <2>4. QED BY <2>1, <2>2, <2>3, StageStep DEF InContext
<1>4. ASSUME NEW t \in Threads, SendFails(t) \/ RespondGarbage(t) PROVE IInv'
  <2>1. PICK at \in {"leave", "stuck"} :
           call' = [call EXCEPT ![t].at = at] /\ (at = "stuck" => call[t].op = "scan_start")
    BY <1>4 DEF SendFails, RespondGarbage
  <2>2. CallShape' /\ Moves(t, at)
    BY <1>0, <2>1, MoveFacts
  <2>3. call[t].at = "send" /\ UNCHANGED <<holder, adapterId, mp_out_params>>
        /\ mishaps \subseteq mishaps' /\ "command failed" \in mishaps'
    BY <1>4 DEF SendFails, RespondGarbage, Happens
  <2>4. QED BY <2>1, <2>2, <2>3, StageStep DEF InContext
<1>5. ASSUME NEW t \in Threads, Leave(t) PROVE IInv'
  <2>1. call[t].at \in {"leave", "leave_unset"} /\ holder' = NoThread /\ adapterId' = NoAdapter
        /\ UNCHANGED <<mp_out_params, mishaps>> /\ \A u \in Threads : call[u].at # "stuck"
    BY <1>5 DEF Leave, AdapterIdMutexFree
  <2>2. \A u \in Threads \ {t} : call[u].at \notin InContext
    BY <2>1 DEF IInv, HolderInv, InContext
  <2>3. CallShape' /\ call'[t].at \in {"idle", "unset"}
        /\ (call'[t].at = "unset" => call'[t].op = "scan_stop")
        /\ \A u \in Threads \ {t} : call'[u] = call[u]
    <3>1. CASE call[t].at = "leave"
      <4>1. call' = [call EXCEPT ![t] = NoCall] /\ NoCall.at = "idle"
        BY <1>5, <3>1 DEF Leave, NoCall
      <4>2. QED BY <1>0, <4>1, NewCallFacts
    <3>2. CASE call[t].at = "leave_unset"
      <4>1. call' = [call EXCEPT ![t] = [@ EXCEPT !.at = "unset"]] /\ call[t].op = "scan_stop"
        BY <1>5, <3>2 DEF Leave, IInv, CallInv
      <4>2. CallShape' /\ Moves(t, "unset")
        BY <1>0, <4>1, MoveFacts
      <4>3. QED BY <4>1, <4>2 DEF Moves
    <3>3. QED BY <2>1, <3>1, <3>2
  <2>4. HolderInv'
    BY <2>1, <2>2, <2>3, NobodyAssumption DEF HolderInv, InContext
  <2>5. CallInv' /\ HangsExplained'
    BY <2>1, <2>3 DEF IInv, CallInv, HangsExplained
  <2>6. OwnOutParams'
    BY <2>1, <2>3 DEF IInv, OwnOutParams
  <2>7. QED BY <2>3, <2>4, <2>5, <2>6 DEF IInv
<1>6. ASSUME NEW t \in Threads, ScanStopUnset(t) PROVE IInv'
  <2>1. call[t].at = "unset" /\ call[t].op = "scan_stop"
        /\ UNCHANGED <<holder, adapterId, mp_out_params, mishaps>>
    BY <1>6 DEF ScanStopUnset, IInv, CallInv
  <2>2. CASE UnsetHangs
    <3>1. call' = [call EXCEPT ![t] = [@ EXCEPT !.at = "stuck"]]
      BY <1>6, <2>2 DEF ScanStopUnset
    <3>2. CallShape' /\ Moves(t, "stuck")
      BY <1>0, <3>1, MoveFacts
    <3>3. holder \in Threads
      BY <2>2 DEF UnsetHangs, IInv, HolderInv
    <3>4. holder # t
      BY <2>1 DEF IInv, HolderInv, InContext
    <3>5. QED BY <2>1, <3>2, <3>3, <3>4, StageStep DEF InContext
  <2>3. CASE ~UnsetHangs
    <3>1. call' = [call EXCEPT ![t] = NoCall] /\ NoCall.at = "idle"
      BY <1>6, <2>3 DEF ScanStopUnset, NoCall
    <3>2. CallShape' /\ call'[t] = NoCall /\ \A u \in Threads \ {t} : call'[u] = call[u]
      BY <1>0, <3>1, NewCallFacts
    <3>3. HolderInv'
      BY <2>1, <3>1, <3>2 DEF IInv, HolderInv, InContext
    <3>4. CallInv'
      BY <3>1, <3>2 DEF IInv, CallInv
    <3>5. OwnOutParams'
      BY <2>1, <3>1, <3>2 DEF IInv, OwnOutParams
    <3>6. HangsExplained'
      BY <2>1, <3>1, <3>2 DEF IInv, HangsExplained
    <3>7. QED BY <3>2, <3>3, <3>4, <3>5, <3>6 DEF IInv
  <2>4. QED BY <2>2, <2>3
<1>7. CASE (\E a \in Adapters : Event(a)) \/ UNCHANGED vars
  <2>1. UNCHANGED <<call, holder, adapterId, mp_out_params, mishaps>>
    BY <1>7 DEF Event, SendEvent, DecodeEvent, vars
  <2>2. QED BY <2>1 DEF IInv, CallShape, HolderInv, CallInv, OwnOutParams, HangsExplained
<1>8. QED BY <1>1, <1>2, <1>3, <1>4, <1>5, <1>6, <1>7 DEF Next, Call

-----------------------------------------------------------------------------
(* The buffers a configuration notes as those of the set are its own.      *)
THEOREM OutParamsOfCall == Spec => []OwnOutParams
<1>1. IInv => OwnOutParams
  BY DEF IInv
<1>2. QED BY InitIInv, StepIInv, <1>1, PTL DEF Spec

(* A call waits for itself in one of two ways only, and then for ever: the *)
(* context that its late unset met is never left.                          *)
THEOREM HangsAsExplained == Spec => []HangsExplained
<1>1. IInv => HangsExplained
  BY DEF IInv
<1>2. QED BY InitIInv, StepIInv, <1>1, PTL DEF Spec

-----------------------------------------------------------------------------
(* The types, with those of the device.                                    *)
Ref      == [ids : (0..Full) \X (0..Full), bufs : Pointers \X Pointers]
Pending  == [kind : {"adv", "scan"}, has : Ref]
PoolType == [Slots -> [state : {"free", "in_use", "last_dirty"}, buf : Pointers]]

TypeInv ==
    /\ TypeOK
    /\ held \in [Adapters -> [adv : Ref, scan : Ref]]
    /\ events \in [Adapters -> {<<>>} \cup {<<e>> : e \in Pending}]
    /\ \A t \in Threads : call[t].at \in InContext => adapterId \in Adapters

LEMMA NumberFacts ==
    /\ Full \in Nat /\ 0 \in 0..Full /\ Full \in 0..Full /\ Full \notin Slots /\ 0 \notin Slots
    /\ Full # 0 /\ Slots \subseteq 0..Full /\ Slots \subseteq 0..PoolSize /\ 0 \in 0..PoolSize
    /\ Slots \subseteq Nat
  BY PoolSizeAssumption DEF Full, Slots

(* A set of slots that is not empty has a lowest one.                      *)
LEMMA LowestIn ==
    ASSUME NEW S, S \subseteq Slots, S # {}
    PROVE  LowestOf(S) \in S
<1>1. S \subseteq Nat
  BY NumberFacts
<1>2. PICK i \in S : \A j \in S : ~(<<j, i>> \in OpToRel(<, Nat))
  BY <1>1, NatLessThanWellFounded, WFMin
<1>3. \A j \in S : i <= j
  <2> TAKE j \in S
  <2>1. i \in Nat /\ j \in Nat
    BY <1>1
  <2>2. ~(j < i)
    BY <1>2, <2>1 DEF OpToRel
  <2>3. QED BY <2>1, <2>2
<1>4. QED BY <1>3 DEF LowestOf

(* A free slot is taken for a buffer, or none is left.                     *)
LEMMA RegisterFacts ==
    ASSUME NEW p \in PoolType, NEW b \in Pointers
    PROVE  /\ Register(p, b) \in PoolType /\ RegisterId(p, b) \in 0..Full
           /\ \/ b = NoBuffer /\ RegisterId(p, b) = 0 /\ Register(p, b) = p
              \/ b # NoBuffer /\ RegisterId(p, b) = Full /\ Register(p, b) = p
              \/ /\ b # NoBuffer /\ RegisterId(p, b) \in Slots /\ p[RegisterId(p, b)].state = "free"
                 /\ Register(p, b)[RegisterId(p, b)] = [state |-> "in_use", buf |-> b]
                 /\ \A i \in Slots \ {RegisterId(p, b)} : Register(p, b)[i] = p[i]
<1> DEFINE free == {i \in Slots : p[i].state = "free"}
           id   == RegisterId(p, b)
           q    == Register(p, b)
<1>1. CASE b = NoBuffer
  <2>1. id = 0
    BY <1>1 DEF RegisterId
  <2>2. q = p
    BY <2>1, NumberFacts DEF Register
  <2>3. QED BY <1>1, <2>1, <2>2, NumberFacts
<1>2. CASE b # NoBuffer /\ free = {}
  <2>1. id = Full
    BY <1>2 DEF RegisterId
  <2>2. q = p
    BY <2>1, NumberFacts DEF Register
  <2>3. QED BY <1>2, <2>1, <2>2, NumberFacts
<1>3. CASE b # NoBuffer /\ free # {}
  <2>1. id = LowestOf(free)
    BY <1>3 DEF RegisterId
  <2>2. id \in free
    BY <1>3, <2>1, LowestIn
  <2>3. id \in Slots /\ p[id].state = "free"
    BY <2>2
  <2>4. q = [p EXCEPT ![id] = [state |-> "in_use", buf |-> b]]
    BY <2>3 DEF Register
  <2>5. q[id] = [state |-> "in_use", buf |-> b] /\ (\A i \in Slots \ {id} : q[i] = p[i]) /\ q \in PoolType
    BY <2>3, <2>4 DEF PoolType
  <2>6. QED BY <1>3, <2>3, <2>5, NumberFacts
<1>4. QED BY <1>1, <1>2, <1>3

LEMMA UnregisterFacts ==
    ASSUME NEW p \in PoolType, NEW id
    PROVE  /\ Unregister(p, id) \in PoolType
           /\ \A i \in Slots : Unregister(p, id)[i] = IF i = id THEN FreeSlot ELSE p[i]
  BY DEF Unregister, PoolType, FreeSlot, Pointers

LEMMA MarkDirtyFacts ==
    ASSUME NEW p \in PoolType, NEW b
    PROVE  /\ MarkDirty(p, b) \in PoolType
           /\ \A i \in Slots : /\ MarkDirty(p, b)[i].buf = p[i].buf
                               /\ MarkDirty(p, b)[i].state =
                                     IF p[i].buf = b /\ p[i].state = "in_use"
                                     THEN "last_dirty" ELSE p[i].state
<1>1. ASSUME NEW i \in Slots
      PROVE  /\ MarkDirty(p, b)[i] \in [state : {"free", "in_use", "last_dirty"}, buf : Pointers]
             /\ MarkDirty(p, b)[i].buf = p[i].buf
             /\ MarkDirty(p, b)[i].state = IF p[i].buf = b /\ p[i].state = "in_use"
                                           THEN "last_dirty" ELSE p[i].state
  <2>1. p[i] \in [state : {"free", "in_use", "last_dirty"}, buf : Pointers]
    BY DEF PoolType
  <2>2. MarkDirty(p, b)[i] = IF p[i].buf = b /\ p[i].state = "in_use"
                             THEN [p[i] EXCEPT !.state = "last_dirty"] ELSE p[i]
    BY DEF MarkDirty
  <2>3. QED BY <2>1, <2>2
<1>2. MarkDirty(p, b) \in PoolType
  BY <1>1 DEF MarkDirty, PoolType
<1>3. QED BY <1>1, <1>2

LEMMA FreeDirtyType ==
    ASSUME NEW p \in PoolType
    PROVE  FreeDirty(p) \in PoolType
<1>1. \A i \in Slots : p[i] \in [state : {"free", "in_use", "last_dirty"}, buf : Pointers]
  BY DEF PoolType
<1>2. FreeSlot \in [state : {"free", "in_use", "last_dirty"}, buf : Pointers]
  BY DEF FreeSlot, Pointers
<1>3. QED BY <1>1, <1>2 DEF FreeDirty, PoolType

-----------------------------------------------------------------------------
(* Buffers come back.  Numbers of slots of an adapter are known in four     *)
(* places: with the advertising set and the scan of the device, in an event *)
(* that is not decoded, and in the call that is under way.                 *)
Owners == {"adv", "scan", "event", "call"}

EventRef(a) == IF events[a] = <<>> THEN Nothing ELSE Head(events[a]).has
CallRef(a)  == IF adapterId = a /\ holder \in Threads /\ call[holder].at = "send"
               THEN [ids |-> call[holder].ids, bufs |-> call[holder].bufs] ELSE Nothing
RefsOf(a)   == [adv |-> held[a].adv, scan |-> held[a].scan,
                event |-> EventRef(a), call |-> CallRef(a)]

SlotsOf(r) == {r.ids[1], r.ids[2]} \cap Slots

(* Each number is that of a slot with the buffer, and no slot has two      *)
(* owners.                                                                 *)
Kept(p, r) ==
    /\ \A k \in {1, 2} : \/ r.ids[k] = 0 /\ r.bufs[k] = NoBuffer
                         \/ r.ids[k] = Full
                         \/ /\ r.ids[k] \in Slots
                            /\ r.bufs[k] # NoBuffer /\ p[r.ids[k]].buf = r.bufs[k]
    /\ r.ids[1] \in Slots => r.ids[1] # r.ids[2]

Owned(p, R) ==
    /\ \A o \in Owners : Kept(p, R[o])
    /\ \A o, u \in Owners : o # u => SlotsOf(R[o]) \cap SlotsOf(R[u]) = {}

(* The slots with one buffer are in one state, so that FreeDirty frees the *)
(* dirty slots and no other, and scan buffers never become dirty.          *)
Sound(p) ==
    /\ \A i \in Slots : p[i].state = "free" <=> p[i].buf = NoBuffer
    /\ \A i, j \in Slots : p[i].buf = p[j].buf => p[i].state = p[j].state
    /\ \A i \in Slots : p[i].buf \in ScanBuffers => p[i].state = "in_use"

ForScan(r) == \A k \in {1, 2} : r.bufs[k] \in ScanBuffers \cup {NoBuffer}
NoFull(r)  == \A k \in {1, 2} : r.ids[k] # Full

DeviceInv(a) ==
    /\ NoFull(held[a].adv) /\ NoFull(held[a].scan) /\ NoFull(EventRef(a))
    /\ ForScan(held[a].scan)
    /\ events[a] # <<>> /\ Head(events[a]).kind = "scan" => ForScan(EventRef(a))

PoolInv(a) ==
    /\ Sound(pool[a])
    /\ Owned(pool[a], RefsOf(a))
    /\ DeviceInv(a)
    /\ \A i \in SlotsOf(CallRef(a)) : pool[a][i].state = "in_use"

(* What a call of each kind is made with.                                  *)
ForSet(bufs) == bufs[1] \notin ScanBuffers /\ bufs[2] \notin ScanBuffers

OpInv ==
    /\ \A t \in Threads : call[t].at \in InContext =>
          /\ adapterId \in Adapters
          /\ \/ call[t].op = "configure" /\ ForSet(call[t].bufs) /\ call[t].bufs \in AdvData
             \/ call[t].op = "scan_start" /\ ForScan(call[t]) /\ call[t].bufs[2] = NoBuffer
             \/ call[t].op = "scan_stop" /\ call[t].bufs = <<NoBuffer, NoBuffer>>
    /\ ForSet(advSetData) /\ ForSet(mp_out_params)

BackInv == None(Untimely) => returned = "own" /\ \A a \in Adapters : PoolInv(a)

(* In a sound pool the loop frees the dirty slots and no other.            *)
LEMMA FreeDirtyFacts ==
    ASSUME NEW p \in PoolType, Sound(p), NEW i \in Slots
    PROVE  FreeDirty(p)[i] = IF p[i].state = "last_dirty" THEN FreeSlot ELSE p[i]
<1> DEFINE same  == {j \in Slots : p[j].buf = p[i].buf /\ p[j].state # "free"}
           dirty == {j \in same : p[j].state = "last_dirty"}
           below == {j \in same : j < i}
<1>1. FreeDirty(p)[i] = IF Cardinality(below) < Cardinality(dirty) THEN FreeSlot ELSE p[i]
  BY DEF FreeDirty
<1>2. IsFiniteSet(same)
  <2>1. IsFiniteSet(Slots)
    BY PoolSizeAssumption, FS_Interval DEF Slots
  <2>2. same \in SUBSET Slots
    OBVIOUS
  <2>3. QED BY <2>1, <2>2, FS_Subset
<1>3. below \in SUBSET same /\ dirty \in SUBSET same
  OBVIOUS
<1>4. \A j \in same : p[j].state = p[i].state
  BY DEF Sound
<1>5. CASE p[i].state # "last_dirty"
  <2>1. dirty = {}
    BY <1>4, <1>5
  <2>2. Cardinality(dirty) = 0
    BY <2>1, FS_EmptySet
  <2>3. Cardinality(below) \in Nat
    BY <1>2, <1>3, FS_Subset, FS_CardinalityType
  <2> HIDE DEF same, dirty, below
  <2>4. ~(Cardinality(below) < Cardinality(dirty))
    BY <2>2, <2>3
  <2>5. QED BY <1>1, <1>5, <2>4
<1>6. CASE p[i].state = "last_dirty"
  <2>1. i \in same /\ dirty = same
    BY <1>4, <1>6
  <2>2. i \notin below
    BY NumberFacts
  <2>3. Cardinality(below) \in Nat /\ Cardinality(dirty) \in Nat
    BY <1>2, <1>3, FS_Subset, FS_CardinalityType
  <2> HIDE DEF same, dirty, below
  <2>4. Cardinality(below) <= Cardinality(same) /\ Cardinality(below) # Cardinality(same)
    BY <1>2, <1>3, <2>1, <2>2, FS_Subset
  <2>5. Cardinality(below) < Cardinality(dirty)
    BY <2>1, <2>3, <2>4
  <2>6. QED BY <1>1, <1>6, <2>5
<1>7. QED BY <1>5, <1>6

(* A pool stays sound when slots are freed.                                *)
LEMMA FreedSound ==
    ASSUME NEW p, Sound(p), NEW q, \A i \in Slots : q[i] = FreeSlot \/ q[i] = p[i]
    PROVE  Sound(q)
<1>1. FreeSlot.state = "free" /\ FreeSlot.buf = NoBuffer /\ NoBuffer \notin ScanBuffers
  BY NobodyAssumption, AdvDataAssumption DEF FreeSlot
<1>2. \A i \in Slots : q[i].state = "free" <=> q[i].buf = NoBuffer
  BY <1>1 DEF Sound
<1>3. \A i, j \in Slots : q[i].buf = q[j].buf => q[i].state = q[j].state
  <2> SUFFICES ASSUME NEW i \in Slots, NEW j \in Slots, q[i].buf = q[j].buf
               PROVE  q[i].state = q[j].state
    OBVIOUS
  <2>1. CASE q[i] = FreeSlot \/ q[j] = FreeSlot
    BY <1>1, <1>2, <2>1
  <2>2. CASE q[i] = p[i] /\ q[j] = p[j]
    BY <2>2 DEF Sound
  <2>3. QED BY <2>1, <2>2
<1>4. \A i \in Slots : q[i].buf \in ScanBuffers => q[i].state = "in_use"
  BY <1>1 DEF Sound
<1>5. QED BY <1>2, <1>3, <1>4 DEF Sound

(* What a configuration does to a sound pool: the buffers of the set before *)
(* become dirty, those of the set before that are freed.                   *)
LEMMA AfterConfigureType ==
    ASSUME NEW p \in PoolType
    PROVE  AfterConfigure(p) \in PoolType
<1>1. FreeDirty(p) \in PoolType
  BY FreeDirtyType
<1>2. MarkDirty(FreeDirty(p), advSetData[1]) \in PoolType
  BY <1>1, MarkDirtyFacts
<1>3. QED BY <1>2, MarkDirtyFacts DEF AfterConfigure

LEMMA AfterConfigureFacts ==
    ASSUME NEW p \in PoolType, Sound(p), ForSet(advSetData), NEW q, q = AfterConfigure(p)
    PROVE  /\ q \in PoolType /\ Sound(q)
           /\ \A i \in Slots : p[i].state = "in_use" => q[i].buf = p[i].buf
<1> DEFINE f == FreeDirty(p)
           m == MarkDirty(f, advSetData[1])
           its == {advSetData[1], advSetData[2]}
<1>1. \A i \in Slots : f[i] = IF p[i].state = "last_dirty" THEN FreeSlot ELSE p[i]
  BY FreeDirtyFacts
<1>2. f \in PoolType /\ m \in PoolType
  BY FreeDirtyType, MarkDirtyFacts
<1>3. \A i \in Slots : /\ m[i].buf = f[i].buf
                       /\ m[i].state = IF f[i].buf = advSetData[1] /\ f[i].state = "in_use"
                                       THEN "last_dirty" ELSE f[i].state
  BY <1>2, MarkDirtyFacts
<1>4. q \in PoolType
      /\ \A i \in Slots : /\ q[i].buf = m[i].buf
                          /\ q[i].state = IF m[i].buf = advSetData[2] /\ m[i].state = "in_use"
                                          THEN "last_dirty" ELSE m[i].state
  <2>1. q = MarkDirty(m, advSetData[2])
    BY DEF AfterConfigure
  <2> HIDE DEF m
  <2>2. QED BY <1>2, <2>1, MarkDirtyFacts
<1>5. \A i \in Slots : /\ q[i].buf = f[i].buf
                       /\ q[i].state = IF f[i].buf \in its /\ f[i].state = "in_use"
                                       THEN "last_dirty" ELSE f[i].state
  <2> HIDE DEF f, m
  <2>1. QED BY <1>3, <1>4
<1>6. Sound(f)
  <2>1. \A i \in Slots : f[i] = FreeSlot \/ f[i] = p[i]
    BY <1>1
  <2> HIDE DEF f
  <2>2. QED BY <2>1, FreedSound
<1> HIDE DEF f, m, its
<1>7. Sound(q)
  <2>1. \A i \in Slots : q[i].state = "free" <=> q[i].buf = NoBuffer
    BY <1>5, <1>6 DEF Sound
  <2>2. \A i, j \in Slots : q[i].buf = q[j].buf => q[i].state = q[j].state
    BY <1>5, <1>6 DEF Sound
  <2>3. \A i \in Slots : q[i].buf \in ScanBuffers => q[i].state = "in_use"
    BY <1>5, <1>6 DEF Sound, ForSet, its
  <2>4. QED BY <2>1, <2>2, <2>3 DEF Sound
<1>8. \A i \in Slots : p[i].state = "in_use" => q[i].buf = p[i].buf
  BY <1>1, <1>5
<1>9. QED BY <1>4, <1>7, <1>8

(* Numbers that go from one owner to another, each to one at most, are kept *)
(* as long as their slots keep their buffers.                              *)
LEMMA MovedRefs ==
    ASSUME NEW p, NEW R, Owned(p, R), NEW q, NEW Q, NEW from,
           \A o \in Owners :
              \/ Q[o] = Nothing
              \/ /\ from[o] \in Owners /\ Q[o] = R[from[o]]
                 /\ \A i \in SlotsOf(Q[o]) : q[i].buf = p[i].buf,
           \A o, u \in Owners : o # u /\ Q[o] # Nothing /\ Q[u] # Nothing => from[o] # from[u]
    PROVE  Owned(q, Q)
<1>1. Kept(q, Nothing) /\ SlotsOf(Nothing) = {}
  <2>1. Nothing.ids[1] = 0 /\ Nothing.ids[2] = 0 /\ Nothing.bufs[1] = NoBuffer /\ Nothing.bufs[2] = NoBuffer
    BY DEF Nothing
  <2>2. QED BY <2>1, NumberFacts DEF Kept, SlotsOf
<1>2. ASSUME NEW o \in Owners PROVE Kept(q, Q[o])
  <2>1. CASE Q[o] = Nothing
    BY <1>1, <2>1
  <2>2. CASE /\ from[o] \in Owners /\ Q[o] = R[from[o]]
             /\ \A i \in SlotsOf(Q[o]) : q[i].buf = p[i].buf
    <3> DEFINE r == Q[o]
    <3>1. Kept(p, r)
      BY <2>2 DEF Owned
    <3>2. \A i \in SlotsOf(r) : q[i].buf = p[i].buf
      BY <2>2
    <3> HIDE DEF r
    <3>3. \A k \in {1, 2} : r.ids[k] \in Slots => q[r.ids[k]].buf = p[r.ids[k]].buf
      BY <3>2 DEF SlotsOf
    <3>4. Kept(q, r)
      BY <3>1, <3>3 DEF Kept
    <3>5. QED BY <3>4 DEF r
  <2>3. QED BY <2>1, <2>2
<1>3. ASSUME NEW o \in Owners, NEW u \in Owners, o # u
      PROVE  SlotsOf(Q[o]) \cap SlotsOf(Q[u]) = {}
  <2>1. CASE Q[o] = Nothing \/ Q[u] = Nothing
    BY <1>1, <2>1
  <2>2. CASE Q[o] # Nothing /\ Q[u] # Nothing
    <3>1. from[o] \in Owners /\ from[u] \in Owners /\ from[o] # from[u]
          /\ Q[o] = R[from[o]] /\ Q[u] = R[from[u]]
      BY <1>3, <2>2
    <3>2. QED BY <3>1 DEF Owned
  <2>3. QED BY <2>1, <2>2
<1>4. QED BY <1>2, <1>3 DEF Owned

-----------------------------------------------------------------------------
(* The types, step by step.                                                *)
CallStages == InContext \cup {"idle", "unset", "stuck"}
CallType   == [at : CallStages, op : {"none", "configure", "scan_start", "scan_stop"},
               adapter : Adapters \cup {NoAdapter},
               bufs : Pointers \X Pointers, ids : (0..Full) \X (0..Full)]

LEMMA CallTypes ==
    ASSUME call \in [Threads -> CallType], NEW t \in Threads, NEW at \in CallStages,
           NEW ids \in (0..Full) \X (0..Full),
           \/ call' = [call EXCEPT ![t].at = at]
           \/ call' = [call EXCEPT ![t] = [@ EXCEPT !.at = at]]
           \/ call' = [call EXCEPT ![t].at = at, ![t].ids = ids]
    PROVE  call' \in [Threads -> CallType]
<1>1. call[t] \in CallType
  OBVIOUS
<1>2. CASE call' = [call EXCEPT ![t].at = at] \/ call' = [call EXCEPT ![t] = [@ EXCEPT !.at = at]]
  <2> DEFINE c == [call[t] EXCEPT !.at = at]
  <2>1. c \in CallType
    BY <1>1 DEF CallType
  <2>2. call' = [call EXCEPT ![t] = c]
    BY <1>2
  <2> HIDE DEF c
  <2>3. QED BY <2>1, <2>2
<1>3. CASE call' = [call EXCEPT ![t].at = at, ![t].ids = ids]
  <2> DEFINE c == [call[t] EXCEPT !.at = at, !.ids = ids]
  <2>1. c \in CallType
    BY <1>1 DEF CallType
  <2>2. call' = [call EXCEPT ![t] = c]
    BY <1>3
  <2> HIDE DEF c
  <2>3. QED BY <2>1, <2>2
<1>4. QED BY <1>2, <1>3

LEMMA NobodyCalls ==
    NoCall \in CallType /\ Nothing \in Ref
<1>1. NoBuffer \in Pointers /\ <<0, 0>> \in (0..Full) \X (0..Full)
  BY NumberFacts DEF Pointers
<1>2. QED BY <1>1 DEF NoCall, CallType, CallStages, InContext, Nothing, Ref

(* The call that Enter begins.                                             *)
LEMMA EnterFacts ==
    ASSUME NEW t \in Threads, Enter(t)
    PROVE  \E a \in Adapters : /\ adapterId' = a
              /\ \E c \in CallType :
                    /\ call' = [call EXCEPT ![t] = c] /\ c.at = "encode" /\ c.ids = <<0, 0>>
                    /\ \/ c.op = "configure" /\ c.bufs \in AdvData
                       \/ c.op = "scan_start" /\ c.bufs[1] \in ScanBuffers /\ c.bufs[2] = NoBuffer
                       \/ c.op = "scan_stop" /\ c.bufs = <<NoBuffer, NoBuffer>>
<1>1. PICK a \in Adapters :
          /\ adapterId' = a
          /\ \/ \E bufs \in AdvData :
                   call' = [call EXCEPT ![t] = [NoCall EXCEPT !.at = "encode", !.op = "configure",
                                                              !.adapter = a, !.bufs = bufs]]
             \/ \E b \in ScanBuffers :
                   call' = [call EXCEPT ![t] = [NoCall EXCEPT !.at = "encode", !.op = "scan_start",
                                                              !.adapter = a, !.bufs = <<b, NoBuffer>>]]
             \/ call' = [call EXCEPT ![t] = [NoCall EXCEPT !.at = "encode", !.op = "scan_stop",
                                                           !.adapter = a]]
  BY DEF Enter
<1>2. CASE \E bufs \in AdvData :
              call' = [call EXCEPT ![t] = [NoCall EXCEPT !.at = "encode", !.op = "configure",
                                                         !.adapter = a, !.bufs = bufs]]
  <2>1. PICK bufs \in AdvData :
              call' = [call EXCEPT ![t] = [NoCall EXCEPT !.at = "encode", !.op = "configure",
                                                         !.adapter = a, !.bufs = bufs]]
    BY <1>2
  <2> DEFINE c == [NoCall EXCEPT !.at = "encode", !.op = "configure", !.adapter = a, !.bufs = bufs]
  <2>2. bufs \in Pointers \X Pointers
    BY AdvDataAssumption
  <2>3. c \in CallType /\ c.at = "encode" /\ c.op = "configure" /\ c.bufs = bufs /\ c.ids = <<0, 0>>
    BY <2>2, NobodyCalls DEF NoCall, CallType, CallStages, InContext
  <2>4. call' = [call EXCEPT ![t] = c]
    BY <2>1
  <2> HIDE DEF c
  <2>5. QED BY <1>1, <2>3, <2>4
<1>3. CASE \E b \in ScanBuffers :
              call' = [call EXCEPT ![t] = [NoCall EXCEPT !.at = "encode", !.op = "scan_start",
                                                         !.adapter = a, !.bufs = <<b, NoBuffer>>]]
  <2>1. PICK b \in ScanBuffers :
              call' = [call EXCEPT ![t] = [NoCall EXCEPT !.at = "encode", !.op = "scan_start",
                                                         !.adapter = a, !.bufs = <<b, NoBuffer>>]]
    BY <1>3
  <2> DEFINE c == [NoCall EXCEPT !.at = "encode", !.op = "scan_start", !.adapter = a,
                                 !.bufs = <<b, NoBuffer>>]
  <2>2. b \in Pointers /\ NoBuffer \in Pointers
    BY AdvDataAssumption DEF Pointers
  <2>3. c \in CallType /\ c.at = "encode" /\ c.op = "scan_start"
        /\ c.bufs[1] = b /\ c.bufs[2] = NoBuffer /\ c.ids = <<0, 0>>
    BY <2>2, NobodyCalls DEF NoCall, CallType, CallStages, InContext
  <2>4. call' = [call EXCEPT ![t] = c]
    BY <2>1
  <2> HIDE DEF c
  <2>5. QED BY <1>1, <2>3, <2>4
<1>4. CASE call' = [call EXCEPT ![t] = [NoCall EXCEPT !.at = "encode", !.op = "scan_stop",
                                                      !.adapter = a]]
  <2> DEFINE c == [NoCall EXCEPT !.at = "encode", !.op = "scan_stop", !.adapter = a]
  <2>1. /\ c \in CallType /\ c.at = "encode" /\ c.op = "scan_stop"
        /\ c.bufs = <<NoBuffer, NoBuffer>> /\ c.ids = <<0, 0>>
    BY NobodyCalls DEF NoCall, CallType, CallStages, InContext
  <2>2. call' = [call EXCEPT ![t] = c]
    BY <1>4
  <2> HIDE DEF c
  <2>3. QED BY <1>1, <2>1, <2>2
<1>5. QED BY <1>1, <1>2, <1>3, <1>4

(* Reference by reference, what the device has and what an event carries.  *)
LEMMA HeldTypes ==
    ASSUME TypeInv, NEW a \in Adapters
    PROVE  /\ held[a] \in [adv : Ref, scan : Ref] /\ held[a].adv \in Ref /\ held[a].scan \in Ref
           /\ EventRef(a) \in Ref
           /\ \A t \in Threads : call[t] \in CallType
<1>1. held[a] \in [adv : Ref, scan : Ref]
  BY DEF TypeInv
<1>2. EventRef(a) \in Ref
  <2>1. CASE events[a] = <<>>
    BY <2>1, NobodyCalls DEF EventRef
  <2>2. CASE events[a] # <<>>
    <3>1. PICK e \in Pending : events[a] = <<e>>
      BY <2>2 DEF TypeInv
    <3>2. EventRef(a) = e.has
      BY <2>2, <3>1 DEF EventRef
    <3>3. QED BY <3>2 DEF Pending
  <2>3. QED BY <2>1, <2>2
<1>3. call \in [Threads -> CallType]
  BY DEF TypeInv, TypeOK, CallType, CallStages, InContext
<1>4. QED BY <1>1, <1>2, <1>3

LEMMA ExecutedType ==
    ASSUME TypeInv, NEW a \in Adapters, NEW t \in Threads
    PROVE  /\ Executed(a, call[t]) \in [Adapters -> [adv : Ref, scan : Ref]]
           /\ \A b \in Adapters \ {a} : Executed(a, call[t])[b] = held[b]
           /\ call[t].op = "configure" =>
                 /\ Executed(a, call[t])[a].adv = [ids |-> call[t].ids, bufs |-> call[t].bufs]
                 /\ Executed(a, call[t])[a].scan = held[a].scan
           /\ call[t].op # "configure" =>
                 /\ Executed(a, call[t])[a].adv = held[a].adv
                 /\ Executed(a, call[t])[a].scan =
                       IF call[t].op = "scan_start" THEN [ids |-> call[t].ids, bufs |-> call[t].bufs]
                       ELSE Nothing
<1> DEFINE its == [ids |-> call[t].ids, bufs |-> call[t].bufs]
           now == IF call[t].op = "scan_start" THEN its ELSE Nothing
           e   == Executed(a, call[t])
<1>1. call[t] \in CallType
  BY HeldTypes
<1>2. its \in Ref /\ now \in Ref
  BY <1>1, NobodyCalls DEF CallType, Ref
<1>3. held \in [Adapters -> [adv : Ref, scan : Ref]]
  BY DEF TypeInv
<1>4. /\ call[t].op = "configure" => e = [held EXCEPT ![a].adv = its]
      /\ call[t].op # "configure" => e = [held EXCEPT ![a].scan = now]
  BY DEF Executed
<1> HIDE DEF its, now, e
<1>5. /\ e \in [Adapters -> [adv : Ref, scan : Ref]]
      /\ \A b \in Adapters \ {a} : e[b] = held[b]
      /\ call[t].op = "configure" => e[a].adv = its /\ e[a].scan = held[a].scan
      /\ call[t].op # "configure" => e[a].adv = held[a].adv /\ e[a].scan = now
  <2>1. CASE call[t].op = "configure"
    <3> DEFINE h == [held[a] EXCEPT !.adv = its]
    <3>1. h \in [adv : Ref, scan : Ref] /\ h.adv = its /\ h.scan = held[a].scan
      BY <1>2, <1>3
    <3>2. e = [held EXCEPT ![a] = h]
      BY <1>4, <2>1
    <3> HIDE DEF h
    <3>3. QED BY <1>3, <2>1, <3>1, <3>2
  <2>2. CASE call[t].op # "configure"
    <3> DEFINE h == [held[a] EXCEPT !.scan = now]
    <3>1. h \in [adv : Ref, scan : Ref] /\ h.adv = held[a].adv /\ h.scan = now
      BY <1>2, <1>3
    <3>2. e = [held EXCEPT ![a] = h]
      BY <1>4, <2>2
    <3> HIDE DEF h
    <3>3. QED BY <1>3, <2>2, <3>1, <3>2
  <2>3. QED BY <2>1, <2>2
<1>6. QED BY <1>5 DEF its, now, e

LEMMA InitTypeInv == Init => TypeInv
<1> SUFFICES ASSUME Init PROVE TypeInv
  OBVIOUS
<1>1. NoBuffer \in Pointers /\ 0 \in 0..PoolSize
  BY NumberFacts DEF Pointers
<1>2. pool \in [Adapters -> PoolType]
  <2>1. FreeSlot \in [state : {"free", "in_use", "last_dirty"}, buf : Pointers]
    BY <1>1 DEF FreeSlot
  <2>2. [i \in Slots |-> FreeSlot] \in PoolType
    BY <2>1 DEF PoolType
  <2>3. QED BY <2>2 DEF Init
<1>3. call \in [Threads -> CallType]
  BY NobodyCalls DEF Init
<1>4. TypeOK
  BY <1>1, <1>2, <1>3 DEF Init, TypeOK, PoolType, CallType, CallStages, InContext
<1>5. held \in [Adapters -> [adv : Ref, scan : Ref]]
  BY NobodyCalls DEF Init
<1>6. events \in [Adapters -> {<<>>} \cup {<<e>> : e \in Pending}]
  BY DEF Init
<1>7. \A t \in Threads : call[t].at \notin InContext
  BY DEF Init, NoCall, InContext
<1>8. QED BY <1>4, <1>5, <1>6, <1>7 DEF TypeInv

LEMMA TypeParts ==
    ASSUME pool' \in [Adapters -> PoolType], scanDataId' \in [Adapters -> 0..PoolSize],
           advSetData' \in Pointers \X Pointers, mp_out_params' \in Pointers \X Pointers,
           holder' \in Threads \cup {NoThread}, adapterId' \in Adapters \cup {NoAdapter},
           call' \in [Threads -> CallType], returned' \in {"own", "another"},
           mishaps' \subseteq Mishaps,
           held' \in [Adapters -> [adv : Ref, scan : Ref]],
           events' \in [Adapters -> {<<>>} \cup {<<e>> : e \in Pending}],
           \A t \in Threads : call'[t].at \in InContext => adapterId' \in Adapters
    PROVE  TypeInv'
<1>1. pool' \in [Adapters -> [Slots -> [state : {"free", "in_use", "last_dirty"}, buf : Pointers]]]
  BY DEF PoolType
<1>2. call' \in [Threads -> [at : {"idle", "encode", "send", "leave", "leave_unset", "unset", "stuck"},
                             op : {"none", "configure", "scan_start", "scan_stop"},
                             adapter : Adapters \cup {NoAdapter},
                             bufs : Pointers \X Pointers, ids : (0..Full) \X (0..Full)]]
  <2>1. CallStages = {"idle", "encode", "send", "leave", "leave_unset", "unset", "stuck"}
    BY DEF CallStages, InContext
  <2>2. QED BY <2>1 DEF CallType
<1>3. TypeOK'
  BY <1>1, <1>2 DEF TypeOK
<1>4. QED BY <1>3 DEF TypeInv

LEMMA VarTypes ==
    ASSUME TypeInv
    PROVE  /\ pool \in [Adapters -> PoolType] /\ scanDataId \in [Adapters -> 0..PoolSize]
           /\ advSetData \in Pointers \X Pointers /\ mp_out_params \in Pointers \X Pointers
           /\ holder \in Threads \cup {NoThread} /\ adapterId \in Adapters \cup {NoAdapter}
           /\ call \in [Threads -> CallType] /\ returned \in {"own", "another"}
           /\ mishaps \subseteq Mishaps
           /\ held \in [Adapters -> [adv : Ref, scan : Ref]]
           /\ events \in [Adapters -> {<<>>} \cup {<<e>> : e \in Pending}]
<1>1. pool \in [Adapters -> PoolType]
  BY DEF TypeInv, TypeOK, PoolType
<1>2. call \in [Threads -> CallType]
  <2>1. CallStages = {"idle", "encode", "send", "leave", "leave_unset", "unset", "stuck"}
    BY DEF CallStages, InContext
  <2>2. QED BY <2>1 DEF CallType, TypeInv, TypeOK
<1>3. QED BY <1>1, <1>2 DEF TypeInv, TypeOK

(* Who is in the context after a step, when the adapter of the context     *)
(* stays.                                                                  *)
LEMMA SameContext ==
    ASSUME TypeInv, NEW t \in Threads, NEW at, Moves(t, at), adapterId' = adapterId,
           at \in InContext => call[t].at \in InContext
    PROVE  \A u \in Threads : call'[u].at \in InContext => adapterId' \in Adapters
  BY DEF TypeInv, Moves

LEMMA HappensTypes ==
    ASSUME mishaps \subseteq Mishaps, NEW what, what \subseteq Mishaps, Happens(what)
    PROVE  mishaps' \subseteq Mishaps /\ mishaps' = mishaps \cup what
  BY DEF Happens

(* The two registrations of Encode, one after the other.                   *)
Pool1(t) == Register(pool[adapterId], call[t].bufs[1])
Pool2(t) == Register(Pool1(t), call[t].bufs[2])
NewIds(t) == <<RegisterId(pool[adapterId], call[t].bufs[1]), RegisterId(Pool1(t), call[t].bufs[2])>>

LEMMA EncodeFacts ==
    ASSUME TypeInv, NEW t \in Threads, Encode(t)
    PROVE  /\ adapterId \in Adapters
           /\ call[t].bufs[1] \in Pointers /\ call[t].bufs[2] \in Pointers
           /\ Pool1(t) \in PoolType /\ Pool2(t) \in PoolType
           /\ pool' = [pool EXCEPT ![adapterId] = Pool2(t)]
           /\ NewIds(t) \in (0..Full) \X (0..Full)
           /\ call' = [call EXCEPT ![t].at = "send", ![t].ids = NewIds(t)]
<1>1. call[t].at = "encode" /\ adapterId \in Adapters
  BY DEF Encode, TypeInv, InContext
<1>2. pool[adapterId] \in PoolType /\ call[t] \in CallType
  BY <1>1, VarTypes
<1>3. call[t].bufs[1] \in Pointers /\ call[t].bufs[2] \in Pointers
  BY <1>2 DEF CallType
<1>4. Pool1(t) \in PoolType /\ RegisterId(pool[adapterId], call[t].bufs[1]) \in 0..Full
  BY <1>2, <1>3, RegisterFacts DEF Pool1
<1>5. Pool2(t) \in PoolType /\ RegisterId(Pool1(t), call[t].bufs[2]) \in 0..Full
  BY <1>3, <1>4, RegisterFacts DEF Pool2
<1>6. NewIds(t) \in (0..Full) \X (0..Full)
  BY <1>4, <1>5 DEF NewIds
<1>7. /\ pool' = [pool EXCEPT ![adapterId] = Pool2(t)]
      /\ call' = [call EXCEPT ![t].at = "send", ![t].ids = NewIds(t)]
  BY DEF Encode, Pool1, Pool2, NewIds
<1>8. QED BY <1>1, <1>3, <1>4, <1>5, <1>6, <1>7

LEMMA StepTypeInv == TypeInv /\ IInv /\ [Next]_vars => TypeInv'
<1> SUFFICES ASSUME TypeInv, IInv, [Next]_vars PROVE TypeInv'
  OBVIOUS
<1>0. /\ pool \in [Adapters -> PoolType] /\ scanDataId \in [Adapters -> 0..PoolSize]
      /\ advSetData \in Pointers \X Pointers /\ mp_out_params \in Pointers \X Pointers
      /\ holder \in Threads \cup {NoThread} /\ adapterId \in Adapters \cup {NoAdapter}
      /\ call \in [Threads -> CallType] /\ returned \in {"own", "another"}
      /\ mishaps \subseteq Mishaps
      /\ held \in [Adapters -> [adv : Ref, scan : Ref]]
      /\ events \in [Adapters -> {<<>>} \cup {<<e>> : e \in Pending}]
      /\ CallShape
  BY VarTypes DEF IInv
<1>00. \A t \in Threads : call[t].ids \in (0..Full) \X (0..Full) /\ call[t] \in CallType
  BY <1>0 DEF CallType
<1>1. ASSUME NEW t \in Threads, Enter(t) PROVE TypeInv'
  <2>1. PICK a \in Adapters, c \in CallType : adapterId' = a /\ call' = [call EXCEPT ![t] = c]
    BY <1>1, EnterFacts
  <2>2. call' \in [Threads -> CallType]
    BY <1>0, <2>1
  <2>3. holder' = t /\ UNCHANGED <<pool, scanDataId, advSetData, mp_out_params, held, events, returned, mishaps>>
    BY <1>1 DEF Enter
  <2>4. QED BY <1>0, <2>1, <2>2, <2>3, TypeParts
<1>2. ASSUME NEW t \in Threads, Encode(t) PROVE TypeInv'
  <2>1. /\ adapterId \in Adapters /\ Pool2(t) \in PoolType
        /\ pool' = [pool EXCEPT ![adapterId] = Pool2(t)]
        /\ NewIds(t) \in (0..Full) \X (0..Full)
        /\ call' = [call EXCEPT ![t].at = "send", ![t].ids = NewIds(t)]
    BY <1>2, EncodeFacts
  <2>2. pool' \in [Adapters -> PoolType]
    BY <1>0, <2>1
  <2>3. call' \in [Threads -> CallType]
    BY <1>0, <2>1, CallTypes DEF CallStages, InContext
  <2>4. scanDataId' \in [Adapters -> 0..PoolSize]
    <3> DEFINE same == {i \in Slots : Pool2(t)[i].buf = call[t].bufs[1]}
    <3>1. scanDataId' = scanDataId
          \/ scanDataId' = [scanDataId EXCEPT ![adapterId] = IF same = {} THEN 0 ELSE LowestOf(same)]
      BY <1>2 DEF Encode, Pool1, Pool2
    <3>2. (IF same = {} THEN 0 ELSE LowestOf(same)) \in 0..PoolSize
      <4>1. CASE same = {}
        BY <4>1, NumberFacts
      <4>2. CASE same # {}
        <5>1. LowestOf(same) \in same
          BY <4>2, LowestIn
        <5>2. QED BY <4>2, <5>1, NumberFacts
      <4>3. QED BY <4>1, <4>2
    <3> HIDE DEF same
    <3>3. QED BY <1>0, <3>1, <3>2
  <2>5. mp_out_params' \in Pointers \X Pointers
    BY <1>0, <1>2 DEF Encode, CallType
  <2>6. mishaps' \subseteq Mishaps
    BY <1>0, <1>2, HappensTypes DEF Encode, Mishaps
  <2>7. UNCHANGED <<advSetData, holder, adapterId, held, events, returned>>
    BY <1>2 DEF Encode
  <2>8. \A u \in Threads : call'[u].at \in InContext => adapterId' \in Adapters
    BY <2>1, <2>7
  <2>9. QED BY <1>0, <2>2, <2>3, <2>4, <2>5, <2>6, <2>7, <2>8, TypeParts
<1>3. ASSUME NEW t \in Threads, Respond(t) PROVE TypeInv'
  <2>1. PICK at \in {"leave", "leave_unset"} : call' = [call EXCEPT ![t].at = at]
    BY <1>3 DEF Respond
  <2>2. at \in InContext /\ at \in CallStages /\ call[t].at \in InContext /\ adapterId \in Adapters
    BY <1>3 DEF Respond, InContext, CallStages, TypeInv
  <2>3. call' \in [Threads -> CallType]
    BY <1>0, <1>00, <2>1, <2>2, CallTypes
  <2>4. pool' \in [Adapters -> PoolType] /\ advSetData' \in Pointers \X Pointers
    <3>1. \/ pool' = [pool EXCEPT ![adapterId] = AfterConfigure(pool[adapterId])] /\ advSetData' = mp_out_params
          \/ pool' = pool /\ advSetData' = advSetData
      BY <1>3 DEF Respond
    <3>2. AfterConfigure(pool[adapterId]) \in PoolType
      BY <1>0, <2>2, AfterConfigureType
    <3>3. QED BY <1>0, <3>1, <3>2
  <2>5. held' \in [Adapters -> [adv : Ref, scan : Ref]]
    <3>1. held' = held \/ held' = Executed(adapterId, call[t])
      BY <1>3 DEF Respond
    <3>2. Executed(adapterId, call[t]) \in [Adapters -> [adv : Ref, scan : Ref]]
      BY <2>2, ExecutedType
    <3>3. QED BY <1>0, <3>1, <3>2
  <2>6. mishaps' \subseteq Mishaps
    <3>1. PICK success \in BOOLEAN : Happens(MishapsOf(adapterId, call[t], success))
      BY <1>3 DEF Respond
    <3>2. MishapsOf(adapterId, call[t], success) \subseteq Mishaps
      BY DEF MishapsOf
    <3>3. QED BY <1>0, <3>1, <3>2, HappensTypes
  <2>7. UNCHANGED <<scanDataId, mp_out_params, holder, adapterId, events, returned>>
    BY <1>3 DEF Respond
  <2>8. QED BY <1>0, <2>2, <2>3, <2>4, <2>5, <2>6, <2>7, TypeParts
<1>4. ASSUME NEW t \in Threads, SendFails(t) \/ RespondGarbage(t) PROVE TypeInv'
  <2>1. PICK at \in {"leave", "stuck"} : call' = [call EXCEPT ![t].at = at]
    BY <1>4 DEF SendFails, RespondGarbage
  <2>2. at \in CallStages /\ call[t].at \in InContext /\ adapterId \in Adapters
    BY <1>4 DEF SendFails, RespondGarbage, InContext, CallStages, TypeInv
  <2>3. call' \in [Threads -> CallType]
    BY <1>0, <1>00, <2>1, <2>2, CallTypes
  <2>4. held' \in [Adapters -> [adv : Ref, scan : Ref]]
    <3>1. held' = held \/ held' = Executed(adapterId, call[t])
      BY <1>4 DEF SendFails, RespondGarbage
    <3>2. Executed(adapterId, call[t]) \in [Adapters -> [adv : Ref, scan : Ref]]
      BY <2>2, ExecutedType
    <3>3. QED BY <1>0, <3>1, <3>2
  <2>5. mishaps' \subseteq Mishaps
    <3>1. Happens({"command failed"}) /\ {"command failed"} \subseteq Mishaps
      BY <1>4 DEF SendFails, RespondGarbage, Mishaps
    <3>2. QED BY <1>0, <3>1, HappensTypes
  <2>6. UNCHANGED <<pool, scanDataId, advSetData, mp_out_params, holder, adapterId, events, returned>>
    BY <1>4 DEF SendFails, RespondGarbage
  <2>7. QED BY <1>0, <2>2, <2>3, <2>4, <2>5, <2>6, TypeParts
<1>5. ASSUME NEW t \in Threads, Leave(t) PROVE TypeInv'
  <2>1. /\ call[t].at \in {"leave", "leave_unset"}
        /\ holder' = NoThread /\ adapterId' = NoAdapter
        /\ UNCHANGED <<pool, scanDataId, advSetData, mp_out_params, held, events, returned, mishaps>>
    BY <1>5 DEF Leave
  <2>2. /\ call' \in [Threads -> CallType]
        /\ call'[t].at \notin InContext
        /\ \A u \in Threads \ {t} : call'[u] = call[u]
    <3>1. CASE call[t].at = "leave"
      <4>1. call' = [call EXCEPT ![t] = NoCall] /\ NoCall.at = "idle"
        BY <1>5, <3>1 DEF Leave, NoCall
      <4>2. QED BY <1>0, <4>1, NobodyCalls DEF InContext
    <3>2. CASE call[t].at = "leave_unset"
      <4>1. call' = [call EXCEPT ![t] = [@ EXCEPT !.at = "unset"]]
        BY <1>5, <3>2 DEF Leave
      <4>2. CallShape' /\ Moves(t, "unset")
        BY <1>0, <4>1, MoveFacts
      <4>3. "unset" \in CallStages /\ "unset" \notin InContext
        BY DEF CallStages, InContext
      <4>4. call' \in [Threads -> CallType]
        BY <1>0, <1>00, <4>1, <4>3, CallTypes
      <4>5. QED BY <4>2, <4>3, <4>4 DEF Moves
    <3>3. QED BY <2>1, <3>1, <3>2
  <2>3. \A u \in Threads : call'[u].at \notin InContext
    BY <2>1, <2>2 DEF IInv, HolderInv, InContext
  <2>4. QED BY <1>0, <2>1, <2>2, <2>3, TypeParts
<1>6. ASSUME NEW t \in Threads, ScanStopUnset(t) PROVE TypeInv'
  <2>1. PICK c : /\ call' = [call EXCEPT ![t] = c] /\ c \in CallType /\ c.at \notin InContext
    <3>1. CASE UnsetHangs
      <4> DEFINE c == [call[t] EXCEPT !.at = "stuck"]
      <4>1. call' = [call EXCEPT ![t] = c]
        BY <1>6, <3>1 DEF ScanStopUnset
      <4>2. c \in CallType /\ c.at \notin InContext
        BY <1>00 DEF CallType, CallStages, InContext
      <4>3. QED BY <4>1, <4>2
    <3>2. CASE ~UnsetHangs
      <4>1. call' = [call EXCEPT ![t] = NoCall]
        BY <1>6, <3>2 DEF ScanStopUnset
      <4>2. NoCall.at \notin InContext
        BY DEF NoCall, InContext
      <4>3. QED BY <4>1, <4>2, NobodyCalls
    <3>3. QED BY <3>1, <3>2
  <2>2. UNCHANGED <<pool, scanDataId, advSetData, mp_out_params, holder, adapterId, held, events,
                    returned, mishaps>>
    BY <1>6 DEF ScanStopUnset
  <2>3. call' \in [Threads -> CallType] /\ call'[t] = c /\ \A u \in Threads \ {t} : call'[u] = call[u]
    BY <1>0, <2>1
  <2>4. \A u \in Threads : call'[u].at \in InContext => adapterId' \in Adapters
    BY <2>1, <2>2, <2>3 DEF TypeInv
  <2>5. QED BY <1>0, <2>2, <2>3, <2>4, TypeParts
<1>7. ASSUME NEW a \in Adapters, NEW kind \in {"adv", "scan"}, SendEvent(a, kind) PROVE TypeInv'
  <2> DEFINE e == [kind |-> kind, has |-> held[a][kind]]
             h == [held[a] EXCEPT ![kind] = Nothing]
  <2>1. e \in Pending /\ h \in [adv : Ref, scan : Ref]
    <3>1. held[a] \in [adv : Ref, scan : Ref] /\ held[a][kind] \in Ref
      BY <1>0
    <3>2. QED BY <3>1, NobodyCalls DEF Pending
  <2>2. events' = [events EXCEPT ![a] = <<e>>] /\ held' = [held EXCEPT ![a] = h]
    BY <1>7 DEF SendEvent
  <2>3. UNCHANGED <<pool, scanDataId, advSetData, mp_out_params, holder, adapterId, call, returned,
                    mishaps>>
    BY <1>7 DEF SendEvent
  <2> HIDE DEF e, h
  <2>4. events' \in [Adapters -> {<<>>} \cup {<<d>> : d \in Pending}]
        /\ held' \in [Adapters -> [adv : Ref, scan : Ref]]
    BY <1>0, <2>1, <2>2
  <2>5. \A u \in Threads : call'[u].at \in InContext => adapterId' \in Adapters
    BY <2>3 DEF TypeInv
  <2>6. QED BY <1>0, <2>3, <2>4, <2>5, TypeParts
<1>8. ASSUME NEW a \in Adapters, DecodeEvent(a) PROVE TypeInv'
  <2> DEFINE has == Head(events[a]).has
             q   == Unregister(Unregister(pool[a], has.ids[1]), has.ids[2])
  <2>1. q \in PoolType
    <3>1. pool[a] \in PoolType
      BY <1>0
    <3>2. Unregister(pool[a], has.ids[1]) \in PoolType
      BY <3>1, UnregisterFacts
    <3>3. QED BY <3>2, UnregisterFacts
  <2>2. pool' = [pool EXCEPT ![a] = q] /\ events' = [events EXCEPT ![a] = <<>>]
        /\ returned' \in {"own", "another"}
        /\ UNCHANGED <<advSetData, mp_out_params, holder, adapterId, call, held, mishaps>>
    BY <1>8 DEF DecodeEvent
  <2>3. scanDataId' \in [Adapters -> 0..PoolSize]
    <3>1. scanDataId' = scanDataId \/ scanDataId' = [scanDataId EXCEPT ![adapterId] = 0]
      BY <1>8 DEF DecodeEvent
    <3>2. QED BY <1>0, <3>1, NumberFacts
  <2> HIDE DEF has, q
  <2>4. pool' \in [Adapters -> PoolType] /\ events' \in [Adapters -> {<<>>} \cup {<<d>> : d \in Pending}]
    BY <1>0, <2>1, <2>2
  <2>5. \A u \in Threads : call'[u].at \in InContext => adapterId' \in Adapters
    BY <2>2 DEF TypeInv
  <2>6. QED BY <1>0, <2>2, <2>3, <2>4, <2>5, TypeParts
<1>9. CASE UNCHANGED vars
  <2>1. UNCHANGED <<pool, scanDataId, advSetData, mp_out_params, holder, adapterId, call, held, events,
                    returned, mishaps>>
    BY <1>9 DEF vars
  <2>2. \A u \in Threads : call'[u].at \in InContext => adapterId' \in Adapters
    BY <2>1 DEF TypeInv
  <2>3. QED BY <1>0, <2>1, <2>2, TypeParts
<1>10. QED
  <2>1. CASE \E t \in Threads : Call(t)
    BY <2>1, <1>1, <1>2, <1>3, <1>4, <1>5, <1>6 DEF Call
  <2>2. CASE \E a \in Adapters : Event(a)
    BY <2>2, <1>7, <1>8 DEF Event
  <2>3. QED BY <1>9, <2>1, <2>2 DEF Next

-----------------------------------------------------------------------------
(* The buffers a call is made with, as they pass through mp_out_params to  *)
(* the set.  Buffers of advertising are not buffers of scanning.           *)
Apart == \A bufs \in AdvData : ForSet(bufs)

LEMMA InitOpInv == Init => OpInv
<1> SUFFICES ASSUME Init PROVE OpInv
  OBVIOUS
<1>1. \A t \in Threads : call[t].at \notin InContext
  BY DEF Init, NoCall, InContext
<1>2. ForSet(advSetData) /\ ForSet(mp_out_params)
  BY NobodyAssumption, AdvDataAssumption DEF Init, ForSet
<1>3. QED BY <1>1, <1>2 DEF OpInv

LEMMA OpStep ==
    ASSUME OpInv, NEW t \in Threads, NEW at, Moves(t, at), adapterId' = adapterId,
           at \in InContext => call[t].at \in InContext,
           ForSet(advSetData'), ForSet(mp_out_params')
    PROVE  OpInv'
<1>1. ASSUME NEW u \in Threads, call'[u].at \in InContext
      PROVE  /\ adapterId' \in Adapters
             /\ \/ call'[u].op = "configure" /\ ForSet(call'[u].bufs) /\ call'[u].bufs \in AdvData
                \/ call'[u].op = "scan_start" /\ ForScan(call'[u]) /\ call'[u].bufs[2] = NoBuffer
                \/ call'[u].op = "scan_stop" /\ call'[u].bufs = <<NoBuffer, NoBuffer>>
  <2>1. call[u].at \in InContext /\ call'[u].op = call[u].op /\ call'[u].bufs = call[u].bufs
    BY <1>1 DEF Moves
  <2>2. ForScan(call'[u]) <=> ForScan(call[u])
    BY <2>1 DEF ForScan
  <2>3. QED BY <2>1, <2>2 DEF OpInv
<1>2. QED BY <1>1 DEF OpInv

(* Two steps after which a thread is not in the context.                   *)
LEMMA UnsetFacts ==
    ASSUME CallShape, NEW t \in Threads, ScanStopUnset(t)
    PROVE  call'[t].at \notin InContext /\ \A u \in Threads \ {t} : call'[u] = call[u]
<1>1. CASE UnsetHangs
  <2>1. call' = [call EXCEPT ![t] = [@ EXCEPT !.at = "stuck"]]
    BY <1>1 DEF ScanStopUnset
  <2>2. Moves(t, "stuck")
    BY <2>1, MoveFacts
  <2>3. QED BY <2>2 DEF Moves, InContext
<1>2. CASE ~UnsetHangs
  <2>1. call' = [call EXCEPT ![t] = NoCall] /\ NoCall.at = "idle"
    BY <1>2 DEF ScanStopUnset, NoCall
  <2>2. call'[t].at = "idle" /\ \A u \in Threads \ {t} : call'[u] = call[u]
    BY <2>1 DEF CallShape
  <2>3. QED BY <2>2 DEF InContext
<1>3. QED BY <1>1, <1>2

LEMMA LeaveFacts ==
    ASSUME CallShape, NEW t \in Threads, Leave(t)
    PROVE  call'[t].at \notin InContext /\ \A u \in Threads \ {t} : call'[u] = call[u]
<1>0. call[t].at \in {"leave", "leave_unset"}
  BY DEF Leave
<1>1. CASE call[t].at = "leave"
  <2>1. call' = [call EXCEPT ![t] = NoCall] /\ NoCall.at = "idle"
    BY <1>1 DEF Leave, NoCall
  <2>2. call'[t].at = "idle" /\ \A u \in Threads \ {t} : call'[u] = call[u]
    BY <2>1 DEF CallShape
  <2>3. QED BY <2>2 DEF InContext
<1>2. CASE call[t].at = "leave_unset"
  <2>1. call' = [call EXCEPT ![t] = [@ EXCEPT !.at = "unset"]]
    BY <1>2 DEF Leave
  <2>2. Moves(t, "unset")
    BY <2>1, MoveFacts
  <2>3. QED BY <2>2 DEF Moves, InContext
<1>3. QED BY <1>0, <1>1, <1>2

LEMMA StepOpInv ==
    ASSUME Apart, TypeInv, IInv, OpInv, [Next]_vars
    PROVE  OpInv'
<1>0. CallShape /\ ForSet(advSetData) /\ ForSet(mp_out_params)
  BY DEF IInv, OpInv
<1>1. ASSUME NEW t \in Threads, Enter(t) PROVE OpInv'
  <2>1. PICK a \in Adapters, c \in CallType :
           /\ adapterId' = a /\ call' = [call EXCEPT ![t] = c]
           /\ \/ c.op = "configure" /\ c.bufs \in AdvData
              \/ c.op = "scan_start" /\ c.bufs[1] \in ScanBuffers /\ c.bufs[2] = NoBuffer
              \/ c.op = "scan_stop" /\ c.bufs = <<NoBuffer, NoBuffer>>
    BY <1>1, EnterFacts
  <2>2. call'[t] = c /\ \A u \in Threads \ {t} : call'[u] = call[u]
    BY <2>1, <1>0 DEF CallShape
  <2>3. \A u \in Threads : call[u].at \notin InContext
    BY <1>1, NobodyAssumption DEF Enter, CodecMutexFree, IInv, HolderInv
  <2>4. c.op = "configure" => ForSet(c.bufs)
    BY <2>1 DEF Apart
  <2>5. c.op = "scan_start" => ForScan(c)
    BY <2>1 DEF ForScan
  <2>6. UNCHANGED <<advSetData, mp_out_params>>
    BY <1>1 DEF Enter
  <2>7. QED BY <1>0, <2>1, <2>2, <2>3, <2>4, <2>5, <2>6 DEF OpInv
<1>2. ASSUME NEW t \in Threads, Encode(t) PROVE OpInv'
  <2>1. call' = [call EXCEPT ![t].at = "send", ![t].ids = NewIds(t)]
    BY <1>2, EncodeFacts
  <2>2. Moves(t, "send")
    BY <1>0, <2>1, MoveFacts
  <2>3. call[t].at \in InContext /\ adapterId' = adapterId /\ advSetData' = advSetData
        /\ mp_out_params' = IF call[t].op = "configure" THEN call[t].bufs ELSE mp_out_params
    BY <1>2 DEF Encode, InContext
  <2>4. ForSet(mp_out_params')
    BY <1>0, <2>3 DEF OpInv
  <2>5. QED BY <1>0, <2>2, <2>3, <2>4, OpStep
<1>3. ASSUME NEW t \in Threads, Respond(t) \/ SendFails(t) \/ RespondGarbage(t) PROVE OpInv'
  <2>1. PICK at : call' = [call EXCEPT ![t].at = at]
    BY <1>3 DEF Respond, SendFails, RespondGarbage
  <2>2. Moves(t, at)
    BY <1>0, <2>1, MoveFacts
  <2>3. call[t].at \in InContext /\ adapterId' = adapterId /\ mp_out_params' = mp_out_params
    BY <1>3 DEF Respond, SendFails, RespondGarbage, InContext
  <2>4. advSetData' = advSetData \/ advSetData' = mp_out_params
    BY <1>3 DEF Respond, SendFails, RespondGarbage
  <2>5. QED BY <1>0, <2>2, <2>3, <2>4, OpStep
<1>4. ASSUME NEW t \in Threads, Leave(t) PROVE OpInv'
  <2>1. call[t].at \in {"leave", "leave_unset"} /\ UNCHANGED <<advSetData, mp_out_params>>
    BY <1>4 DEF Leave
  <2>2. call'[t].at \notin InContext /\ \A u \in Threads \ {t} : call'[u] = call[u]
    BY <1>0, <1>4, LeaveFacts
  <2>3. \A u \in Threads : call'[u].at \notin InContext
    BY <2>1, <2>2 DEF IInv, HolderInv, InContext
  <2>4. QED BY <1>0, <2>1, <2>3 DEF OpInv
<1>5. ASSUME NEW t \in Threads, ScanStopUnset(t) PROVE OpInv'
  <2>1. UNCHANGED <<adapterId, advSetData, mp_out_params>>
    BY <1>5 DEF ScanStopUnset
  <2>2. call'[t].at \notin InContext /\ \A u \in Threads \ {t} : call'[u] = call[u]
    BY <1>0, <1>5, UnsetFacts
  <2>3. QED BY <1>0, <2>1, <2>2 DEF OpInv
<1>6. CASE (\E a \in Adapters : Event(a)) \/ UNCHANGED vars
  <2>1. UNCHANGED <<call, adapterId, advSetData, mp_out_params>>
    BY <1>6 DEF Event, SendEvent, DecodeEvent, vars
  <2>2. QED BY <1>0, <2>1 DEF OpInv
<1>7. QED BY <1>1, <1>2, <1>3, <1>4, <1>5, <1>6 DEF Next, Call

-----------------------------------------------------------------------------
(* The pool of an adapter, step by step.                                   *)

(* The reference of the call that is under way.                            *)
LEMMA CallRefIs ==
    ASSUME IInv, NEW t \in Threads, call[t].at = "send"
    PROVE  /\ CallRef(adapterId) = [ids |-> call[t].ids, bufs |-> call[t].bufs]
           /\ \A b : b # adapterId => CallRef(b) = Nothing
<1>1. holder = t
  BY DEF IInv, HolderInv, InContext
<1>2. QED BY <1>1 DEF CallRef

LEMMA NoCallRef ==
    ASSUME \A t \in Threads : call[t].at # "send", NEW b
    PROVE  CallRef(b) = Nothing
  BY DEF CallRef

LEMMA NobodyElse ==
    ASSUME IInv, NEW t \in Threads, call[t].at \in InContext
    PROVE  \A u \in Threads \ {t} : call[u].at \notin InContext
  BY DEF IInv, HolderInv

(* An adapter that a step leaves alone.                                    *)
LEMMA PoolSame ==
    ASSUME NEW a, PoolInv(a), pool'[a] = pool[a], held'[a] = held[a], events'[a] = events[a],
           CallRef(a)' = CallRef(a)
    PROVE  PoolInv(a)'
<1>1. EventRef(a)' = EventRef(a)
  BY DEF EventRef
<1>2. RefsOf(a)' = RefsOf(a)
  BY <1>1 DEF RefsOf
<1>3. DeviceInv(a)'
  BY <1>1 DEF PoolInv, DeviceInv
<1>4. QED BY <1>2, <1>3 DEF PoolInv

(* What Encode does: slots that were free get the buffers, one each.        *)
LEMMA TwoSlots ==
    ASSUME NEW p \in PoolType, NEW b1 \in Pointers, NEW b2 \in Pointers,
           NEW p1, p1 = Register(p, b1), NEW q, q = Register(p1, b2),
           NEW i1, i1 = RegisterId(p, b1), NEW i2, i2 = RegisterId(p1, b2)
    PROVE  /\ \/ b1 = NoBuffer /\ i1 = 0
              \/ b1 # NoBuffer /\ i1 = Full
              \/ i1 \in Slots
           /\ \/ b2 = NoBuffer /\ i2 = 0
              \/ b2 # NoBuffer /\ i2 = Full
              \/ i2 \in Slots
           /\ i1 \in Slots => /\ p[i1].state = "free" /\ i1 # i2 /\ b1 # NoBuffer
                              /\ q[i1].state = "in_use" /\ q[i1].buf = b1
           /\ i2 \in Slots => /\ p[i2].state = "free" /\ b2 # NoBuffer
                              /\ q[i2].state = "in_use" /\ q[i2].buf = b2
           /\ \A i \in Slots \ {i1, i2} : q[i] = p[i]
           /\ \A i \in Slots : p[i].state # "free" => q[i] = p[i]
<1>1. /\ p1 \in PoolType
      /\ \/ b1 = NoBuffer /\ i1 = 0 /\ p1 = p
         \/ b1 # NoBuffer /\ i1 = Full /\ p1 = p
         \/ /\ b1 # NoBuffer /\ i1 \in Slots /\ p[i1].state = "free"
            /\ p1[i1] = [state |-> "in_use", buf |-> b1]
            /\ \A i \in Slots \ {i1} : p1[i] = p[i]
  BY RegisterFacts
<1>2. \/ b2 = NoBuffer /\ i2 = 0 /\ q = p1
      \/ b2 # NoBuffer /\ i2 = Full /\ q = p1
      \/ /\ b2 # NoBuffer /\ i2 \in Slots /\ p1[i2].state = "free"
         /\ q[i2] = [state |-> "in_use", buf |-> b2]
         /\ \A i \in Slots \ {i2} : q[i] = p1[i]
  BY <1>1, RegisterFacts
<1>3. \A i \in Slots \ {i1} : p1[i] = p[i]
  BY <1>1
<1>4. \A i \in Slots \ {i2} : q[i] = p1[i]
  BY <1>2
<1>5. i1 \in Slots => /\ p[i1].state = "free" /\ i1 # i2 /\ b1 # NoBuffer
                      /\ q[i1].state = "in_use" /\ q[i1].buf = b1
  <2> SUFFICES ASSUME i1 \in Slots
               PROVE  /\ p[i1].state = "free" /\ i1 # i2 /\ b1 # NoBuffer
                      /\ q[i1].state = "in_use" /\ q[i1].buf = b1
    OBVIOUS
  <2>1. b1 # NoBuffer /\ p[i1].state = "free" /\ p1[i1].state = "in_use" /\ p1[i1].buf = b1
    BY <1>1, NumberFacts
  <2>2. i1 # i2
    BY <1>2, <2>1, NumberFacts
  <2>3. QED BY <1>4, <2>1, <2>2
<1>6. i2 \in Slots => /\ p[i2].state = "free" /\ b2 # NoBuffer
                      /\ q[i2].state = "in_use" /\ q[i2].buf = b2
  <2> SUFFICES ASSUME i2 \in Slots
               PROVE  /\ p[i2].state = "free" /\ b2 # NoBuffer
                      /\ q[i2].state = "in_use" /\ q[i2].buf = b2
    OBVIOUS
  <2>1. b2 # NoBuffer /\ p1[i2].state = "free" /\ q[i2].state = "in_use" /\ q[i2].buf = b2
    BY <1>2, NumberFacts
  <2>2. i1 # i2
    BY <1>1, <2>1, NumberFacts
  <2>3. QED BY <1>3, <2>1, <2>2
<1>7. \A i \in Slots \ {i1, i2} : q[i] = p[i]
  BY <1>3, <1>4
<1>8. \A i \in Slots : p[i].state # "free" => q[i] = p[i]
  BY <1>5, <1>6, <1>7
<1>9. /\ \/ b1 = NoBuffer /\ i1 = 0
         \/ b1 # NoBuffer /\ i1 = Full
         \/ i1 \in Slots
      /\ \/ b2 = NoBuffer /\ i2 = 0
         \/ b2 # NoBuffer /\ i2 = Full
         \/ i2 \in Slots
  BY <1>1, <1>2
<1>10. QED BY <1>5, <1>6, <1>7, <1>8, <1>9

LEMMA TwoRegistered ==
    ASSUME NEW p \in PoolType, Sound(p), NEW b1 \in Pointers, NEW b2 \in Pointers,
           b1 \notin InPool(p), b2 \notin InPool(p),
           NEW p1, p1 = Register(p, b1), NEW q, q = Register(p1, b2),
           NEW i1, i1 = RegisterId(p, b1), NEW i2, i2 = RegisterId(p1, b2),
           NEW r, r.ids[1] = i1, r.ids[2] = i2, r.bufs[1] = b1, r.bufs[2] = b2
    PROVE  /\ Sound(q) /\ Kept(q, r)
           /\ \A i \in Slots : p[i].state # "free" => q[i] = p[i]
           /\ \A i \in SlotsOf(r) : p[i].state = "free" /\ q[i].state = "in_use"
<1>1. \/ b1 = NoBuffer /\ i1 = 0
      \/ b1 # NoBuffer /\ i1 = Full
      \/ i1 \in Slots
  BY TwoSlots
<1>2. \/ b2 = NoBuffer /\ i2 = 0
      \/ b2 # NoBuffer /\ i2 = Full
      \/ i2 \in Slots
  BY TwoSlots
<1>5. i1 \in Slots => /\ p[i1].state = "free" /\ i1 # i2 /\ b1 # NoBuffer
                      /\ q[i1].state = "in_use" /\ q[i1].buf = b1
  BY TwoSlots
<1>6. i2 \in Slots => /\ p[i2].state = "free" /\ b2 # NoBuffer
                      /\ q[i2].state = "in_use" /\ q[i2].buf = b2
  BY TwoSlots
<1>7. \A i \in Slots \ {i1, i2} : q[i] = p[i]
  BY TwoSlots
<1>8. \A i \in Slots : p[i].buf # NoBuffer => p[i].buf \notin {b1, b2}
  BY DEF InPool
<1>9. \A i \in Slots : p[i].state # "free" => q[i] = p[i]
  BY <1>5, <1>6, <1>7
<1>10. \A i \in SlotsOf(r) : p[i].state = "free" /\ q[i].state = "in_use"
  BY <1>5, <1>6 DEF SlotsOf
<1>11. Kept(q, r)
  <2>1. \/ i1 = 0 /\ b1 = NoBuffer
        \/ i1 = Full
        \/ i1 \in Slots /\ b1 # NoBuffer /\ q[i1].buf = b1
    BY <1>1, <1>5
  <2>2. \/ i2 = 0 /\ b2 = NoBuffer
        \/ i2 = Full
        \/ i2 \in Slots /\ b2 # NoBuffer /\ q[i2].buf = b2
    BY <1>2, <1>6
  <2>3. QED BY <1>5, <2>1, <2>2 DEF Kept
<1>12. Sound(q)
  <2>1. \A i \in Slots : q[i].state = "free" <=> q[i].buf = NoBuffer
    BY <1>5, <1>6, <1>7 DEF Sound
  <2>2. \A i, j \in Slots : q[i].buf = q[j].buf => q[i].state = q[j].state
    <3> SUFFICES ASSUME NEW i \in Slots, NEW j \in Slots, q[i].buf = q[j].buf
                 PROVE  q[i].state = q[j].state
      OBVIOUS
    <3>1. CASE i \in {i1, i2} /\ j \in {i1, i2}
      BY <3>1, <1>5, <1>6
    <3>2. CASE i \in {i1, i2} /\ j \notin {i1, i2}
      BY <3>2, <1>5, <1>6, <1>7, <1>8
    <3>3. CASE i \notin {i1, i2} /\ j \in {i1, i2}
      BY <3>3, <1>5, <1>6, <1>7, <1>8
    <3>4. CASE i \notin {i1, i2} /\ j \notin {i1, i2}
      BY <3>4, <1>7 DEF Sound
    <3>5. QED BY <3>1, <3>2, <3>3, <3>4
  <2>3. \A i \in Slots : q[i].buf \in ScanBuffers => q[i].state = "in_use"
    BY <1>5, <1>6, <1>7 DEF Sound
  <2>4. QED BY <2>1, <2>2, <2>3 DEF Sound
<1>13. QED BY <1>9, <1>10, <1>11, <1>12

(* The slots of a reference are taken.                                     *)
LEMMA KeptTaken ==
    ASSUME NEW p, Sound(p), NEW r, Kept(p, r)
    PROVE  \A i \in SlotsOf(r) : p[i].state # "free" /\ p[i].buf # NoBuffer
  BY NumberFacts DEF Sound, Kept, SlotsOf

LEMMA ScanTaken ==
    ASSUME NEW p, Sound(p), NEW r, Kept(p, r), ForScan(r)
    PROVE  \A i \in SlotsOf(r) : p[i].state = "in_use"
  BY NumberFacts DEF Sound, Kept, SlotsOf, ForScan

LEMMA EncodePool ==
    ASSUME TypeInv, IInv, NEW t \in Threads, Encode(t), NEW a, a = adapterId, PoolInv(a),
           None(Untimely)'
    PROVE  PoolInv(a)'
<1> DEFINE b1 == call[t].bufs[1]
           b2 == call[t].bufs[2]
           r  == [ids |-> NewIds(t), bufs |-> call[t].bufs]
           p  == pool[a]
           q  == Pool2(t)
           R  == RefsOf(a)
           Q  == [adv |-> held[a].adv, scan |-> held[a].scan, event |-> EventRef(a), call |-> r]
<1>1. /\ call[t].at = "encode" /\ UNCHANGED <<holder, adapterId, held, events>>
      /\ Happens(IF b1 \in InPool(p) \/ b2 \in InPool(p) THEN {"buffer in use"} ELSE {})
  BY DEF Encode
<1>2. /\ a \in Adapters /\ b1 \in Pointers /\ b2 \in Pointers
      /\ pool' = [pool EXCEPT ![a] = q]
      /\ call' = [call EXCEPT ![t].at = "send", ![t].ids = NewIds(t)]
  BY EncodeFacts
<1>3. b1 \notin InPool(p) /\ b2 \notin InPool(p)
  BY <1>1 DEF Happens, None, Untimely
<1>4. p \in PoolType /\ Sound(p) /\ Owned(p, R) /\ DeviceInv(a)
  BY <1>2, VarTypes DEF PoolInv
<1>5. pool'[a] = q
  BY <1>2, VarTypes
<1>6. r.ids[1] = RegisterId(p, b1) /\ r.ids[2] = RegisterId(Pool1(t), b2)
      /\ r.bufs[1] = b1 /\ r.bufs[2] = b2 /\ Pool1(t) = Register(p, b1) /\ q = Register(Pool1(t), b2)
  BY DEF NewIds, Pool1, Pool2
<1>7. CallRef(a) = Nothing /\ CallRef(a)' = r
  <2>1. holder = t
    BY <1>1 DEF IInv, HolderInv, InContext
  <2>2. call[t] \in CallType /\ DOMAIN call = Threads
    BY VarTypes
  <2>3. call'[t].at = "send" /\ call'[t].ids = NewIds(t) /\ call'[t].bufs = call[t].bufs
    BY <1>2, <2>2 DEF CallType
  <2>4. QED BY <1>1, <2>1, <2>3 DEF CallRef
<1>8. EventRef(a)' = EventRef(a)
  BY <1>1 DEF EventRef
<1>9. RefsOf(a)' = Q
  BY <1>1, <1>7, <1>8 DEF RefsOf
<1>10. \A o \in Owners \ {"call"} : Q[o] = R[o]
  BY DEF RefsOf, Owners
<1>11. Q.call = r /\ Q["call"] = r /\ "call" \in Owners
  BY DEF RefsOf, Owners
<1> HIDE DEF b1, b2, r, p, q, R, Q
<1>12. /\ Sound(q) /\ Kept(q, r)
       /\ \A i \in Slots : p[i].state # "free" => q[i] = p[i]
       /\ \A i \in SlotsOf(r) : p[i].state = "free" /\ q[i].state = "in_use"
  BY <1>2, <1>3, <1>4, <1>6, TwoRegistered
<1>13. \A o \in Owners \ {"call"} :
          /\ Kept(q, Q[o]) /\ SlotsOf(Q[o]) \cap SlotsOf(r) = {} 
  <2> SUFFICES ASSUME NEW o \in Owners \ {"call"}
               PROVE  Kept(q, Q[o]) /\ SlotsOf(Q[o]) \cap SlotsOf(r) = {}
    OBVIOUS
  <2> DEFINE s == R[o]
  <2>1. Q[o] = s /\ Kept(p, s)
    BY <1>4, <1>10 DEF Owned
  <2> HIDE DEF s
  <2>2. \A i \in SlotsOf(s) : p[i].state # "free"
    BY <1>4, <2>1, KeptTaken
  <2>3. \A i \in SlotsOf(s) : q[i] = p[i]
    BY <1>12, <2>2 DEF SlotsOf
  <2>4. Kept(q, s)
    BY <2>1, <2>3 DEF Kept, SlotsOf
  <2>5. QED BY <1>12, <2>1, <2>2, <2>4
<1>14. Owned(q, Q)
  <2>1. \A o \in Owners : Kept(q, Q[o])
    BY <1>11, <1>12, <1>13
  <2>2. ASSUME NEW o \in Owners, NEW u \in Owners, o # u PROVE SlotsOf(Q[o]) \cap SlotsOf(Q[u]) = {}
    <3>1. CASE o = "call"
      BY <1>11, <1>13, <2>2, <3>1
    <3>2. CASE u = "call"
      BY <1>11, <1>13, <2>2, <3>2
    <3>3. CASE o # "call" /\ u # "call"
      <4>1. Q[o] = R[o] /\ Q[u] = R[u]
        BY <1>10, <3>3
      <4>2. QED BY <1>4, <2>2, <4>1 DEF Owned
    <3>4. QED BY <3>1, <3>2, <3>3
  <2>3. QED BY <2>1, <2>2 DEF Owned
<1>15. DeviceInv(a)'
  BY <1>1, <1>4, <1>8 DEF DeviceInv
<1>16. \A i \in SlotsOf(CallRef(a)') : pool'[a][i].state = "in_use"
  BY <1>5, <1>7, <1>12
<1>17. QED BY <1>5, <1>7, <1>9, <1>12, <1>14, <1>15, <1>16 DEF PoolInv


(* What Respond does: the device has the slots of the call, and a set that *)
(* it replaces has none.                                                   *)
LEMMA RespondPool ==
    ASSUME TypeInv, IInv, OpInv, NEW t \in Threads, Respond(t), NEW a, a = adapterId, PoolInv(a),
           None(Untimely)'
    PROVE  PoolInv(a)'
<1> DEFINE c == call[t]
           r == [ids |-> call[t].ids, bufs |-> call[t].bufs]
           p == pool[a]
           q == pool'[a]
           R == RefsOf(a)
           Q == [adv |-> held'[a].adv, scan |-> held'[a].scan, event |-> EventRef(a), call |-> Nothing]
<1>1. /\ c.at = "send" /\ call[t].at \in InContext
      /\ UNCHANGED <<holder, adapterId, events>>
      /\ a \in Adapters
  BY DEF Respond, TypeInv, InContext
<1>2. /\ Accepts(a, c) /\ held' = Executed(a, c) /\ Happens(MishapsOf(a, c, TRUE))
  <2>1. PICK success \in BOOLEAN : /\ success => Accepts(a, c)
                                   /\ held' = IF success THEN Executed(a, c) ELSE held
                                   /\ Happens(MishapsOf(a, c, success))
    BY DEF Respond
  <2>2. success = TRUE
    <3> SUFFICES ASSUME success = FALSE PROVE FALSE
      BY <2>1
    <3>1. "command failed" \in MishapsOf(a, c, success)
      BY DEF MishapsOf, Mishaps
    <3>2. "command failed" \in mishaps'
      BY <2>1, <3>1 DEF Happens
    <3>3. QED BY <3>2 DEF None, Untimely
  <2>3. QED BY <2>1, <2>2
<1>3. p \in PoolType /\ Sound(p) /\ Owned(p, R) /\ DeviceInv(a) /\ call[t] \in CallType
      /\ \A i \in SlotsOf(CallRef(a)) : p[i].state = "in_use"
  BY <1>1, VarTypes DEF PoolInv
<1>4. CallRef(a) = r /\ R.call = r /\ CallRef(a)' = Nothing
  <2>1. CallRef(a) = r
    BY <1>1, CallRefIs
  <2>2. PICK at \in {"leave", "leave_unset"} : call' = [call EXCEPT ![t].at = at]
    BY DEF Respond
  <2>3. holder' = t /\ call'[t].at # "send"
    BY <1>1, <2>2, VarTypes DEF IInv, HolderInv, CallType
  <2>4. QED BY <2>1, <2>3 DEF CallRef, RefsOf
<1>5. EventRef(a)' = EventRef(a)
  BY <1>1 DEF EventRef
<1>6. RefsOf(a)' = Q
  BY <1>4, <1>5 DEF RefsOf
<1>7. NoFull(r) /\ SlotsOf(Nothing) = {} /\ NoFull(Nothing) /\ ForScan(Nothing)
  BY <1>2, NumberFacts DEF Accepts, NoFull, SlotsOf, Nothing, ForScan
<1>8. CASE c.op = "configure"
  <2>1. held'[a].adv = r /\ held'[a].scan = held[a].scan
    BY <1>1, <1>2, <1>8, ExecutedType
  <2>2. q = AfterConfigure(p)
    BY <1>1, <1>8, VarTypes DEF Respond
  <2>3. Sound(q) /\ \A i \in Slots : p[i].state = "in_use" => q[i].buf = p[i].buf
    BY <1>3, <2>2, AfterConfigureFacts DEF OpInv
  <2>4. events[a] # <<>> => Head(events[a]).kind = "scan"
    <3> SUFFICES ASSUME events[a] # <<>> PROVE Head(events[a]).kind = "scan"
      OBVIOUS
    <3>1. "event overtaken" \notin MishapsOf(a, c, TRUE)
      BY <1>2 DEF Happens, None, Untimely
    <3>2. Head(events[a]).kind # "adv"
      BY <1>8, <3>1 DEF MishapsOf, Mishaps
    <3>3. PICK e \in Pending : events[a] = <<e>>
      BY <1>1 DEF TypeInv
    <3>4. QED BY <3>2, <3>3 DEF Pending
  <2>5. Owned(q, Q)
    <3> DEFINE from == [o \in Owners |-> IF o = "adv" THEN "call" ELSE o]
    <3>1. "adv" \in Owners /\ "scan" \in Owners /\ "event" \in Owners /\ "call" \in Owners
      BY DEF Owners
    <3>2. /\ Q["adv"] = R["call"] /\ Q["scan"] = R["scan"] /\ Q["event"] = R["event"]
          /\ Q["call"] = Nothing
      BY <1>4, <2>1 DEF RefsOf
    <3>3. \A i \in SlotsOf(Q["adv"]) : p[i].state = "in_use"
      BY <1>3, <1>4, <3>2
    <3>4. \A i \in SlotsOf(Q["scan"]) : p[i].state = "in_use"
      <4>1. Kept(p, held[a].scan) /\ ForScan(held[a].scan)
        BY <1>3, <3>1 DEF Owned, RefsOf, DeviceInv
      <4>2. QED BY <1>3, <2>1, <4>1, ScanTaken
    <3>5. \A i \in SlotsOf(Q["event"]) : p[i].state = "in_use"
      <4>1. CASE events[a] = <<>>
        BY <1>7, <4>1 DEF EventRef
      <4>2. CASE events[a] # <<>>
        <5>1. ForScan(EventRef(a))
          BY <1>3, <2>4, <4>2 DEF DeviceInv
        <5>2. Kept(p, EventRef(a))
          BY <1>3, <3>1 DEF Owned, RefsOf
        <5>3. QED BY <1>3, <5>1, <5>2, ScanTaken
      <4>3. QED BY <4>1, <4>2
    <3>6. \A o \in Owners : Q[o] = Nothing \/ \A i \in SlotsOf(Q[o]) : q[i].buf = p[i].buf
      <4>1. \A r1 : \A i \in SlotsOf(r1) : i \in Slots
        BY DEF SlotsOf
      <4>2. \A i \in SlotsOf(Q["adv"]) \cup SlotsOf(Q["scan"]) \cup SlotsOf(Q["event"]) : q[i].buf = p[i].buf
        BY <2>3, <3>3, <3>4, <3>5, <4>1
      <4>3. \A o \in Owners : o \in {"adv", "scan", "event"} \/ Q[o] = Nothing
        BY <3>2 DEF Owners
      <4>4. QED BY <4>2, <4>3
    <3>7. \A o \in Owners : Q[o] = Nothing \/ (from[o] \in Owners /\ Q[o] = R[from[o]])
      BY <3>1, <3>2 DEF Owners
    <3>8. \A o, u \in Owners : o # u /\ Q[o] # Nothing /\ Q[u] # Nothing => from[o] # from[u]
      BY <3>2
    <3> HIDE DEF from, Q, R, q, p
    <3>9. QED BY <1>3, <3>6, <3>7, <3>8, MovedRefs
  <2>6. DeviceInv(a)'
    BY <1>1, <1>3, <1>5, <1>7, <2>1 DEF DeviceInv
  <2>7. QED BY <1>4, <1>6, <1>7, <2>3, <2>5, <2>6 DEF PoolInv
<1>9. CASE c.op # "configure"
  <2>1. q = p /\ c.op \in {"scan_start", "scan_stop"}
    BY <1>1, <1>9 DEF Respond, OpInv
  <2>2. held'[a].adv = held[a].adv /\ held'[a].scan = IF c.op = "scan_start" THEN r ELSE Nothing
    BY <1>1, <1>2, <1>9, ExecutedType
  <2>3. c.op = "scan_start" => ForScan(r)
    <3>1. c.op = "scan_start" => ForScan(c)
      BY <1>1 DEF OpInv
    <3>2. QED BY <3>1 DEF ForScan
  <2>4. Owned(p, Q)
    <3> DEFINE from == [o \in Owners |-> IF o = "scan" THEN "call" ELSE o]
    <3>1. "adv" \in Owners /\ "scan" \in Owners /\ "event" \in Owners /\ "call" \in Owners
      BY DEF Owners
    <3>2. /\ Q["adv"] = R["adv"] /\ Q["scan"] \in {R["call"], Nothing} /\ Q["event"] = R["event"]
          /\ Q["call"] = Nothing
      BY <1>4, <2>2 DEF RefsOf
    <3>3. \A o \in Owners : Q[o] = Nothing \/ (from[o] \in Owners /\ Q[o] = R[from[o]])
      BY <3>1, <3>2 DEF Owners
    <3>4. \A o, u \in Owners : o # u /\ Q[o] # Nothing /\ Q[u] # Nothing => from[o] # from[u]
      BY <3>2
    <3> HIDE DEF from, Q, R, q, p
    <3>5. QED BY <1>3, <3>3, <3>4, MovedRefs
  <2>5. DeviceInv(a)'
    <3>1. NoFull(held'[a].scan) /\ ForScan(held'[a].scan)
      BY <1>7, <2>1, <2>2, <2>3
    <3>2. QED BY <1>1, <1>3, <1>5, <2>2, <3>1 DEF DeviceInv
  <2>6. QED BY <1>3, <1>4, <1>6, <1>7, <2>1, <2>4, <2>5 DEF PoolInv
<1>10. QED BY <1>8, <1>9

(* What SendEvent does: slots of the device are those of the event.        *)
LEMMA SendEventPool ==
    ASSUME TypeInv, NEW a \in Adapters, NEW kind \in {"adv", "scan"}, SendEvent(a, kind), PoolInv(a)
    PROVE  PoolInv(a)'
<1> DEFINE e == [kind |-> kind, has |-> held[a][kind]]
           h == [held[a] EXCEPT ![kind] = Nothing]
           p == pool[a]
           R == RefsOf(a)
           Q == [adv |-> held'[a].adv, scan |-> held'[a].scan, event |-> EventRef(a)',
                 call |-> CallRef(a)]
<1>1. /\ events[a] = <<>> /\ events' = [events EXCEPT ![a] = <<e>>]
      /\ held' = [held EXCEPT ![a] = h]
      /\ UNCHANGED <<pool, holder, adapterId, call>>
  BY DEF SendEvent
<1>2. held[a] \in [adv : Ref, scan : Ref] /\ DOMAIN held = Adapters /\ DOMAIN events = Adapters
  BY VarTypes
<1>3. held'[a] = h /\ events'[a] = <<e>>
  BY <1>1, <1>2
<1>4. EventRef(a) = Nothing /\ EventRef(a)' = held[a][kind] /\ Head(events'[a]).kind = kind
  <2>1. e.has = held[a][kind] /\ e.kind = kind
    OBVIOUS
  <2> HIDE DEF e
  <2>2. QED BY <1>1, <1>3, <2>1 DEF EventRef
<1>5. CallRef(a)' = CallRef(a)
  BY <1>1 DEF CallRef
<1>6. RefsOf(a)' = Q
  BY <1>5 DEF RefsOf
<1>7. Sound(p) /\ Owned(p, R) /\ DeviceInv(a) /\ pool'[a] = p
      /\ \A i \in SlotsOf(CallRef(a)) : p[i].state = "in_use"
  BY <1>1 DEF PoolInv
<1>8. \/ kind = "adv" /\ held'[a].adv = Nothing /\ held'[a].scan = held[a].scan /\ EventRef(a)' = held[a].adv
      \/ kind = "scan" /\ held'[a].scan = Nothing /\ held'[a].adv = held[a].adv /\ EventRef(a)' = held[a].scan
  BY <1>2, <1>3, <1>4
<1>9. Owned(p, Q)
  <2> DEFINE from == [o \in Owners |-> IF o = "event" THEN kind ELSE o]
  <2>1. "adv" \in Owners /\ "scan" \in Owners /\ "event" \in Owners /\ "call" \in Owners
    BY DEF Owners
  <2>2. /\ Q["adv"] = IF kind = "adv" THEN Nothing ELSE R["adv"]
        /\ Q["scan"] = IF kind = "scan" THEN Nothing ELSE R["scan"]
        /\ Q["event"] = R[kind] /\ Q["call"] = R["call"]
    BY <1>8 DEF RefsOf
  <2>3. \A o \in Owners : Q[o] = Nothing \/ (from[o] \in Owners /\ Q[o] = R[from[o]])
    BY <2>1, <2>2 DEF Owners
  <2>4. \A o, u \in Owners : o # u /\ Q[o] # Nothing /\ Q[u] # Nothing => from[o] # from[u]
    <3>1. Q[kind] = Nothing
      BY <2>2
    <3>2. QED BY <3>1
  <2> HIDE DEF from, Q, R, p
  <2>5. QED BY <1>7, <2>3, <2>4, MovedRefs
<1>10. DeviceInv(a)'
  <2>1. NoFull(Nothing) /\ ForScan(Nothing)
    BY NumberFacts DEF NoFull, ForScan, Nothing
  <2>2. /\ NoFull(held'[a].adv) /\ NoFull(held'[a].scan) /\ NoFull(EventRef(a)')
        /\ ForScan(held'[a].scan) /\ (kind = "scan" => ForScan(EventRef(a)'))
    BY <1>7, <1>8, <2>1 DEF DeviceInv
  <2>3. QED BY <1>4, <2>2 DEF DeviceInv
<1>11. QED BY <1>5, <1>6, <1>7, <1>9, <1>10 DEF PoolInv

(* What DecodeEvent does: the slots of the event are freed, and what it    *)
(* finds in them is what the call gave.                                    *)
LEMMA DecodeEventPool ==
    ASSUME TypeInv, NEW a \in Adapters, DecodeEvent(a), PoolInv(a)
    PROVE  PoolInv(a)' /\ returned' = "own"
<1> DEFINE r  == EventRef(a)
           p  == pool[a]
           p1 == Unregister(p, r.ids[1])
           q  == Unregister(p1, r.ids[2])
           R  == RefsOf(a)
           Q  == [adv |-> held[a].adv, scan |-> held[a].scan, event |-> Nothing, call |-> CallRef(a)]
<1>1. /\ events[a] # <<>> /\ r = Head(events[a]).has
      /\ returned' = IF r.bufs = <<Found(p, r.ids[1]), Found(p1, r.ids[2])>> THEN "own" ELSE "another"
      /\ pool' = [pool EXCEPT ![a] = q] /\ events' = [events EXCEPT ![a] = <<>>]
      /\ UNCHANGED <<holder, adapterId, call, held>>
  BY DEF DecodeEvent, EventRef
<1>2. p \in PoolType /\ r \in Ref /\ DOMAIN pool = Adapters /\ DOMAIN events = Adapters
  BY VarTypes, HeldTypes
<1>3. pool'[a] = q /\ events'[a] = <<>>
  BY <1>1, <1>2
<1>4. EventRef(a)' = Nothing /\ CallRef(a)' = CallRef(a)
  BY <1>1, <1>3 DEF EventRef, CallRef
<1>5. RefsOf(a)' = Q
  BY <1>1, <1>4 DEF RefsOf
<1>6. Sound(p) /\ Owned(p, R) /\ DeviceInv(a)
      /\ \A i \in SlotsOf(CallRef(a)) : p[i].state = "in_use"
  BY DEF PoolInv
<1>7. "adv" \in Owners /\ "scan" \in Owners /\ "event" \in Owners /\ "call" \in Owners
  BY DEF Owners
<1>8. Kept(p, r) /\ NoFull(r)
  BY <1>6, <1>7 DEF Owned, RefsOf, DeviceInv
<1>9. p1 \in PoolType /\ \A i \in Slots : p1[i] = IF i = r.ids[1] THEN FreeSlot ELSE p[i]
  BY <1>2, UnregisterFacts
<1>10. \A i \in Slots : q[i] = IF i = r.ids[2] THEN FreeSlot ELSE p1[i]
  <2> HIDE DEF p1
  <2>1. QED BY <1>9, UnregisterFacts
<1>11. /\ \A i \in Slots : q[i] = FreeSlot \/ q[i] = p[i]
       /\ \A i \in Slots \ SlotsOf(r) : q[i] = p[i]
  <2> HIDE DEF p, p1, q, r
  <2>1. QED BY <1>9, <1>10 DEF SlotsOf
<1>12. Sound(q)
  <2> HIDE DEF p, q
  <2>1. QED BY <1>6, <1>11, FreedSound
<1>13. returned' = "own"
  <2>1. r.bufs = <<r.bufs[1], r.bufs[2]>>
    BY <1>2 DEF Ref
  <2>2. Found(p, r.ids[1]) = r.bufs[1]
    BY <1>8, NumberFacts DEF Kept, NoFull, Found
  <2>3. Found(p1, r.ids[2]) = r.bufs[2]
    <3>1. CASE r.ids[2] \in Slots
      <4>1. r.ids[2] # r.ids[1]
        BY <1>8, <3>1 DEF Kept
      <4>2. p1[r.ids[2]] = p[r.ids[2]]
        BY <1>9, <3>1, <4>1
      <4>3. r.bufs[2] = p[r.ids[2]].buf
        BY <1>8, <3>1, NumberFacts DEF Kept
      <4>4. QED BY <3>1, <4>2, <4>3 DEF Found
    <3>2. CASE r.ids[2] \notin Slots
      <4>1. r.bufs[2] = NoBuffer
        BY <1>8, <3>2 DEF Kept, NoFull
      <4>2. QED BY <3>2, <4>1 DEF Found
    <3>3. QED BY <3>1, <3>2
  <2> HIDE DEF p, p1, q, r
  <2>4. QED BY <1>1, <2>1, <2>2, <2>3
<1>14. Owned(q, Q)
  <2> DEFINE from == [o \in Owners |-> o]
  <2>1. /\ Q["adv"] = R["adv"] /\ Q["scan"] = R["scan"] /\ Q["call"] = R["call"]
        /\ Q["event"] = Nothing /\ R["event"] = r
    BY DEF RefsOf
  <2>2. \A o \in Owners : Q[o] = Nothing \/ (from[o] \in Owners /\ Q[o] = R[from[o]] /\ o # "event")
    BY <2>1 DEF Owners
  <2>3. \A o \in Owners : Q[o] = Nothing \/ \A i \in SlotsOf(Q[o]) : q[i].buf = p[i].buf
    <3> SUFFICES ASSUME NEW o \in Owners, Q[o] # Nothing, NEW i \in SlotsOf(Q[o])
                 PROVE  q[i].buf = p[i].buf
      OBVIOUS
    <3>1. o # "event" /\ Q[o] = R[o]
      BY <2>2
    <3> HIDE DEF p, q, r, R, Q
    <3>2. i \notin SlotsOf(r) /\ i \in Slots
      BY <1>6, <1>7, <2>1, <3>1 DEF Owned, SlotsOf
    <3>3. QED BY <1>11, <3>2
  <2>4. \A o, u \in Owners : o # u /\ Q[o] # Nothing /\ Q[u] # Nothing => from[o] # from[u]
    OBVIOUS
  <2> HIDE DEF from, Q, R, p, q
  <2>5. QED BY <1>6, <2>2, <2>3, <2>4, MovedRefs
<1>15. DeviceInv(a)'
  <2>1. NoFull(Nothing)
    BY NumberFacts DEF NoFull, Nothing
  <2>2. QED BY <1>1, <1>3, <1>4, <1>6, <2>1 DEF DeviceInv
<1>16. \A i \in SlotsOf(CallRef(a)') : pool'[a][i].state = "in_use"
  <2>1. R["call"] = CallRef(a) /\ R["event"] = r
    BY DEF RefsOf
  <2> DEFINE c == CallRef(a)
  <2>2. SlotsOf(c) \cap SlotsOf(r) = {}
    <3> HIDE DEF c, r
    <3>1. QED BY <1>6, <1>7, <2>1 DEF Owned, c, r
  <2> HIDE DEF c, q, p, r, R
  <2>3. \A i \in SlotsOf(c) : q[i] = p[i]
    BY <1>11, <2>2 DEF SlotsOf
  <2>4. QED BY <1>3, <1>4, <1>6, <2>3 DEF c
<1>17. QED BY <1>3, <1>5, <1>12, <1>13, <1>14, <1>15, <1>16 DEF PoolInv


LEMMA InitBackInv == Init => BackInv
<1> SUFFICES ASSUME Init, NEW a \in Adapters PROVE returned = "own" /\ PoolInv(a)
  BY DEF BackInv, Init
<1>1. /\ pool[a] = [i \in Slots |-> FreeSlot] /\ held[a] = [adv |-> Nothing, scan |-> Nothing]
      /\ events[a] = <<>> /\ returned = "own" /\ holder = NoThread
  BY DEF Init
<1>2. EventRef(a) = Nothing /\ CallRef(a) = Nothing
  BY <1>1, NobodyAssumption DEF EventRef, CallRef
<1>3. Kept(pool[a], Nothing) /\ SlotsOf(Nothing) = {} /\ NoFull(Nothing) /\ ForScan(Nothing)
  BY NumberFacts DEF Kept, SlotsOf, NoFull, ForScan, Nothing
<1>4. \A o \in Owners : RefsOf(a)[o] = Nothing
  BY <1>1, <1>2 DEF RefsOf, Owners
<1>5. Owned(pool[a], RefsOf(a))
  BY <1>3, <1>4 DEF Owned
<1>6. Sound(pool[a])
  BY <1>1, NobodyAssumption, AdvDataAssumption DEF Sound, FreeSlot
<1>7. DeviceInv(a)
  BY <1>1, <1>2, <1>3 DEF DeviceInv
<1>8. QED BY <1>1, <1>2, <1>3, <1>5, <1>6, <1>7 DEF PoolInv

LEMMA StepPoolInv ==
    ASSUME TypeInv, IInv, OpInv, BackInv, [Next]_vars, None(Untimely)', NEW b \in Adapters
    PROVE  returned' = "own" /\ PoolInv(b)'
<1>0. CallShape /\ DOMAIN pool = Adapters /\ DOMAIN held = Adapters /\ DOMAIN events = Adapters
  BY VarTypes DEF IInv
<1>1. returned = "own" /\ PoolInv(b)
  <2>1. mishaps \subseteq mishaps'
    BY DEF Next, Call, Event, Enter, Encode, Respond, SendFails, RespondGarbage, Leave, ScanStopUnset,
           SendEvent, DecodeEvent, Happens, vars
  <2>2. None(Untimely)
    BY <2>1 DEF None
  <2>3. QED BY <2>2 DEF BackInv
<1>2. ASSUME NEW t \in Threads, Enter(t) PROVE returned' = "own" /\ PoolInv(b)'
  <2>1. holder = NoThread /\ holder' = t /\ UNCHANGED <<pool, held, events, returned>>
    BY <1>2 DEF Enter, CodecMutexFree
  <2>2. PICK c \in CallType : call' = [call EXCEPT ![t] = c] /\ c.at = "encode"
    BY <1>2, EnterFacts
  <2>3. call'[t].at = "encode"
    BY <1>0, <2>2 DEF CallShape
  <2>4. CallRef(b) = Nothing /\ CallRef(b)' = Nothing
    BY <2>1, <2>3, NobodyAssumption DEF CallRef
  <2>5. QED BY <1>1, <2>1, <2>4, PoolSame
<1>3. ASSUME NEW t \in Threads, Encode(t) PROVE returned' = "own" /\ PoolInv(b)'
  <2>1. /\ call[t].at = "encode" /\ UNCHANGED <<holder, adapterId, held, events, returned>>
    BY <1>3 DEF Encode
  <2>2. CASE b = adapterId
    BY <1>1, <1>3, <2>1, <2>2, EncodePool
  <2>3. CASE b # adapterId
    <3>1. pool'[b] = pool[b]
      BY <1>0, <1>3, <2>3, EncodeFacts
    <3>2. CallRef(b) = Nothing /\ CallRef(b)' = Nothing
      BY <2>1, <2>3 DEF CallRef
    <3>3. QED BY <1>1, <2>1, <3>1, <3>2, PoolSame
  <2>4. QED BY <2>2, <2>3
<1>4. ASSUME NEW t \in Threads, Respond(t) PROVE returned' = "own" /\ PoolInv(b)'
  <2>1. /\ call[t].at = "send" /\ UNCHANGED <<holder, adapterId, events, returned>>
        /\ adapterId \in Adapters
    BY <1>4 DEF Respond, TypeInv, InContext
  <2>2. CASE b = adapterId
    BY <1>1, <1>4, <2>1, <2>2, RespondPool
  <2>3. CASE b # adapterId
    <3>1. pool'[b] = pool[b]
      <4>1. pool' = pool \/ pool' = [pool EXCEPT ![adapterId] = AfterConfigure(@)]
        BY <1>4 DEF Respond
      <4>2. QED BY <1>0, <2>3, <4>1
    <3>2. held'[b] = held[b]
      <4>1. held' = held \/ held' = Executed(adapterId, call[t])
        BY <1>4 DEF Respond
      <4>2. Executed(adapterId, call[t])[b] = held[b]
        BY <2>1, <2>3, ExecutedType
      <4>3. QED BY <4>1, <4>2
    <3>3. CallRef(b) = Nothing /\ CallRef(b)' = Nothing
      BY <2>1, <2>3 DEF CallRef
    <3>4. QED BY <1>1, <2>1, <3>1, <3>2, <3>3, PoolSame
  <2>4. QED BY <2>2, <2>3
<1>5. ASSUME NEW t \in Threads, SendFails(t) \/ RespondGarbage(t) PROVE returned' = "own" /\ PoolInv(b)'
  <2>1. "command failed" \in mishaps'
    BY <1>5 DEF SendFails, RespondGarbage, Happens
  <2>2. QED BY <2>1 DEF None, Untimely
<1>6. ASSUME NEW t \in Threads, Leave(t) PROVE returned' = "own" /\ PoolInv(b)'
  <2>1. /\ call[t].at \in {"leave", "leave_unset"} /\ holder' = NoThread
        /\ UNCHANGED <<pool, held, events, returned>>
    BY <1>6 DEF Leave
  <2>2. holder = t
    BY <2>1 DEF IInv, HolderInv, InContext
  <2>3. CallRef(b) = Nothing /\ CallRef(b)' = Nothing
    BY <2>1, <2>2, NobodyAssumption DEF CallRef
  <2>4. QED BY <1>1, <2>1, <2>3, PoolSame
<1>7. ASSUME NEW t \in Threads, ScanStopUnset(t) PROVE returned' = "own" /\ PoolInv(b)'
  <2>1. call[t].at = "unset" /\ UNCHANGED <<pool, holder, adapterId, held, events, returned>>
    BY <1>7 DEF ScanStopUnset
  <2>2. holder # t
    BY <2>1 DEF IInv, HolderInv, InContext
  <2>3. \A u \in Threads \ {t} : call'[u] = call[u]
    BY <1>0, <1>7, UnsetFacts
  <2>4. CallRef(b)' = CallRef(b)
    BY <2>1, <2>2, <2>3 DEF CallRef
  <2>5. QED BY <1>1, <2>1, <2>4, PoolSame
<1>8. ASSUME NEW a \in Adapters, NEW kind \in {"adv", "scan"}, SendEvent(a, kind)
      PROVE  returned' = "own" /\ PoolInv(b)'
  <2>1. /\ events' = [events EXCEPT ![a] = <<[kind |-> kind, has |-> held[a][kind]]>>]
        /\ held' = [held EXCEPT ![a][kind] = Nothing]
        /\ UNCHANGED <<pool, holder, adapterId, call, returned>>
    BY <1>8 DEF SendEvent
  <2>2. CASE a = b
    BY <1>1, <1>8, <2>1, <2>2, SendEventPool
  <2>3. CASE a # b
    <3>1. CallRef(b)' = CallRef(b) /\ held'[b] = held[b] /\ events'[b] = events[b]
      BY <1>0, <2>1, <2>3 DEF CallRef
    <3>2. QED BY <1>1, <2>1, <3>1, PoolSame
  <2>4. QED BY <2>2, <2>3
<1>9. ASSUME NEW a \in Adapters, DecodeEvent(a) PROVE returned' = "own" /\ PoolInv(b)'
  <2>1. /\ events' = [events EXCEPT ![a] = <<>>]
        /\ UNCHANGED <<holder, adapterId, call, held>>
        /\ pool' = [pool EXCEPT ![a] = Unregister(Unregister(@, Head(events[a]).has.ids[1]),
                                                  Head(events[a]).has.ids[2])]
    BY <1>9 DEF DecodeEvent
  <2>2. returned' = "own" /\ PoolInv(a)'
    <3>1. PoolInv(a)
      <4>1. mishaps' = mishaps
        BY <1>9 DEF DecodeEvent
      <4>2. None(Untimely)
        BY <4>1 DEF None
      <4>3. QED BY <4>2 DEF BackInv
    <3>2. QED BY <1>9, <3>1, DecodeEventPool
  <2>3. CASE a # b
    <3>1. CallRef(b)' = CallRef(b) /\ held'[b] = held[b] /\ events'[b] = events[b] /\ pool'[b] = pool[b]
      BY <1>0, <2>1, <2>3 DEF CallRef
    <3>2. QED BY <1>1, <2>2, <3>1, PoolSame
  <2>4. QED BY <2>2, <2>3
<1>10. CASE UNCHANGED vars
  <2>1. UNCHANGED <<pool, holder, adapterId, call, held, events, returned>>
    BY <1>10 DEF vars
  <2>2. CallRef(b)' = CallRef(b)
    BY <2>1 DEF CallRef
  <2>3. QED BY <1>1, <2>1, <2>2, PoolSame
<1>11. QED
  <2>1. CASE \E t \in Threads : Call(t)
    BY <2>1, <1>2, <1>3, <1>4, <1>5, <1>6, <1>7 DEF Call
  <2>2. CASE \E a \in Adapters : Event(a)
    BY <2>2, <1>8, <1>9 DEF Event
  <2>3. QED BY <1>10, <2>1, <2>2 DEF Next

LEMMA StepBackInv ==
    ASSUME TypeInv, IInv, OpInv, BackInv, [Next]_vars
    PROVE  BackInv'
<1> SUFFICES ASSUME None(Untimely)' PROVE returned' = "own" /\ \A b \in Adapters : PoolInv(b)'
  BY DEF BackInv
<1>1. CASE Adapters # {}
  BY <1>1, StepPoolInv
<1>2. CASE Adapters = {}
  <2>1. returned' = returned /\ mishaps \subseteq mishaps'
    BY <1>2 DEF Next, Call, Event, Enter, Encode, Respond, SendFails, RespondGarbage, Leave,
                ScanStopUnset, Happens, vars
  <2>2. None(Untimely)
    BY <2>1 DEF None
  <2>3. QED BY <1>2, <2>1, <2>2 DEF BackInv
<1>3. QED BY <1>1, <1>2

-----------------------------------------------------------------------------
(* The types.                                                              *)
THEOREM TypeCorrect == Spec => []TypeOK
<1>1. TypeInv => TypeOK
  BY DEF TypeInv
<1>2. QED BY InitIInv, StepIInv, InitTypeInv, StepTypeInv, <1>1, PTL DEF Spec

(* An event gives the application the buffers it gave, for a pool of any    *)
(* size and calls of any threads for any adapters, when no command fails,  *)
(* no buffer is given while a slot has it and no configuration overtakes   *)
(* the event of the last one.  The hypothesis is about the application: it *)
(* does not advertise with the buffers that it scans with, for those would *)
(* be marked dirty under the scan.                                         *)
THEOREM BuffersComeBack == ASSUME Apart PROVE Spec => []BufferBack
<1> DEFINE Inv == TypeInv /\ IInv /\ OpInv /\ BackInv
<1>1. Init => Inv
  BY InitTypeInv, InitIInv, InitOpInv, InitBackInv
<1>2. Inv /\ [Next]_vars => Inv'
  BY Apart, StepTypeInv, StepIInv, StepOpInv, StepBackInv
<1>3. Inv => BufferBack
  BY DEF BackInv, BufferBack
<1>4. QED BY <1>1, <1>2, <1>3, PTL DEF Spec


-----------------------------------------------------------------------------
(* Counting slots.                                                         *)

LEMMA Few ==
    ASSUME NEW T, T \subseteq Slots, NEW S, S \subseteq T
    PROVE  /\ IsFiniteSet(S) /\ IsFiniteSet(T)
           /\ Cardinality(S) \in Nat /\ Cardinality(T) \in Nat
           /\ Cardinality(S) <= Cardinality(T)
           /\ Cardinality(S) = Cardinality(T) => S = T
<1>1. IsFiniteSet(Slots)
  BY PoolSizeAssumption, FS_Interval DEF Slots
<1>2. IsFiniteSet(T)
  BY <1>1, FS_Subset
<1>3. IsFiniteSet(S) /\ Cardinality(S) <= Cardinality(T) /\ (Cardinality(S) = Cardinality(T) => S = T)
  BY <1>2, FS_Subset
<1>4. Cardinality(S) \in Nat /\ Cardinality(T) \in Nat
  BY <1>2, <1>3, FS_CardinalityType
<1>5. QED BY <1>2, <1>3, <1>4

LEMMA Without ==
    ASSUME NEW S, S \subseteq Slots, NEW i \in S
    PROVE  /\ Cardinality(S) \in Nat /\ Cardinality(S \ {i}) \in Nat
           /\ Cardinality(S \ {i}) = Cardinality(S) - 1
<1>1. IsFiniteSet(S) /\ Cardinality(S) \in Nat /\ Cardinality(S \ {i}) \in Nat
  BY Few
<1>2. QED BY <1>1, FS_RemoveElement

LEMMA LeastOfNumbers ==
    ASSUME NEW T, T \subseteq Nat, T # {}
    PROVE  \E m \in T : \A k \in T : m <= k
<1>1. PICK m \in T : \A k \in T : ~(<<k, m>> \in OpToRel(<, Nat))
  BY NatLessThanWellFounded, WFMin
<1>2. \A k \in T : m <= k
  <2> TAKE k \in T
  <2>1. k \in Nat /\ m \in Nat
    OBVIOUS
  <2>2. ~(k < m)
    BY <1>1, <2>1 DEF OpToRel
  <2>3. QED BY <2>1, <2>2
<1>3. QED BY <1>2

LEMMA HighestIn ==
    ASSUME NEW S, S \subseteq Slots, S # {}
    PROVE  \E x \in S : \A y \in S : y <= x
<1> DEFINE bounds == {k \in Nat : \A y \in S : y <= k}
<1>1. PoolSize \in bounds
  BY PoolSizeAssumption DEF Slots
<1>2. PICK x \in bounds : \A k \in bounds : x <= k
  <2>1. bounds \subseteq Nat /\ bounds # {}
    BY <1>1
  <2> HIDE DEF bounds
  <2>2. QED BY <2>1, LeastOfNumbers
<1>3. x \in Nat /\ \A y \in S : y \in Nat /\ y <= x
  BY NumberFacts
<1>4. x \in S
  <2> SUFFICES ASSUME x \notin S PROVE FALSE
    OBVIOUS
  <2>1. \A y \in S : y <= x - 1
    BY <1>3
  <2>2. x >= 1
    <3>1. PICK y \in S : TRUE
      OBVIOUS
    <3>2. y \in Nat /\ y >= 1
      BY <3>1 DEF Slots
    <3>3. QED BY <1>3, <3>2
  <2>3. x - 1 \in bounds
    BY <1>3, <2>1, <2>2
  <2>4. x <= x - 1
    BY <1>2, <2>3
  <2>5. QED BY <1>3, <2>4
<1>5. QED BY <1>3, <1>4

(* The first n of a set are n.                                             *)
FirstOf(S, n) == {i \in S : Cardinality({j \in S : j < i}) < n}

LEMMA FirstCount ==
    ASSUME NEW S0, S0 \subseteq Slots, NEW n0 \in Nat, n0 <= Cardinality(S0)
    PROVE  n0 <= Cardinality(FirstOf(S0, n0))
<1> DEFINE Wrong(m, S, n) == Cardinality(S) = m /\ n <= m /\ ~(n <= Cardinality(FirstOf(S, n)))
           bad == {m \in Nat : \E S \in SUBSET Slots, n \in Nat : Wrong(m, S, n)}
<1>1. bad = {}
  <2> SUFFICES ASSUME bad # {} PROVE FALSE
    OBVIOUS
  <2>1. PICK m \in bad : \A k \in bad : m <= k
    <3>1. bad \subseteq Nat
      OBVIOUS
    <3> HIDE DEF bad
    <3>2. QED BY <3>1, LeastOfNumbers
  <2>2. PICK S \in SUBSET Slots, n \in Nat : Wrong(m, S, n)
    OBVIOUS
  <2>3. m \in Nat /\ Cardinality(S) = m /\ n <= m /\ ~(n <= Cardinality(FirstOf(S, n)))
    BY <2>2
  <2>4. CASE n = m
    <3>1. \A i \in S : Cardinality({j \in S : j < i}) < n
      <4> TAKE i \in S
      <4> DEFINE below == {j \in S : j < i}
      <4>1. i \in Nat /\ i \notin below /\ below \subseteq S
        BY NumberFacts
      <4> HIDE DEF below
      <4>2. Cardinality(below) \in Nat /\ Cardinality(below) <= m /\ Cardinality(below) # m
        BY <2>3, <4>1, Few
      <4>3. Cardinality(below) < n
        BY <2>3, <2>4, <4>2
      <4>4. QED BY <4>3 DEF below
    <3>2. FirstOf(S, n) = S
      BY <3>1 DEF FirstOf
    <3>3. QED BY <2>3, <2>4, <3>2
  <2>5. CASE n # m
    <3>1. n <= m - 1 /\ m - 1 \in Nat
      BY <2>3, <2>5
    <3>2. S # {}
      BY <2>3, <3>1, FS_EmptySet
    <3>3. PICK x \in S : \A y \in S : y <= x
      BY <3>2, HighestIn
    <3> DEFINE T == S \ {x}
    <3>4. Cardinality(T) = m - 1
      BY <2>3, Without
    <3>5. ~Wrong(m - 1, T, n)
      <4>1. m - 1 \notin bad
        BY <2>1, <2>3, <3>1
      <4>2. T \in SUBSET Slots
        OBVIOUS
      <4>3. QED BY <3>1, <4>1, <4>2
    <3>6. n <= Cardinality(FirstOf(T, n))
      BY <3>1, <3>4, <3>5
    <3>7. FirstOf(T, n) \subseteq FirstOf(S, n)
      <4> SUFFICES ASSUME NEW i \in FirstOf(T, n) PROVE i \in FirstOf(S, n)
        OBVIOUS
      <4>1. i \in T /\ Cardinality({j \in T : j < i}) < n
        BY DEF FirstOf
      <4>2. i \in Nat /\ x \in Nat /\ i <= x
        BY <3>3, <4>1, NumberFacts
      <4>3. {j \in T : j < i} = {j \in S : j < i}
        BY <4>2
      <4>4. QED BY <4>1, <4>3 DEF FirstOf
    <3>8. FirstOf(S, n) \subseteq Slots
      BY DEF FirstOf
    <3>9. /\ Cardinality(FirstOf(T, n)) \in Nat /\ Cardinality(FirstOf(S, n)) \in Nat
          /\ Cardinality(FirstOf(T, n)) <= Cardinality(FirstOf(S, n))
      BY <3>7, <3>8, Few
    <3>10. QED BY <2>3, <3>6, <3>9
  <2>6. QED BY <2>4, <2>5
<1>2. Cardinality(S0) \in Nat
  BY Few
<1>3. ~Wrong(Cardinality(S0), S0, n0)
  <2>1. Cardinality(S0) \notin bad
    BY <1>1
  <2> HIDE DEF Wrong
  <2>2. QED BY <1>2, <2>1
<1>4. QED BY <1>3

(* Slots sorted by their buffers: as many with every buffer are as many    *)
(* altogether.                                                             *)
With(p, S, b) == {i \in S : p[i].buf = b}
Covers(p, D, F) == \A b : Cardinality(With(p, D, b)) <= Cardinality(With(p, F, b))

LEMMA ClassCount ==
    ASSUME NEW p, NEW D0, D0 \subseteq Slots, NEW F0, F0 \subseteq Slots, Covers(p, D0, F0)
    PROVE  Cardinality(D0) <= Cardinality(F0)
<1> DEFINE Wrong(m, D, F) == Cardinality(D) = m /\ Covers(p, D, F) /\ ~(m <= Cardinality(F))
           bad == {m \in Nat : \E D, F \in SUBSET Slots : Wrong(m, D, F)}
<1>1. bad = {}
  <2> SUFFICES ASSUME bad # {} PROVE FALSE
    OBVIOUS
  <2>1. PICK m \in bad : \A k \in bad : m <= k
    <3>1. bad \subseteq Nat
      OBVIOUS
    <3> HIDE DEF bad
    <3>2. QED BY <3>1, LeastOfNumbers
  <2>2. PICK D \in SUBSET Slots, F \in SUBSET Slots : Wrong(m, D, F)
    OBVIOUS
  <2>3. m \in Nat /\ Cardinality(D) = m /\ Covers(p, D, F) /\ ~(m <= Cardinality(F))
    BY <2>2
  <2>4. Cardinality(F) \in Nat
    BY Few
  <2>5. D # {} /\ m >= 1
    <3>1. m # 0
      BY <2>3, <2>4
    <3>2. QED BY <2>3, <3>1, FS_EmptySet
  <2>6. PICK d \in D : TRUE
    BY <2>5
  <2> DEFINE b0 == p[d].buf
  <2>7. PICK f \in F : p[f].buf = b0
    <3>1. d \in With(p, D, b0) /\ With(p, D, b0) \subseteq Slots /\ With(p, F, b0) \subseteq Slots
      BY DEF With
    <3>2. Cardinality(With(p, D, b0)) \in Nat /\ Cardinality(With(p, F, b0)) \in Nat
      BY <3>1, Few
    <3>3. Cardinality(With(p, D, b0)) # 0
      <4>1. IsFiniteSet(With(p, D, b0)) /\ With(p, D, b0) # {}
        BY <3>1, Few
      <4>2. QED BY <4>1, FS_EmptySet
    <3>4. Cardinality(With(p, F, b0)) # 0
      <4>1. Cardinality(With(p, D, b0)) <= Cardinality(With(p, F, b0))
        BY <2>3 DEF Covers
      <4>2. QED BY <3>2, <3>3, <4>1
    <3>5. With(p, F, b0) # {}
      BY <3>4, FS_EmptySet
    <3>6. QED BY <3>5 DEF With
  <2> DEFINE E == D \ {d}
             G == F \ {f}
  <2>8. Cardinality(E) = m - 1 /\ Cardinality(G) = Cardinality(F) - 1
    BY <2>3, Without
  <2>9. Covers(p, E, G)
    <3> SUFFICES ASSUME NEW b PROVE Cardinality(With(p, E, b)) <= Cardinality(With(p, G, b))
      BY DEF Covers
    <3>1. Cardinality(With(p, D, b)) <= Cardinality(With(p, F, b))
      BY <2>3 DEF Covers
    <3>2. CASE b = b0
      <4>1. /\ With(p, E, b) = With(p, D, b) \ {d} /\ d \in With(p, D, b) /\ With(p, D, b) \subseteq Slots
            /\ With(p, G, b) = With(p, F, b) \ {f} /\ f \in With(p, F, b) /\ With(p, F, b) \subseteq Slots
        BY <2>7, <3>2 DEF With
      <4>2. /\ Cardinality(With(p, D, b)) \in Nat
            /\ Cardinality(With(p, E, b)) = Cardinality(With(p, D, b)) - 1
        BY <4>1, Without
      <4>3. /\ Cardinality(With(p, F, b)) \in Nat
            /\ Cardinality(With(p, G, b)) = Cardinality(With(p, F, b)) - 1
        BY <4>1, Without
      <4>4. QED BY <3>1, <4>2, <4>3
    <3>3. CASE b # b0
      <4>1. With(p, E, b) = With(p, D, b) /\ With(p, G, b) = With(p, F, b)
        BY <2>7, <3>3 DEF With
      <4>2. QED BY <3>1, <4>1
    <3>4. QED BY <3>2, <3>3
  <2>10. ~Wrong(m - 1, E, G)
    <3>1. m - 1 \in Nat /\ m - 1 \notin bad
      BY <2>1, <2>3, <2>5
    <3>2. E \in SUBSET Slots /\ G \in SUBSET Slots
      OBVIOUS
    <3> HIDE DEF Wrong, E, G
    <3>3. QED BY <3>1, <3>2
  <2>11. m - 1 <= Cardinality(G)
    BY <2>8, <2>9, <2>10
  <2>12. QED BY <2>3, <2>4, <2>8, <2>11
<1>2. Cardinality(D0) \in Nat
  BY Few
<1>3. ~Wrong(Cardinality(D0), D0, F0)
  <2>1. Cardinality(D0) \notin bad
    BY <1>1
  <2> HIDE DEF Wrong
  <2>2. QED BY <1>2, <2>1
<1>4. QED BY <1>3


(* A configuration leaves as many slots of advertising as were in use, and *)
(* in use only those that the set before did not have.                     *)
BufferIfTaken(p) == \A i \in Slots : p[i].state = "free" <=> p[i].buf = NoBuffer
ScansInUse(p)    == \A i \in Slots : p[i].buf \in ScanBuffers => p[i].state = "in_use"
AdvSlots(p)      == {i \in Slots : p[i].state # "free" /\ p[i].buf \notin ScanBuffers}
InUse(p)         == {i \in AdvSlots(p) : p[i].state = "in_use"}

LEMMA FreeDirtyCount ==
    ASSUME NEW p \in PoolType, BufferIfTaken(p), ScansInUse(p), NEW f, f = FreeDirty(p)
    PROVE  /\ \A i \in Slots : f[i] = FreeSlot \/ f[i] = p[i]
           /\ \A i \in Slots : p[i].buf \in ScanBuffers => f[i] = p[i]
           /\ Cardinality(AdvSlots(f)) <= Cardinality(InUse(p))
<1> DEFINE same(i)  == {j \in Slots : p[j].buf = p[i].buf /\ p[j].state # "free"}
           dirty(i) == {j \in same(i) : p[j].state = "last_dirty"}
           D == {i \in Slots : p[i].state = "last_dirty"}
           F == {i \in Slots : Cardinality({j \in same(i) : j < i}) < Cardinality(dirty(i))}
           A == AdvSlots(p)
<1>1. \A i \in Slots : f[i] = IF i \in F THEN FreeSlot ELSE p[i]
  BY DEF FreeDirty
<1>2. \A i \in F : dirty(i) # {}
  <2> TAKE i \in F
  <2> SUFFICES ASSUME dirty(i) = {} PROVE FALSE
    OBVIOUS
  <2>1. {j \in same(i) : j < i} \subseteq Slots
    OBVIOUS
  <2>2. Cardinality({j \in same(i) : j < i}) \in Nat
    BY <2>1, Few
  <2>3. Cardinality({j \in same(i) : j < i}) < 0
    BY FS_EmptySet
  <2>4. QED BY <2>2, <2>3
<1>3. F \subseteq A
  <2> SUFFICES ASSUME NEW i \in F PROVE i \in A
    OBVIOUS
  <2>1. PICK j \in dirty(i) : TRUE
    BY <1>2
  <2>2. i \in Slots /\ j \in Slots /\ p[j].buf = p[i].buf /\ p[j].state = "last_dirty"
    OBVIOUS
  <2> HIDE DEF F, dirty, same
  <2>3. p[i].buf # NoBuffer /\ p[i].buf \notin ScanBuffers
    BY <2>2 DEF BufferIfTaken, ScansInUse
  <2>4. QED BY <2>2, <2>3 DEF BufferIfTaken, AdvSlots
<1>4. D \subseteq A
  <2>1. \A i \in D : p[i].buf \notin ScanBuffers
    BY DEF ScansInUse
  <2>2. QED BY <2>1 DEF AdvSlots
<1>5. Covers(p, D, F)
  <2> SUFFICES ASSUME NEW b PROVE Cardinality(With(p, D, b)) <= Cardinality(With(p, F, b))
    BY DEF Covers
  <2> DEFINE C == {j \in Slots : p[j].buf = b /\ p[j].state # "free"}
             E == With(p, D, b)
             n == Cardinality(E)
  <2>1. E \subseteq C /\ C \subseteq Slots
    BY DEF With
  <2>2. n \in Nat /\ n <= Cardinality(C)
    <3> HIDE DEF C, E
    <3>1. QED BY <2>1, Few
  <2>3. n <= Cardinality(FirstOf(C, n))
    <3> HIDE DEF C, E, n
    <3>1. QED BY <2>1, <2>2, FirstCount
  <2>4. FirstOf(C, n) \subseteq With(p, F, b)
    <3> SUFFICES ASSUME NEW i \in FirstOf(C, n) PROVE i \in With(p, F, b)
      OBVIOUS
    <3>1. i \in C /\ Cardinality({j \in C : j < i}) < n
      <4> HIDE DEF n, C
      <4>1. QED BY DEF FirstOf
    <3>2. same(i) = C
      BY <3>1
    <3>3. dirty(i) = E
      BY <3>1 DEF With
    <3>4. Cardinality({j \in same(i) : j < i}) < Cardinality(dirty(i))
      <4> HIDE DEF same, dirty, C, E
      <4>1. QED BY <3>1, <3>2, <3>3
    <3>5. i \in Slots /\ p[i].buf = b
      BY <3>1
    <3>6. QED BY <3>4, <3>5 DEF With
  <2>5. With(p, F, b) \subseteq Slots
    BY DEF With
  <2> HIDE DEF C, E, n, F, D
  <2>6. /\ Cardinality(FirstOf(C, n)) \in Nat /\ Cardinality(With(p, F, b)) \in Nat
        /\ Cardinality(FirstOf(C, n)) <= Cardinality(With(p, F, b))
    BY <2>4, <2>5, Few
  <2>7. n <= Cardinality(With(p, F, b))
    BY <2>2, <2>3, <2>6
  <2>8. QED BY <2>7 DEF n, E
<1>6. D \subseteq Slots /\ F \subseteq Slots /\ A \subseteq Slots
  BY DEF AdvSlots
<1>7. InUse(p) = A \ D
  <2>1. \A i \in A : p[i].state = "in_use" <=> p[i].state # "last_dirty"
    BY DEF AdvSlots, PoolType
  <2>2. QED BY <1>6, <2>1 DEF InUse
<1>8. AdvSlots(f) = A \ F
  <2>1. FreeSlot.state = "free"
    BY DEF FreeSlot
  <2> HIDE DEF F
  <2>2. QED BY <1>1, <2>1 DEF AdvSlots
<1> HIDE DEF D, F, A
<1>9. Cardinality(D) <= Cardinality(F)
  BY <1>5, <1>6, ClassCount
<1>10. Cardinality(A \ D) = Cardinality(A) - Cardinality(D) /\ Cardinality(A \ F) = Cardinality(A) - Cardinality(F)
  <2>1. IsFiniteSet(A) /\ A \cap D = D /\ A \cap F = F
    BY <1>3, <1>4, <1>6, Few
  <2>2. Cardinality(A \ D) = Cardinality(A) - Cardinality(A \cap D)
    BY <2>1, FS_Difference
  <2>3. Cardinality(A \ F) = Cardinality(A) - Cardinality(A \cap F)
    BY <2>1, FS_Difference
  <2>4. QED BY <2>1, <2>2, <2>3
<1>11. Cardinality(A) \in Nat /\ Cardinality(D) \in Nat /\ Cardinality(F) \in Nat
  BY <1>6, Few
<1>12. Cardinality(AdvSlots(f)) <= Cardinality(InUse(p))
  BY <1>7, <1>8, <1>9, <1>10, <1>11
<1>13. \A i \in Slots : p[i].buf \in ScanBuffers => f[i] = p[i]
  BY <1>1, <1>3 DEF A, AdvSlots
<1>14. QED BY <1>1, <1>12, <1>13

LEMMA ConfigureCount ==
    ASSUME NEW p \in PoolType, BufferIfTaken(p), ScansInUse(p), ForSet(advSetData),
           NEW q, q = AfterConfigure(p)
    PROVE  /\ q \in PoolType /\ BufferIfTaken(q) /\ ScansInUse(q)
           /\ \A i \in Slots : q[i].state = "free" \/ q[i].buf = p[i].buf
           /\ Cardinality(AdvSlots(q)) <= Cardinality(InUse(p))
           /\ \A i \in InUse(q) : i \in InUse(p) /\ q[i].buf = p[i].buf
                                  /\ p[i].buf \notin {advSetData[1], advSetData[2]}
<1> DEFINE f == FreeDirty(p)
           m == MarkDirty(f, advSetData[1])
           its == {advSetData[1], advSetData[2]}
<1>1. /\ \A i \in Slots : f[i] = FreeSlot \/ f[i] = p[i]
      /\ \A i \in Slots : p[i].buf \in ScanBuffers => f[i] = p[i]
      /\ Cardinality(AdvSlots(f)) <= Cardinality(InUse(p))
  BY FreeDirtyCount
<1>2. f \in PoolType /\ m \in PoolType
  BY FreeDirtyType, MarkDirtyFacts
<1>3. \A i \in Slots : /\ m[i].buf = f[i].buf
                       /\ m[i].state = IF f[i].buf = advSetData[1] /\ f[i].state = "in_use"
                                       THEN "last_dirty" ELSE f[i].state
  BY <1>2, MarkDirtyFacts
<1>4. q \in PoolType
      /\ \A i \in Slots : /\ q[i].buf = m[i].buf
                          /\ q[i].state = IF m[i].buf = advSetData[2] /\ m[i].state = "in_use"
                                          THEN "last_dirty" ELSE m[i].state
  <2>1. q = MarkDirty(m, advSetData[2])
    BY DEF AfterConfigure
  <2> HIDE DEF m
  <2>2. QED BY <1>2, <2>1, MarkDirtyFacts
<1> HIDE DEF f, m
<1>5. \A i \in Slots : /\ q[i].buf = f[i].buf
                       /\ q[i].state = IF f[i].buf \in its /\ f[i].state = "in_use"
                                       THEN "last_dirty" ELSE f[i].state
  BY <1>3, <1>4
<1>6. FreeSlot.state = "free" /\ FreeSlot.buf = NoBuffer /\ NoBuffer \notin ScanBuffers
  BY NobodyAssumption, AdvDataAssumption DEF FreeSlot
<1>7. BufferIfTaken(q)
  BY <1>1, <1>5, <1>6 DEF BufferIfTaken
<1>8. \A i \in Slots : q[i].state = "free" \/ q[i].buf = p[i].buf
  BY <1>1, <1>5, <1>6
<1>9. ScansInUse(q)
  BY <1>1, <1>5, <1>6 DEF ScansInUse, ForSet
<1>10. AdvSlots(q) = AdvSlots(f)
  <2>1. \A i \in Slots : q[i].buf = f[i].buf /\ (q[i].state = "free" <=> f[i].state = "free")
    BY <1>5
  <2>2. QED BY <2>1 DEF AdvSlots
<1>11. \A i \in InUse(q) : i \in InUse(p) /\ q[i].buf = p[i].buf /\ p[i].buf \notin its
  <2> SUFFICES ASSUME NEW i \in Slots, i \in InUse(q)
               PROVE  i \in InUse(p) /\ q[i].buf = p[i].buf /\ p[i].buf \notin its
    BY DEF InUse, AdvSlots
  <2>1. q[i].state = "in_use" /\ q[i].buf \notin ScanBuffers
    BY DEF InUse, AdvSlots
  <2>2. f[i].state = "in_use" /\ q[i].buf = f[i].buf /\ f[i].buf \notin its
    BY <1>5, <2>1
  <2>3. f[i] = p[i]
    BY <1>1, <1>6, <2>2
  <2>4. QED BY <2>1, <2>2, <2>3 DEF InUse, AdvSlots
<1>12. QED BY <1>1, <1>4, <1>7, <1>8, <1>9, <1>10, <1>11


-----------------------------------------------------------------------------
(* The pool is large enough.  Slots of advertising that are not those of   *)
(* the call are at most those of two sets, of which those of one are in    *)
(* use, with the buffers of the last set; a scan slot is that of the scan, *)
(* of an event or of the call.                                             *)
SetSize == IF \A bufs \in AdvData : NoBuffer \in {bufs[1], bufs[2]} THEN 1 ELSE 2

EventScan(a)   == IF events[a] # <<>> /\ Head(events[a]).kind = "scan" THEN EventRef(a) ELSE Nothing
ScanNumbers(a) == SlotsOf(held[a].scan) \cup SlotsOf(EventScan(a)) \cup SlotsOf(CallRef(a))
Old(a)         == AdvSlots(pool[a]) \ SlotsOf(CallRef(a))
OldInUse(a)    == InUse(pool[a]) \ SlotsOf(CallRef(a))

ScansNamed(a) == \A i \in Slots : pool[a][i].buf \in ScanBuffers => i \in ScanNumbers(a)
OneEach(a)    == held[a].scan.ids[2] \notin Slots /\ EventScan(a).ids[2] \notin Slots
CallSlots(a)  ==
    \A k \in {1, 2} : CallRef(a).ids[k] \in Slots =>
       /\ CallRef(a).bufs[k] # NoBuffer
       /\ \/ pool[a][CallRef(a).ids[k]].state = "free"
          \/ pool[a][CallRef(a).ids[k]].buf = CallRef(a).bufs[k]
OldFit(a) ==
    /\ Cardinality(Old(a)) <= 2 * SetSize
    /\ Cardinality(OldInUse(a)) <= SetSize
    /\ \A i \in OldInUse(a) : pool[a][i].buf \in {advSetData[1], advSetData[2]}

FitInv(a) ==
    /\ BufferIfTaken(pool[a]) /\ ScansInUse(pool[a])
    /\ ScansNamed(a) /\ OneEach(a) /\ CallSlots(a) /\ OldFit(a)

FitsInv == None(Leftovers) =>
    /\ \A t \in Threads : NoFull(call[t])
    /\ \A a \in Adapters : FitInv(a)

LEMMA SizeFacts == SetSize \in {1, 2} /\ SetSize \in Nat /\ 2 * SetSize \in Nat
  BY DEF SetSize

LEMMA NothingFacts ==
    /\ SlotsOf(Nothing) = {} /\ Nothing.ids[1] \notin Slots /\ Nothing.ids[2] \notin Slots
    /\ \A k \in {1, 2} : Nothing.ids[k] \notin Slots
  BY NumberFacts DEF SlotsOf, Nothing

LEMMA OldIsFew ==
    ASSUME NEW a
    PROVE  /\ Old(a) \subseteq Slots /\ OldInUse(a) \subseteq Old(a)
           /\ Cardinality(Old(a)) \in Nat /\ Cardinality(OldInUse(a)) \in Nat
<1>1. Old(a) \subseteq Slots /\ OldInUse(a) \subseteq Old(a)
  BY DEF Old, OldInUse, AdvSlots, InUse
<1>2. QED BY <1>1, Few

(* An adapter whose old slots are as before, or fewer.                      *)
LEMMA OldFewer ==
    ASSUME NEW a, OldFit(a), Old(a)' \subseteq Old(a),
           \A i \in Old(a)' : pool'[a][i] = pool[a][i],
           advSetData' = advSetData \/ OldInUse(a) = {}
    PROVE  OldFit(a)'
<1> DEFINE old == Old(a)'
           use == OldInUse(a)'
<1>1. use \subseteq OldInUse(a) /\ \A i \in use : pool'[a][i].buf = pool[a][i].buf
  <2> SUFFICES ASSUME NEW i \in use PROVE i \in OldInUse(a) /\ pool'[a][i].buf = pool[a][i].buf
    OBVIOUS
  <2>1. i \in old /\ pool'[a][i].state = "in_use"
    BY DEF Old, OldInUse, InUse
  <2>2. pool'[a][i] = pool[a][i] /\ i \in Old(a)
    BY <2>1
  <2> HIDE DEF old, use
  <2>3. QED BY <2>1, <2>2 DEF Old, OldInUse, InUse
<1>2. Old(a) \subseteq Slots /\ OldInUse(a) \subseteq Slots
  BY OldIsFew
<1> HIDE DEF use, old
<1>3. Cardinality(old) <= Cardinality(Old(a)) /\ Cardinality(old) \in Nat /\ Cardinality(Old(a)) \in Nat
  BY <1>2, Few DEF old
<1>4. Cardinality(use) <= Cardinality(OldInUse(a)) /\ Cardinality(use) \in Nat /\ Cardinality(OldInUse(a)) \in Nat
  BY <1>1, <1>2, Few
<1>5. Cardinality(old) <= 2 * SetSize
  BY <1>3, SizeFacts DEF OldFit
<1>6. Cardinality(use) <= SetSize
  BY <1>4, SizeFacts DEF OldFit
<1>7. \A i \in use : pool'[a][i].buf \in {advSetData'[1], advSetData'[2]}
  BY <1>1 DEF OldFit
<1>8. QED BY <1>5, <1>6, <1>7 DEF OldFit, old, use

(* A step that frees slots of an adapter, or none.                         *)
LEMMA FitFewer ==
    ASSUME NEW a, FitInv(a),
           \A i \in Slots : pool'[a][i] = FreeSlot \/ pool'[a][i] = pool[a][i],
           CallRef(a)' = CallRef(a),
           \A i \in Slots : i \in ScanNumbers(a) => i \in ScanNumbers(a)' \/ pool'[a][i] = FreeSlot,
           OneEach(a)', advSetData' = advSetData \/ OldInUse(a) = {}
    PROVE  FitInv(a)'
<1>1. FreeSlot.state = "free" /\ FreeSlot.buf = NoBuffer /\ NoBuffer \notin ScanBuffers
  BY NobodyAssumption, AdvDataAssumption DEF FreeSlot
<1>2. BufferIfTaken(pool'[a]) /\ ScansInUse(pool'[a])
  BY <1>1 DEF FitInv, BufferIfTaken, ScansInUse
<1>3. ScansNamed(a)'
  BY <1>1 DEF FitInv, ScansNamed
<1>4. CallSlots(a)'
  BY <1>1 DEF FitInv, CallSlots
<1>5. Old(a)' \subseteq Old(a) /\ \A i \in Old(a)' : pool'[a][i] = pool[a][i]
  BY <1>1 DEF Old, AdvSlots
<1>6. OldFit(a)'
  BY <1>5, OldFewer DEF FitInv
<1>7. QED BY <1>2, <1>3, <1>4, <1>6 DEF FitInv

LEMMA FitSame ==
    ASSUME NEW a, FitInv(a), pool'[a] = pool[a], held'[a] = held[a], events'[a] = events[a],
           CallRef(a)' = CallRef(a), advSetData' = advSetData \/ OldInUse(a) = {}
    PROVE  FitInv(a)'
<1>1. EventScan(a)' = EventScan(a)
  BY DEF EventScan, EventRef
<1>2. ScanNumbers(a)' = ScanNumbers(a) /\ OneEach(a)'
  BY <1>1 DEF ScanNumbers, FitInv, OneEach
<1>3. QED BY <1>2, FitFewer


LargeEnough == PoolSize >= 3 * SetSize + 2

(* Between calls there is room for the buffers of one.                     *)
LEMMA RoomLeft ==
    ASSUME LargeEnough, NEW a, FitInv(a), CallRef(a) = Nothing,
           NEW free, free = {i \in Slots : pool[a][i].state = "free"}
    PROVE  Cardinality(free) \in Nat /\ Cardinality(free) >= SetSize
<1> DEFINE A == AdvSlots(pool[a])
           S == {i \in Slots : pool[a][i].buf \in ScanBuffers}
           x == held[a].scan.ids[1]
           y == EventScan(a).ids[1]
<1>1. Cardinality(A) <= 2 * SetSize
  <2>1. Old(a) = A
    BY NothingFacts DEF Old
  <2>2. QED BY <2>1 DEF FitInv, OldFit
<1>2. S \subseteq {x, y}
  <2> SUFFICES ASSUME NEW i \in S PROVE i \in {x, y}
    OBVIOUS
  <2>1. i \in Slots /\ i \in ScanNumbers(a)
    BY DEF FitInv, ScansNamed
  <2>2. i \in SlotsOf(held[a].scan) \/ i \in SlotsOf(EventScan(a))
    BY <2>1, NothingFacts DEF ScanNumbers
  <2>3. QED BY <2>1, <2>2 DEF SlotsOf, FitInv, OneEach
<1>3. Cardinality(S) <= 2
  <2>1. IsFiniteSet({x}) /\ Cardinality({x}) = 1
    BY FS_Singleton
  <2>2. IsFiniteSet({x} \cup {y}) /\ Cardinality({x} \cup {y}) \in {1, 2}
    BY <2>1, FS_AddElement
  <2>3. S \in SUBSET ({x} \cup {y})
    BY <1>2
  <2>4. Cardinality(S) <= Cardinality({x} \cup {y})
    BY <2>2, <2>3, FS_Subset
  <2>5. Cardinality(S) \in Nat
    BY Few
  <2>6. QED BY <2>2, <2>4, <2>5
<1>4. A \subseteq Slots /\ S \subseteq Slots /\ free = Slots \ (A \cup S)
  BY NobodyAssumption, AdvDataAssumption DEF AdvSlots, FitInv, BufferIfTaken, ScansInUse
<1> HIDE DEF A, S
<1>5. /\ IsFiniteSet(A) /\ IsFiniteSet(S) /\ IsFiniteSet(Slots)
      /\ Cardinality(A) \in Nat /\ Cardinality(S) \in Nat /\ Cardinality(A \cap S) \in Nat
      /\ Cardinality(A \cup S) \in Nat
  BY <1>4, Few
<1>6. Cardinality(A \cup S) = Cardinality(A) + Cardinality(S) - Cardinality(A \cap S)
  BY <1>5, FS_Union
<1>7. Cardinality(free) = Cardinality(Slots) - Cardinality(Slots \cap (A \cup S))
  BY <1>4, <1>5, FS_Difference
<1>8. Slots \cap (A \cup S) = A \cup S
  BY <1>4
<1>9. Cardinality(Slots) = PoolSize
  BY PoolSizeAssumption, FS_Interval DEF Slots
<1>10. Cardinality(A \cup S) <= 2 * SetSize + 2
  BY <1>1, <1>3, <1>5, <1>6, SizeFacts
<1>11. Cardinality(free) = PoolSize - Cardinality(A \cup S)
  BY <1>7, <1>8, <1>9
<1>12. QED BY <1>5, <1>10, <1>11, SizeFacts, PoolSizeAssumption DEF LargeEnough

LEMMA RegisterRoom ==
    ASSUME NEW p, NEW b, {i \in Slots : p[i].state = "free"} # {}
    PROVE  RegisterId(p, b) # Full
<1> DEFINE free == {i \in Slots : p[i].state = "free"}
<1>1. LowestOf(free) \in free
  BY LowestIn
<1>2. LowestOf(free) # Full /\ 0 # Full
  BY <1>1, NumberFacts
<1>3. QED BY <1>2 DEF RegisterId

LEMMA EncodeFits ==
    ASSUME LargeEnough, TypeInv, IInv, OpInv, NEW t \in Threads, Encode(t), NEW a, a = adapterId, FitInv(a)
    PROVE  FitInv(a)' /\ NoFull(call'[t])
<1> DEFINE b1 == call[t].bufs[1]
           b2 == call[t].bufs[2]
           p  == pool[a]
           p1 == Pool1(t)
           q  == Pool2(t)
           i1 == NewIds(t)[1]
           i2 == NewIds(t)[2]
           r  == CallRef(a)'
<1>1. call[t].at = "encode" /\ UNCHANGED <<advSetData, holder, adapterId, held, events>>
  BY DEF Encode
<1>2. /\ a \in Adapters /\ b1 \in Pointers /\ b2 \in Pointers
      /\ pool' = [pool EXCEPT ![a] = q] /\ NewIds(t) \in (0..Full) \X (0..Full)
      /\ call' = [call EXCEPT ![t].at = "send", ![t].ids = NewIds(t)]
  BY EncodeFacts
<1>3. p \in PoolType /\ pool'[a] = q
  BY <1>2, VarTypes
<1>4. /\ p1 = Register(p, b1) /\ q = Register(p1, b2)
      /\ i1 = RegisterId(p, b1) /\ i2 = RegisterId(p1, b2)
  BY DEF NewIds, Pool1, Pool2
<1>5. /\ CallRef(a) = Nothing
      /\ r.ids[1] = i1 /\ r.ids[2] = i2 /\ r.bufs[1] = b1 /\ r.bufs[2] = b2
      /\ call'[t].ids[1] = i1 /\ call'[t].ids[2] = i2
  <2>1. holder = t
    BY <1>1 DEF IInv, HolderInv, InContext
  <2>2. call[t] \in CallType /\ DOMAIN call = Threads
    BY VarTypes
  <2>3. call'[t].at = "send" /\ call'[t].ids = NewIds(t) /\ call'[t].bufs = call[t].bufs
    BY <1>2, <2>2 DEF CallType
  <2>4. CallRef(a) = Nothing /\ r = [ids |-> NewIds(t), bufs |-> call[t].bufs]
    BY <1>1, <2>1, <2>3 DEF CallRef
  <2>5. QED BY <2>3, <2>4
<1>6. EventScan(a)' = EventScan(a)
  BY <1>1 DEF EventScan, EventRef
<1> HIDE DEF b1, b2, p, p1, q, i1, i2, r
<1>7. /\ i1 \in Slots => /\ p[i1].state = "free" /\ i1 # i2 /\ b1 # NoBuffer
                         /\ q[i1].state = "in_use" /\ q[i1].buf = b1
      /\ i2 \in Slots => /\ p[i2].state = "free" /\ b2 # NoBuffer
                         /\ q[i2].state = "in_use" /\ q[i2].buf = b2
      /\ \A i \in Slots \ {i1, i2} : q[i] = p[i]
      /\ \A i \in Slots : p[i].state # "free" => q[i] = p[i]
  BY <1>2, <1>3, <1>4, TwoSlots
<1>8. SlotsOf(r) = {i1, i2} \cap Slots
  BY <1>5 DEF SlotsOf
<1>9. i1 # Full /\ i2 # Full
  <2> DEFINE free  == {i \in Slots : p[i].state = "free"}
             free1 == {i \in Slots : p1[i].state = "free"}
  <2>1. Cardinality(free) \in Nat /\ Cardinality(free) >= SetSize
    BY <1>5, RoomLeft DEF p
  <2>2. free # {}
    <3>1. Cardinality(free) # 0
      BY <2>1, SizeFacts
    <3>2. QED BY <3>1, FS_EmptySet
  <2>3. i1 # Full
    BY <1>4, <2>2, RegisterRoom
  <2>4. CASE b2 = NoBuffer
    <3>1. i2 = 0
      BY <1>4, <2>4 DEF RegisterId
    <3>2. QED BY <2>3, <3>1, NumberFacts
  <2>5. CASE b2 # NoBuffer /\ b1 = NoBuffer
    <3>1. p1 = p
      BY <1>2, <1>3, <1>4, <2>5, RegisterFacts
    <3>2. QED BY <1>4, <2>2, <2>3, <3>1, RegisterRoom
  <2>6. CASE b2 # NoBuffer /\ b1 # NoBuffer
    <3>1. call[t].bufs \in AdvData
      BY <1>1, <2>6 DEF OpInv, InContext, b2
    <3>2. SetSize = 2
      BY <2>6, <3>1 DEF SetSize, b1, b2
    <3>3. i1 \in free /\ \A i \in Slots \ {i1} : p1[i] = p[i]
      <4>1. \/ b1 = NoBuffer /\ i1 = 0 /\ p1 = p
            \/ b1 # NoBuffer /\ i1 = Full /\ p1 = p
            \/ /\ b1 # NoBuffer /\ i1 \in Slots /\ p[i1].state = "free"
               /\ p1[i1] = [state |-> "in_use", buf |-> b1]
               /\ \A i \in Slots \ {i1} : p1[i] = p[i]
        BY <1>2, <1>3, <1>4, RegisterFacts
      <4>2. QED BY <2>3, <2>6, <4>1
    <3>4. Cardinality(free \ {i1}) = Cardinality(free) - 1
      BY <3>3, Without
    <3>5. free \ {i1} # {}
      <4>1. Cardinality(free \ {i1}) # 0
        BY <2>1, <3>2, <3>4
      <4>2. QED BY <4>1, FS_EmptySet
    <3>6. free \ {i1} \subseteq free1
      BY <3>3
    <3>7. free1 # {}
      BY <3>5, <3>6
    <3>8. QED BY <1>4, <2>3, <3>7, RegisterRoom
  <2>7. QED BY <2>4, <2>5, <2>6
<1>10. NoFull(call'[t])
  BY <1>5, <1>9 DEF NoFull
<1>11. BufferIfTaken(p) /\ ScansInUse(p) /\ ScansNamed(a) /\ OneEach(a) /\ OldFit(a)
  BY DEF FitInv, p
<1>12. BufferIfTaken(q) /\ ScansInUse(q)
  BY <1>7, <1>11 DEF BufferIfTaken, ScansInUse
<1>13. ScansNamed(a)'
  <2> SUFFICES ASSUME NEW i \in Slots, q[i].buf \in ScanBuffers PROVE i \in ScanNumbers(a)'
    BY <1>3 DEF ScansNamed
  <2>1. CASE i \in {i1, i2}
    BY <1>8, <2>1 DEF ScanNumbers, r
  <2>2. CASE i \notin {i1, i2}
    <3>1. i \in ScanNumbers(a)
      BY <1>7, <1>11, <2>2 DEF ScansNamed, p
    <3>2. i \in SlotsOf(held[a].scan) \cup SlotsOf(EventScan(a))
      BY <1>5, <3>1, NothingFacts DEF ScanNumbers
    <3>3. QED BY <1>1, <1>6, <3>2 DEF ScanNumbers
  <2>3. QED BY <2>1, <2>2
<1>14. OneEach(a)'
  BY <1>1, <1>6, <1>11 DEF OneEach
<1>15. CallSlots(a)'
  <2> SUFFICES ASSUME NEW k \in {1, 2}, r.ids[k] \in Slots
               PROVE  r.bufs[k] # NoBuffer /\ pool'[a][r.ids[k]].buf = r.bufs[k]
    BY DEF CallSlots, r
  <2>1. QED BY <1>3, <1>5, <1>7
<1>16. OldFit(a)'
  <2>1. SlotsOf(CallRef(a)) = {}
    BY <1>5, NothingFacts
  <2>2. \A i \in AdvSlots(q) \ SlotsOf(r) : i \in AdvSlots(p) /\ q[i] = p[i]
    <3> SUFFICES ASSUME NEW i \in Slots, i \in AdvSlots(q), i \notin SlotsOf(r)
                 PROVE  i \in AdvSlots(p) /\ q[i] = p[i]
      BY DEF AdvSlots
    <3>1. q[i] = p[i]
      BY <1>7, <1>8
    <3>2. QED BY <3>1 DEF AdvSlots
  <2>3. Old(a) = AdvSlots(p) /\ Old(a)' = AdvSlots(q) \ SlotsOf(r)
    BY <1>3, <2>1 DEF Old, p, r
  <2>4. Old(a)' \subseteq Old(a) /\ \A i \in Old(a)' : pool'[a][i] = pool[a][i]
    BY <1>3, <2>2, <2>3 DEF p
  <2>5. QED BY <1>1, <1>11, <2>4, OldFewer
<1>17. QED BY <1>3, <1>10, <1>12, <1>13, <1>14, <1>15, <1>16 DEF FitInv


(* The slots of the call are those of a set, or of the scan.               *)
LEMMA CallIsFew ==
    ASSUME NEW a, CallSlots(a), NEW t \in Threads, CallRef(a).bufs = call[t].bufs,
           call[t].bufs \in AdvData
    PROVE  /\ Cardinality(SlotsOf(CallRef(a))) \in Nat
           /\ Cardinality(SlotsOf(CallRef(a))) <= SetSize
<1> DEFINE r == CallRef(a)
           x == r.ids[1]
           y == r.ids[2]
<1>1. SlotsOf(r) \subseteq {x, y} /\ SlotsOf(r) \subseteq Slots
  BY DEF SlotsOf
<1>2. Cardinality(SlotsOf(r)) \in Nat
  BY <1>1, Few
<1>3. IsFiniteSet({x}) /\ Cardinality({x}) = 1 /\ IsFiniteSet({y}) /\ Cardinality({y}) = 1
  BY FS_Singleton
<1>4. CASE SetSize = 2
  <2>2. SlotsOf(r) \in SUBSET ({x} \cup {y})
    BY <1>1
  <2> HIDE DEF r, x, y
  <2>0. IsFiniteSet({x}) /\ Cardinality({x}) = 1
    BY <1>3
  <2>1. IsFiniteSet({x} \cup {y}) /\ Cardinality({x} \cup {y}) \in {1, 2}
    BY <2>0, FS_AddElement
  <2>3. Cardinality(SlotsOf(r)) <= Cardinality({x} \cup {y})
    BY <2>1, <2>2, FS_Subset
  <2>4. QED BY <1>2, <1>4, <2>1, <2>3 DEF r
<1>5. CASE SetSize = 1
  <2>1. r.bufs[1] = NoBuffer \/ r.bufs[2] = NoBuffer
    BY <1>5 DEF SetSize
  <2>2. x \notin Slots \/ y \notin Slots
    BY <2>1 DEF CallSlots
  <2>3. SlotsOf(r) \in SUBSET {x} \/ SlotsOf(r) \in SUBSET {y}
    BY <1>1, <2>2
  <2> HIDE DEF r, x, y
  <2>4. Cardinality(SlotsOf(r)) <= 1
    <3>1. CASE SlotsOf(r) \in SUBSET {x}
      BY <1>3, <3>1, FS_Subset
    <3>2. CASE SlotsOf(r) \in SUBSET {y}
      BY <1>3, <3>2, FS_Subset
    <3>3. QED BY <2>3, <3>1, <3>2
  <2>5. QED BY <1>2, <1>5, <2>4 DEF r
<1>6. QED BY <1>4, <1>5, SizeFacts

LEMMA RespondCommon ==
    ASSUME TypeInv, IInv, NEW t \in Threads, Respond(t), None(Leftovers)'
    PROVE  /\ call[t].at = "send" /\ call[t].at \in InContext /\ adapterId \in Adapters
           /\ UNCHANGED <<holder, adapterId, mp_out_params, events>>
           /\ Accepts(adapterId, call[t]) /\ held' = Executed(adapterId, call[t])
           /\ Happens(MishapsOf(adapterId, call[t], TRUE))
           /\ CallRef(adapterId) = [ids |-> call[t].ids, bufs |-> call[t].bufs]
           /\ CallRef(adapterId)' = Nothing
<1>1. /\ call[t].at = "send" /\ call[t].at \in InContext
      /\ UNCHANGED <<holder, adapterId, mp_out_params, events>>
      /\ adapterId \in Adapters
  BY DEF Respond, TypeInv, InContext
<1>2. /\ Accepts(adapterId, call[t]) /\ held' = Executed(adapterId, call[t])
      /\ Happens(MishapsOf(adapterId, call[t], TRUE))
  <2>1. PICK success \in BOOLEAN : /\ success => Accepts(adapterId, call[t])
                                   /\ held' = IF success THEN Executed(adapterId, call[t]) ELSE held
                                   /\ Happens(MishapsOf(adapterId, call[t], success))
    BY DEF Respond
  <2>2. success = TRUE
    <3> SUFFICES ASSUME success = FALSE PROVE FALSE
      BY <2>1
    <3>1. "command failed" \in MishapsOf(adapterId, call[t], success)
      BY DEF MishapsOf, Mishaps
    <3>2. "command failed" \in mishaps'
      BY <2>1, <3>1 DEF Happens
    <3>3. QED BY <3>2 DEF None, Leftovers
  <2>3. QED BY <2>1, <2>2
<1>3. CallRef(adapterId) = [ids |-> call[t].ids, bufs |-> call[t].bufs]
  BY <1>1, CallRefIs
<1>4. CallRef(adapterId)' = Nothing
  <2>1. PICK at \in {"leave", "leave_unset"} : call' = [call EXCEPT ![t].at = at]
    BY DEF Respond
  <2>2. holder' = t /\ call'[t].at # "send"
    BY <1>1, <2>1, VarTypes DEF IInv, HolderInv, CallType
  <2>3. QED BY <2>2 DEF CallRef
<1>5. QED BY <1>1, <1>2, <1>3, <1>4

LEMMA ConfigureFits ==
    ASSUME TypeInv, IInv, OpInv, NEW t \in Threads, Respond(t), NEW a, a = adapterId, FitInv(a),
           None(Leftovers)', call[t].op = "configure"
    PROVE  FitInv(a)'
<1> DEFINE p == pool[a]
           q == pool'[a]
           r == CallRef(a)
           N == SlotsOf(r)
<1>1. /\ call[t].at = "send" /\ call[t].at \in InContext /\ a \in Adapters
      /\ UNCHANGED <<adapterId, mp_out_params, events>>
      /\ held' = Executed(a, call[t]) /\ r.bufs = call[t].bufs /\ CallRef(a)' = Nothing
  <2>1. /\ call[t].at = "send" /\ call[t].at \in InContext /\ adapterId \in Adapters
        /\ UNCHANGED <<adapterId, mp_out_params, events>>
        /\ held' = Executed(adapterId, call[t])
        /\ CallRef(adapterId) = [ids |-> call[t].ids, bufs |-> call[t].bufs]
    BY RespondCommon
  <2>2. CallRef(adapterId)' = Nothing
    BY RespondCommon
  <2>3. CallRef(a)' = Nothing
    BY <2>1, <2>2 DEF CallRef
  <2>4. QED BY <2>1, <2>3
<1>2. p \in PoolType /\ q = AfterConfigure(p) /\ advSetData' = mp_out_params
  BY <1>1, VarTypes DEF Respond
<1>3. /\ mp_out_params = call[t].bufs /\ call[t].bufs \in AdvData /\ ForSet(call[t].bufs)
      /\ ForSet(advSetData)
  BY <1>1 DEF IInv, OwnOutParams, OpInv
<1>4. held'[a].scan = held[a].scan
  BY <1>1, ExecutedType
<1>5. EventScan(a)' = EventScan(a)
  BY <1>1 DEF EventScan, EventRef
<1>6. BufferIfTaken(p) /\ ScansInUse(p) /\ ScansNamed(a) /\ OneEach(a) /\ CallSlots(a) /\ OldFit(a)
  BY DEF FitInv
<1>7. /\ BufferIfTaken(q) /\ ScansInUse(q)
      /\ \A i \in Slots : q[i].state = "free" \/ q[i].buf = p[i].buf
      /\ Cardinality(AdvSlots(q)) <= Cardinality(InUse(p))
      /\ \A i \in InUse(q) : i \in InUse(p) /\ q[i].buf = p[i].buf
                             /\ p[i].buf \notin {advSetData[1], advSetData[2]}
  BY <1>2, <1>3, <1>6, ConfigureCount
<1> HIDE DEF p, q
<1>8. \A i \in N : p[i].state = "free" \/ p[i].buf \in {r.bufs[1], r.bufs[2]}
  BY <1>6 DEF CallSlots, SlotsOf, p
<1>9. ScansNamed(a)'
  <2> SUFFICES ASSUME NEW i \in Slots, q[i].buf \in ScanBuffers PROVE i \in ScanNumbers(a)'
    BY DEF ScansNamed, q
  <2>1. p[i].buf \in ScanBuffers /\ p[i].state = "in_use"
    BY <1>6, <1>7 DEF ScansInUse
  <2>2. i \notin N
    BY <1>1, <1>3, <1>8, <2>1 DEF ForSet
  <2>3. i \in SlotsOf(held[a].scan) \cup SlotsOf(EventScan(a))
    BY <1>6, <2>1, <2>2 DEF ScansNamed, ScanNumbers, p
  <2>4. QED BY <1>4, <1>5, <2>3 DEF ScanNumbers
<1>10. OneEach(a)'
  BY <1>4, <1>5, <1>6 DEF OneEach
<1>11. CallSlots(a)'
  BY <1>1, NothingFacts DEF CallSlots
<1>12. Old(a)' = AdvSlots(q) /\ OldInUse(a)' = InUse(q)
  BY <1>1, NothingFacts DEF Old, OldInUse, q
<1>13. Cardinality(N) \in Nat /\ Cardinality(N) <= SetSize /\ N \subseteq Slots
  <2>1. N \subseteq Slots
    BY DEF SlotsOf
  <2>2. QED BY <1>1, <1>3, <1>6, <2>1, CallIsFew
<1>14. InUse(p) = OldInUse(a) \cup (InUse(p) \cap N)
  BY DEF OldInUse, p
<1> DEFINE U == OldInUse(a)
           V == InUse(p) \cap N
<1>15. U \subseteq Slots /\ V \subseteq N /\ InUse(q) \subseteq Slots /\ AdvSlots(q) \subseteq Slots
  BY DEF OldInUse, InUse, AdvSlots
<1>16. Cardinality(U) <= SetSize
  BY <1>6 DEF OldFit
<1> HIDE DEF U, V, N
<1>17. Cardinality(InUse(p)) <= 2 * SetSize /\ Cardinality(InUse(p)) \in Nat
  <2>1. /\ IsFiniteSet(U) /\ IsFiniteSet(V) /\ Cardinality(U) \in Nat /\ Cardinality(V) \in Nat
        /\ Cardinality(V) <= Cardinality(N)
    BY <1>13, <1>15, Few
  <2>2. U \cap V \subseteq Slots
    BY <1>15
  <2>3. Cardinality(U \cap V) \in Nat
    BY <2>2, Few
  <2>4. Cardinality(U \cup V) = Cardinality(U) + Cardinality(V) - Cardinality(U \cap V)
    BY <2>1, FS_Union
  <2>5. Cardinality(U \cup V) \in Nat
    <3>1. U \cup V \subseteq Slots
      BY <1>13, <1>15
    <3>2. QED BY <3>1, Few
  <2>6. Cardinality(U \cup V) <= 2 * SetSize
    BY <1>13, <1>16, <2>1, <2>3, <2>4, <2>5, SizeFacts
  <2>7. QED BY <1>14, <2>5, <2>6 DEF U, V
<1>18. \A i \in InUse(q) : i \in N /\ q[i].buf \in {r.bufs[1], r.bufs[2]}
  <2> SUFFICES ASSUME NEW i \in InUse(q) PROVE i \in N /\ q[i].buf \in {r.bufs[1], r.bufs[2]}
    OBVIOUS
  <2>1. i \in InUse(p) /\ q[i].buf = p[i].buf /\ p[i].buf \notin {advSetData[1], advSetData[2]}
    BY <1>7
  <2>2. i \notin U
    BY <1>6, <2>1 DEF OldFit, U, p
  <2>3. i \in N
    BY <1>14, <2>1, <2>2 DEF U
  <2>4. p[i].state = "in_use"
    BY <2>1 DEF InUse
  <2>5. QED BY <1>8, <2>1, <2>3, <2>4
<1>19. OldFit(a)'
  <2>1. Cardinality(AdvSlots(q)) \in Nat
    BY <1>15, Few
  <2>2. Cardinality(AdvSlots(q)) <= 2 * SetSize
    BY <1>7, <1>17, <2>1, SizeFacts
  <2>3. InUse(q) \subseteq N
    BY <1>18
  <2>4. Cardinality(InUse(q)) \in Nat /\ Cardinality(InUse(q)) <= Cardinality(N)
    BY <1>13, <2>3, Few
  <2>5. Cardinality(InUse(q)) <= SetSize
    BY <1>13, <2>4, SizeFacts
  <2>6. \A i \in InUse(q) : q[i].buf \in {advSetData'[1], advSetData'[2]}
    BY <1>1, <1>2, <1>3, <1>18
  <2>7. QED BY <1>12, <2>2, <2>5, <2>6 DEF OldFit, q
<1>20. QED BY <1>7, <1>9, <1>10, <1>11, <1>19 DEF FitInv, q


(* A scan starts or is stopped: its slot is that of the device now.        *)
LEMMA ScanFits ==
    ASSUME TypeInv, IInv, OpInv, NEW t \in Threads, Respond(t), NEW a, a = adapterId, FitInv(a),
           None(Leftovers)', call[t].op # "configure"
    PROVE  FitInv(a)'
<1> DEFINE p == pool[a]
           r == CallRef(a)
<1>1. /\ call[t].at = "send" /\ call[t].at \in InContext /\ a \in Adapters
      /\ UNCHANGED <<adapterId, events>>
      /\ held' = Executed(a, call[t]) /\ Accepts(a, call[t]) /\ Happens(MishapsOf(a, call[t], TRUE))
      /\ r.bufs = call[t].bufs /\ r.ids = call[t].ids /\ CallRef(a)' = Nothing
  <2>1. /\ call[t].at = "send" /\ call[t].at \in InContext /\ adapterId \in Adapters
        /\ UNCHANGED <<adapterId, events>>
        /\ held' = Executed(adapterId, call[t]) /\ Accepts(adapterId, call[t])
        /\ Happens(MishapsOf(adapterId, call[t], TRUE))
        /\ CallRef(adapterId) = [ids |-> call[t].ids, bufs |-> call[t].bufs]
    BY RespondCommon
  <2>2. CallRef(adapterId)' = Nothing
    BY RespondCommon
  <2>3. CallRef(a)' = Nothing
    BY <2>1, <2>2 DEF CallRef
  <2>4. r = [ids |-> call[t].ids, bufs |-> call[t].bufs]
    BY <2>1
  <2>5. r.ids = call[t].ids /\ r.bufs = call[t].bufs
    BY <2>4
  <2> HIDE DEF r
  <2>6. QED BY <2>1, <2>3, <2>5
<1>2. UNCHANGED <<pool, advSetData>>
  BY DEF Respond
<1>3. EventScan(a)' = EventScan(a)
  BY <1>1 DEF EventScan, EventRef
<1>4. BufferIfTaken(p) /\ ScansInUse(p) /\ ScansNamed(a) /\ OneEach(a) /\ CallSlots(a) /\ OldFit(a)
  BY DEF FitInv
<1>5. /\ r.bufs[2] = NoBuffer /\ r.bufs[1] \in ScanBuffers \cup {NoBuffer}
      /\ call[t].op = "scan_stop" => r.bufs[1] = NoBuffer
  BY <1>1 DEF OpInv, ForScan
<1>6. held[a].scan = Nothing
  <2>1. CASE call[t].op = "scan_start"
    BY <1>1, <2>1 DEF Accepts
  <2>2. CASE call[t].op = "scan_stop"
    <3> SUFFICES ASSUME held[a].scan # Nothing PROVE FALSE
      OBVIOUS
    <3>1. "scan stopped" \in MishapsOf(a, call[t], TRUE)
      BY <2>2 DEF MishapsOf, Mishaps
    <3>2. "scan stopped" \in mishaps'
      BY <1>1, <3>1 DEF Happens
    <3>3. QED BY <3>2 DEF None, Leftovers
  <2>3. QED BY <1>1, <2>1, <2>2 DEF OpInv
<1>7. r.ids[2] \notin Slots /\ (call[t].op = "scan_stop" => r.ids[1] \notin Slots)
  BY <1>4, <1>5 DEF CallSlots
<1>8. \A i \in SlotsOf(r) : p[i].state = "free" \/ p[i].buf \in ScanBuffers
  BY <1>4, <1>5 DEF CallSlots, SlotsOf, BufferIfTaken
<1>9. /\ SlotsOf(held'[a].scan) = SlotsOf(r) /\ held'[a].scan.ids[2] \notin Slots
  <2>1. CASE call[t].op = "scan_start"
    <3>1. held'[a].scan = [ids |-> call[t].ids, bufs |-> call[t].bufs]
      BY <1>1, <2>1, ExecutedType
    <3>2. held'[a].scan.ids = r.ids
      BY <1>1, <3>1
    <3>3. QED BY <1>7, <3>2 DEF SlotsOf
  <2>2. CASE call[t].op = "scan_stop"
    <3>1. held'[a].scan = Nothing
      BY <1>1, <2>2, ExecutedType
    <3>2. SlotsOf(r) = {}
      BY <1>7, <2>2 DEF SlotsOf
    <3>3. QED BY <3>1, <3>2, NothingFacts
  <2>3. QED BY <1>1, <2>1, <2>2 DEF OpInv
<1>10. ScanNumbers(a)' = ScanNumbers(a)
  BY <1>1, <1>3, <1>6, <1>9, NothingFacts DEF ScanNumbers
<1>11. ScansNamed(a)' /\ OneEach(a)'
  BY <1>2, <1>3, <1>4, <1>9, <1>10 DEF ScansNamed, OneEach
<1>12. CallSlots(a)'
  BY <1>1, NothingFacts DEF CallSlots
<1>13. OldFit(a)'
  <2>1. Old(a)' = AdvSlots(p)
    BY <1>1, <1>2, NothingFacts DEF Old
  <2>2. AdvSlots(p) \subseteq Old(a)
    BY <1>8 DEF AdvSlots, Old
  <2>3. Old(a)' \subseteq Old(a) /\ \A i \in Old(a)' : pool'[a][i] = pool[a][i]
    BY <1>2, <2>1, <2>2
  <2>4. QED BY <1>2, <1>4, <2>3, OldFewer
<1>14. QED BY <1>2, <1>4, <1>11, <1>12, <1>13 DEF FitInv

(* The set of another adapter is noted only when no slot of this one has   *)
(* a buffer of the set that was noted before.                              *)
LEMMA OtherFits ==
    ASSUME TypeInv, IInv, NEW t \in Threads, Respond(t), NEW b \in Adapters, b # adapterId, FitInv(b),
           None(Leftovers)'
    PROVE  FitInv(b)'
<1>1. /\ call[t].at = "send" /\ adapterId \in Adapters /\ UNCHANGED <<adapterId, events>>
      /\ held' = Executed(adapterId, call[t]) /\ Happens(MishapsOf(adapterId, call[t], TRUE))
  BY RespondCommon
<1>2. pool'[b] = pool[b]
  <2>1. pool' = pool \/ pool' = [pool EXCEPT ![adapterId] = AfterConfigure(@)]
    BY DEF Respond
  <2>2. QED BY <2>1, VarTypes
<1>3. held'[b] = held[b] /\ events'[b] = events[b]
  BY <1>1, ExecutedType
<1>4. CallRef(b)' = CallRef(b)
  BY <1>1 DEF CallRef
<1>5. advSetData' = advSetData \/ OldInUse(b) = {}
  <2> SUFFICES ASSUME call[t].op = "configure", NEW i \in OldInUse(b) PROVE FALSE
    BY DEF Respond
  <2>1. i \in Slots /\ pool[b][i].state = "in_use" /\ pool[b][i].buf \in {advSetData[1], advSetData[2]}
    BY DEF OldInUse, InUse, AdvSlots, FitInv, OldFit
  <2>2. pool[b][i].buf # NoBuffer
    BY <2>1 DEF FitInv, BufferIfTaken
  <2>3. pool[b][i].buf \in InPool(pool[b]) \cap {advSetData[1], advSetData[2]}
    BY <2>1, <2>2 DEF InPool
  <2>4. "other adapter" \in MishapsOf(adapterId, call[t], TRUE)
    BY <2>3 DEF MishapsOf, Mishaps
  <2>5. "other adapter" \in mishaps'
    BY <1>1, <2>4 DEF Happens
  <2>6. QED BY <2>5 DEF None, Leftovers
<1>6. QED BY <1>2, <1>3, <1>4, <1>5, FitSame

LEMMA SendEventFits ==
    ASSUME TypeInv, NEW a \in Adapters, NEW kind \in {"adv", "scan"}, SendEvent(a, kind), FitInv(a)
    PROVE  FitInv(a)'
<1> DEFINE e == [kind |-> kind, has |-> held[a][kind]]
           h == [held[a] EXCEPT ![kind] = Nothing]
<1>1. /\ events[a] = <<>> /\ events' = [events EXCEPT ![a] = <<e>>]
      /\ held' = [held EXCEPT ![a] = h]
      /\ UNCHANGED <<pool, holder, adapterId, call, advSetData>>
  BY DEF SendEvent
<1>2. held[a] \in [adv : Ref, scan : Ref] /\ DOMAIN held = Adapters /\ DOMAIN events = Adapters
  BY VarTypes
<1>3. held'[a] = h /\ events'[a] = <<e>>
  BY <1>1, <1>2
<1>4. /\ EventScan(a) = Nothing
      /\ EventScan(a)' = IF kind = "scan" THEN held[a].scan ELSE Nothing
  <2>1. e.has = held[a][kind] /\ e.kind = kind
    OBVIOUS
  <2>2. events'[a] # <<>> /\ Head(events'[a]) = e
    BY <1>3
  <2> HIDE DEF e
  <2>3. QED BY <1>1, <2>1, <2>2 DEF EventScan, EventRef
<1>5. held'[a].scan = IF kind = "scan" THEN Nothing ELSE held[a].scan
  BY <1>2, <1>3
<1>6. CallRef(a)' = CallRef(a)
  BY <1>1 DEF CallRef
<1>7. ScanNumbers(a)' = ScanNumbers(a)
  BY <1>4, <1>5, <1>6 DEF ScanNumbers
<1>8. OneEach(a)'
  BY <1>4, <1>5, NothingFacts DEF FitInv, OneEach
<1>9. QED BY <1>1, <1>6, <1>7, <1>8, FitFewer

LEMMA DecodeEventFits ==
    ASSUME TypeInv, NEW a \in Adapters, DecodeEvent(a), FitInv(a)
    PROVE  FitInv(a)'
<1> DEFINE r  == EventRef(a)
           p  == pool[a]
           p1 == Unregister(p, r.ids[1])
           q  == Unregister(p1, r.ids[2])
<1>1. /\ events[a] # <<>> /\ r = Head(events[a]).has
      /\ pool' = [pool EXCEPT ![a] = q] /\ events' = [events EXCEPT ![a] = <<>>]
      /\ UNCHANGED <<holder, adapterId, call, held, advSetData>>
  BY DEF DecodeEvent, EventRef
<1>2. p \in PoolType /\ r \in Ref /\ DOMAIN pool = Adapters /\ DOMAIN events = Adapters
  BY VarTypes, HeldTypes
<1>3. pool'[a] = q /\ events'[a] = <<>>
  BY <1>1, <1>2
<1>4. EventScan(a)' = Nothing /\ CallRef(a)' = CallRef(a)
  BY <1>1, <1>3 DEF EventScan, CallRef
<1>5. p1 \in PoolType /\ \A i \in Slots : p1[i] = IF i = r.ids[1] THEN FreeSlot ELSE p[i]
  BY <1>2, UnregisterFacts
<1>6. \A i \in Slots : q[i] = IF i = r.ids[2] THEN FreeSlot ELSE p1[i]
  <2> HIDE DEF p1
  <2>1. QED BY <1>5, UnregisterFacts
<1> HIDE DEF q, p1, p, r
<1>7. /\ \A i \in Slots : pool'[a][i] = FreeSlot \/ pool'[a][i] = pool[a][i]
      /\ \A i \in SlotsOf(r) : pool'[a][i] = FreeSlot
  BY <1>3, <1>5, <1>6 DEF SlotsOf, p
<1>8. SlotsOf(EventScan(a)) \subseteq SlotsOf(r)
  BY NothingFacts DEF EventScan, r
<1>9. \A i \in Slots : i \in ScanNumbers(a) => i \in ScanNumbers(a)' \/ pool'[a][i] = FreeSlot
  BY <1>1, <1>4, <1>7, <1>8 DEF ScanNumbers
<1>10. OneEach(a)'
  BY <1>1, <1>4, NothingFacts DEF FitInv, OneEach
<1>11. QED BY <1>1, <1>4, <1>7, <1>9, <1>10, FitFewer


(* Only the encoder gives a call the numbers of slots.                     *)
LEMMA IdsKept ==
    ASSUME TypeInv, [Next]_vars, NEW u \in Threads, ~Encode(u)
    PROVE  call'[u].ids = call[u].ids \/ call'[u].ids = <<0, 0>>
<1>0. call \in [Threads -> CallType] /\ NoCall.ids = <<0, 0>>
  BY VarTypes DEF NoCall
<1>1. ASSUME NEW t \in Threads, NEW at, \/ call' = [call EXCEPT ![t].at = at]
                                        \/ call' = [call EXCEPT ![t] = [@ EXCEPT !.at = at]]
      PROVE  call'[u].ids = call[u].ids
  <2> DEFINE c == [call[t] EXCEPT !.at = at]
  <2>1. call' = [call EXCEPT ![t] = c]
    BY <1>1
  <2>2. c.ids = call[t].ids
    BY <1>0 DEF CallType
  <2> HIDE DEF c
  <2>3. QED BY <1>0, <2>1, <2>2
<1>2. ASSUME NEW t \in Threads, Enter(t) PROVE call'[u].ids = call[u].ids \/ call'[u].ids = <<0, 0>>
  <2>1. PICK c \in CallType : call' = [call EXCEPT ![t] = c] /\ c.ids = <<0, 0>>
    BY <1>2, EnterFacts
  <2>2. QED BY <1>0, <2>1
<1>3. ASSUME NEW t \in Threads, Encode(t) PROVE call'[u].ids = call[u].ids
  <2>1. t # u
    BY <1>3
  <2>2. call' = [call EXCEPT ![t].at = "send", ![t].ids = NewIds(t)]
    BY <1>3, EncodeFacts
  <2>3. QED BY <1>0, <2>1, <2>2
<1>4. ASSUME NEW t \in Threads, Respond(t) \/ SendFails(t) \/ RespondGarbage(t)
      PROVE  call'[u].ids = call[u].ids
  <2>1. \E at : call' = [call EXCEPT ![t].at = at]
    BY <1>4 DEF Respond, SendFails, RespondGarbage
  <2>2. QED BY <1>1, <2>1
<1>5. ASSUME NEW t \in Threads, Leave(t) \/ ScanStopUnset(t)
      PROVE  call'[u].ids = call[u].ids \/ call'[u].ids = <<0, 0>>
  <2>1. \/ \E at : call' = [call EXCEPT ![t] = [@ EXCEPT !.at = at]]
        \/ call' = [call EXCEPT ![t] = NoCall]
    <3>1. CASE Leave(t)
      <4>1. CASE call[t].at = "leave"
        BY <3>1, <4>1 DEF Leave
      <4>2. CASE call[t].at # "leave"
        BY <3>1, <4>2 DEF Leave
      <4>3. QED BY <4>1, <4>2
    <3>2. CASE ScanStopUnset(t)
      <4>1. CASE UnsetHangs
        BY <3>2, <4>1 DEF ScanStopUnset
      <4>2. CASE ~UnsetHangs
        BY <3>2, <4>2 DEF ScanStopUnset
      <4>3. QED BY <4>1, <4>2
    <3>3. QED BY <1>5, <3>1, <3>2
  <2>2. CASE \E at : call' = [call EXCEPT ![t] = [@ EXCEPT !.at = at]]
    BY <1>1, <2>2
  <2>3. CASE call' = [call EXCEPT ![t] = NoCall]
    BY <1>0, <2>3
  <2>4. QED BY <2>1, <2>2, <2>3
<1>6. CASE UNCHANGED call
  BY <1>6
<1>7. (\E a \in Adapters : Event(a)) \/ UNCHANGED vars => UNCHANGED call
  BY DEF Event, SendEvent, DecodeEvent, vars
<1>8. QED BY <1>2, <1>3, <1>4, <1>5, <1>6, <1>7 DEF Next, Call

LEMMA StepFitInv ==
    ASSUME LargeEnough, TypeInv, IInv, OpInv, [Next]_vars, None(Leftovers)', NEW b \in Adapters,
           FitInv(b)
    PROVE  FitInv(b)'
<1>0. CallShape /\ DOMAIN pool = Adapters /\ DOMAIN held = Adapters /\ DOMAIN events = Adapters
  BY VarTypes DEF IInv
<1>1. ASSUME NEW t \in Threads, Enter(t) PROVE FitInv(b)'
  <2>1. holder = NoThread /\ holder' = t /\ UNCHANGED <<pool, held, events, advSetData>>
    BY <1>1 DEF Enter, CodecMutexFree
  <2>2. PICK c \in CallType : call' = [call EXCEPT ![t] = c] /\ c.at = "encode"
    BY <1>1, EnterFacts
  <2>3. call'[t].at = "encode"
    BY <1>0, <2>2 DEF CallShape
  <2>4. CallRef(b) = Nothing /\ CallRef(b)' = Nothing
    BY <2>1, <2>3, NobodyAssumption DEF CallRef
  <2>5. QED BY <2>1, <2>4, FitSame
<1>2. ASSUME NEW t \in Threads, Encode(t) PROVE FitInv(b)'
  <2>1. call[t].at = "encode" /\ UNCHANGED <<holder, adapterId, held, events, advSetData>>
    BY <1>2 DEF Encode
  <2>2. CASE b = adapterId
    BY <1>2, <2>2, EncodeFits
  <2>3. CASE b # adapterId
    <3>1. pool'[b] = pool[b]
      BY <1>0, <1>2, <2>3, EncodeFacts
    <3>2. CallRef(b) = Nothing /\ CallRef(b)' = Nothing
      BY <2>1, <2>3 DEF CallRef
    <3>3. QED BY <2>1, <3>1, <3>2, FitSame
  <2>4. QED BY <2>2, <2>3
<1>3. ASSUME NEW t \in Threads, Respond(t) PROVE FitInv(b)'
  <2>1. CASE b = adapterId /\ call[t].op = "configure"
    BY <1>3, <2>1, ConfigureFits
  <2>2. CASE b = adapterId /\ call[t].op # "configure"
    BY <1>3, <2>2, ScanFits
  <2>3. CASE b # adapterId
    BY <1>3, <2>3, OtherFits
  <2>4. QED BY <2>1, <2>2, <2>3
<1>4. ASSUME NEW t \in Threads, SendFails(t) \/ RespondGarbage(t) PROVE FitInv(b)'
  <2>1. "command failed" \in mishaps'
    BY <1>4 DEF SendFails, RespondGarbage, Happens
  <2>2. QED BY <2>1 DEF None, Leftovers
<1>5. ASSUME NEW t \in Threads, Leave(t) PROVE FitInv(b)'
  <2>1. /\ call[t].at \in {"leave", "leave_unset"} /\ holder' = NoThread
        /\ UNCHANGED <<pool, held, events, advSetData>>
    BY <1>5 DEF Leave
  <2>2. holder = t
    BY <2>1 DEF IInv, HolderInv, InContext
  <2>3. CallRef(b) = Nothing /\ CallRef(b)' = Nothing
    BY <2>1, <2>2, NobodyAssumption DEF CallRef
  <2>4. QED BY <2>1, <2>3, FitSame
<1>6. ASSUME NEW t \in Threads, ScanStopUnset(t) PROVE FitInv(b)'
  <2>1. call[t].at = "unset" /\ UNCHANGED <<pool, holder, adapterId, held, events, advSetData>>
    BY <1>6 DEF ScanStopUnset
  <2>2. holder # t
    BY <2>1 DEF IInv, HolderInv, InContext
  <2>3. \A u \in Threads \ {t} : call'[u] = call[u]
    BY <1>0, <1>6, UnsetFacts
  <2>4. CallRef(b)' = CallRef(b)
    BY <2>1, <2>2, <2>3 DEF CallRef
  <2>5. QED BY <2>1, <2>4, FitSame
<1>7. ASSUME NEW a \in Adapters, NEW kind \in {"adv", "scan"}, SendEvent(a, kind) PROVE FitInv(b)'
  <2>1. CASE a = b
    BY <1>7, <2>1, SendEventFits
  <2>2. CASE a # b
    <3>1. /\ events' = [events EXCEPT ![a] = <<[kind |-> kind, has |-> held[a][kind]]>>]
          /\ held' = [held EXCEPT ![a][kind] = Nothing]
          /\ UNCHANGED <<pool, holder, adapterId, call, advSetData>>
      BY <1>7 DEF SendEvent
    <3>2. CallRef(b)' = CallRef(b) /\ held'[b] = held[b] /\ events'[b] = events[b]
      BY <1>0, <2>2, <3>1 DEF CallRef
    <3>3. QED BY <3>1, <3>2, FitSame
  <2>3. QED BY <2>1, <2>2
<1>8. ASSUME NEW a \in Adapters, DecodeEvent(a) PROVE FitInv(b)'
  <2>1. CASE a = b
    BY <1>8, <2>1, DecodeEventFits
  <2>2. CASE a # b
    <3>1. /\ events' = [events EXCEPT ![a] = <<>>]
          /\ UNCHANGED <<holder, adapterId, call, held, advSetData>>
          /\ pool' = [pool EXCEPT ![a] = Unregister(Unregister(@, Head(events[a]).has.ids[1]),
                                                    Head(events[a]).has.ids[2])]
      BY <1>8 DEF DecodeEvent
    <3>2. CallRef(b)' = CallRef(b) /\ held'[b] = held[b] /\ events'[b] = events[b] /\ pool'[b] = pool[b]
      BY <1>0, <2>2, <3>1 DEF CallRef
    <3>3. QED BY <3>1, <3>2, FitSame
  <2>3. QED BY <2>1, <2>2
<1>9. CASE UNCHANGED vars
  <2>1. UNCHANGED <<pool, holder, adapterId, call, held, events, advSetData>>
    BY <1>9 DEF vars
  <2>2. CallRef(b)' = CallRef(b)
    BY <2>1 DEF CallRef
  <2>3. QED BY <2>1, <2>2, FitSame
<1>10. CASE \E t \in Threads : Call(t)
  BY <1>10, <1>1, <1>2, <1>3, <1>4, <1>5, <1>6 DEF Call
<1>11. CASE \E a \in Adapters : Event(a)
  BY <1>11, <1>7, <1>8 DEF Event
<1>12. QED BY <1>9, <1>10, <1>11 DEF Next

LEMMA StepFitsInv ==
    ASSUME LargeEnough, TypeInv, IInv, OpInv, FitsInv, [Next]_vars
    PROVE  FitsInv'
<1> SUFFICES ASSUME None(Leftovers)'
             PROVE  (\A u \in Threads : NoFull(call'[u])) /\ \A b \in Adapters : FitInv(b)'
  BY DEF FitsInv, NoFull
<1>1. None(Leftovers)
  <2>1. mishaps \subseteq mishaps'
    BY DEF Next, Call, Event, Enter, Encode, Respond, SendFails, RespondGarbage, Leave, ScanStopUnset,
           SendEvent, DecodeEvent, Happens, vars
  <2>2. QED BY <2>1 DEF None
<1>2. (\A u \in Threads : NoFull(call[u])) /\ \A b \in Adapters : FitInv(b)
  BY <1>1 DEF FitsInv
<1>3. ASSUME NEW u \in Threads PROVE NoFull(call'[u])
  <2>1. CASE Encode(u)
    <3>1. adapterId \in Adapters
      BY <2>1, EncodeFacts
    <3>2. QED BY <1>2, <2>1, <3>1, EncodeFits
  <2>2. CASE ~Encode(u)
    <3>1. call'[u].ids = call[u].ids \/ call'[u].ids = <<0, 0>>
      BY <2>2, IdsKept
    <3>2. QED BY <1>2, <3>1, NumberFacts DEF NoFull
  <2>3. QED BY <2>1, <2>2
<1>4. \A b \in Adapters : FitInv(b)'
  BY <1>2, StepFitInv
<1>5. QED BY <1>3, <1>4

LEMMA InitFitsInv == Init => FitsInv
<1> SUFFICES ASSUME Init PROVE FitsInv
  OBVIOUS
<1>1. \A t \in Threads : NoFull(call[t])
  <2>1. NoCall.ids = <<0, 0>>
    BY DEF NoCall
  <2>2. \A t \in Threads : call[t] = NoCall
    BY DEF Init
  <2>3. QED BY <2>1, <2>2, NumberFacts DEF NoFull
<1>2. ASSUME NEW a \in Adapters PROVE FitInv(a)
  <2>1. /\ pool[a] = [i \in Slots |-> FreeSlot] /\ held[a] = [adv |-> Nothing, scan |-> Nothing]
        /\ events[a] = <<>> /\ holder = NoThread
    BY DEF Init
  <2>2. EventScan(a) = Nothing /\ CallRef(a) = Nothing /\ held[a].scan = Nothing
    BY <2>1, NobodyAssumption DEF EventScan, CallRef
  <2>3. \A i \in Slots : pool[a][i].state = "free" /\ pool[a][i].buf = NoBuffer
    BY <2>1 DEF FreeSlot
  <2>4. BufferIfTaken(pool[a]) /\ ScansInUse(pool[a]) /\ ScansNamed(a)
    BY <2>3, NobodyAssumption, AdvDataAssumption DEF BufferIfTaken, ScansInUse, ScansNamed
  <2>5. OneEach(a) /\ CallSlots(a)
    BY <2>2, NothingFacts DEF OneEach, CallSlots
  <2>6. Old(a) = {} /\ OldInUse(a) = {}
    BY <2>3 DEF Old, OldInUse, AdvSlots, InUse
  <2>7. Cardinality({}) = 0
    BY FS_EmptySet
  <2>8. OldFit(a)
    BY <2>6, <2>7, SizeFacts DEF OldFit
  <2>9. QED BY <2>4, <2>5, <2>8 DEF FitInv
<1>3. QED BY <1>1, <1>2 DEF FitsInv

(* The pool is large enough.  With sets of two buffers three sets and two  *)
(* scan buffers are 8 slots, APP_BLE_GAP_ADV_BUF_COUNT: the set whose       *)
(* slots are dirty, the one that is configured, the one that is being      *)
(* configured, the buffer of the report that is not decoded and that of    *)
(* the scan.  With sets of one buffer 5 slots are enough.  The hypothesis  *)
(* Apart is that of BuffersComeBack.                                       *)
THEOREM PoolIsLargeEnough == ASSUME Apart, LargeEnough PROVE Spec => []Fits
<1> DEFINE Inv == TypeInv /\ IInv /\ OpInv /\ FitsInv
<1>1. Init => Inv
  BY InitTypeInv, InitIInv, InitOpInv, InitFitsInv
<1>2. Inv /\ [Next]_vars => Inv'
  BY Apart, LargeEnough, StepTypeInv, StepIInv, StepOpInv, StepFitsInv
<1>3. Inv => Fits
  BY DEF FitsInv, Fits, NoFull
<1>4. QED BY <1>1, <1>2, <1>3, PTL DEF Spec
=============================================================================
