-------------------------- MODULE AppBleGap_proofs --------------------------
(***************************************************************************)
(* Proofs about the codec contexts and the key table, for any number of    *)
(* adapters, application threads, connections, slots and replies: the      *)
(* types, that a context has one thread at a time, that a codec never      *)
(* works on the state of another adapter, that a pairing has a slot of its *)
(* own, and that its keys go to its own keyset.                            *)
(***************************************************************************)
EXTENDS AppBleGap, FiniteSetTheorems, TLAPS

-----------------------------------------------------------------------------
(* The parts of TypeOK: the variables, and who holds a context.            *)

VarTypes ==
    /\ codec_mutex \in [Contexts -> Threads \union {none}]
    /\ adapter_id \in [Contexts -> Adapters \union {none}]
    /\ app_keys_table \in [Adapters -> [Slots -> Slot]]
    /\ pc \in [Contexts -> [Threads -> Stages]]
    /\ job \in [Contexts -> [Threads -> Job]]
    /\ replies \in 0..MaxReplies
    /\ pairing \in [Adapters -> [Handles -> 0..MaxReplies]]
    /\ mishap \in [Adapters -> BOOLEAN]

HolderInv ==
    \A c \in Contexts, t \in Threads : codec_mutex[c] = t <=> pc[c][t] \notin Outside

LEMMA TypeParts == TypeOK <=> VarTypes /\ HolderInv
  BY DEF TypeOK, VarTypes, HolderInv

LEMMA ConstantFacts ==
    /\ Adapters \subseteq Threads /\ none \notin Threads
    /\ 0 \in Slots /\ 0 \in Handles /\ 0 \in 0..MaxReplies
    /\ NoJob \in Job /\ {"request", "event"} = Contexts
    /\ Working = {"create", "name", "update", "reset", "send", "answer",
                  "find", "get", "destroy", "callback"}
    /\ Working \subseteq Stages \ Outside
<1>1. 0 \in Slots /\ 0 \in Handles /\ 0 \in 0..MaxReplies
  BY HandlesAssumption, BoundsAssumption DEF Slots
<1>2. NoJob \in Job
  BY <1>1 DEF NoJob, Job
<1>3. Working = {"create", "name", "update", "reset", "send", "answer",
                 "find", "get", "destroy", "callback"}
  BY DEF Working, Stages, Outside
<1>4. QED
  BY <1>1, <1>2, <1>3, ThreadsAssumption DEF Threads, Contexts, Stages, Outside

LEMMA GotoFacts ==
    ASSUME VarTypes, NEW c \in Contexts, NEW t \in Threads, NEW label \in Stages,
           Goto(c, t, label)
    PROVE  /\ pc' \in [Contexts -> [Threads -> Stages]]
           /\ pc'[c][t] = label
           /\ \A d \in Contexts, u \in Threads : d # c \/ u # t => pc'[d][u] = pc[d][u]
  BY DEF VarTypes, Goto

(* The fields of a job.                                                    *)
LEMMA JobFacts ==
    ASSUME VarTypes, NEW c \in Contexts, NEW t \in Threads
    PROVE  /\ job[c][t] \in Job
           /\ job[c][t].handle \in Handles /\ job[c][t].keyset \in 0..MaxReplies
           /\ job[c][t].index \in Slots /\ job[c][t].adapter \in Adapters \union {none}
           /\ job[c][t].kind \in {"reply", "enable", "auth_status"}
<1>1. job[c][t] \in Job
  BY DEF VarTypes
<1>2. QED BY <1>1 DEF Job

(* A field of a slot is set.                                               *)
LEMMA SlotFacts ==
    ASSUME VarTypes, NEW a \in Adapters, NEW i \in Slots
    PROVE  /\ app_keys_table[a][i] \in Slot
           /\ [app_keys_table[a][i] EXCEPT !.conn_active = TRUE] \in Slot
           /\ [app_keys_table[a][i] EXCEPT !.conn_active = FALSE] \in Slot
           /\ \A h \in Handles : [app_keys_table[a][i] EXCEPT !.conn_handle = h] \in Slot
           /\ \A k \in 0..MaxReplies : [app_keys_table[a][i] EXCEPT !.keyset = k] \in Slot
<1>1. app_keys_table[a][i] \in Slot
  BY DEF VarTypes
<1>2. QED BY <1>1 DEF Slot

LEMMA TableFacts ==
    ASSUME VarTypes, NEW a \in Adapters \union {none}, NEW i \in Slots, NEW slot,
           a \in Adapters => slot \in Slot,
           app_keys_table' = [app_keys_table EXCEPT ![a][i] = slot]
    PROVE  app_keys_table' \in [Adapters -> [Slots -> Slot]]
<1>1. CASE a \in Adapters
  BY <1>1 DEF VarTypes
<1>2. CASE a \notin Adapters
  BY <1>2 DEF VarTypes
<1>3. QED BY <1>1, <1>2

(* The index of the slot is kept in the job.                               *)
LEMMA IndexFacts ==
    ASSUME VarTypes, NEW c \in Contexts, NEW t \in Threads, NEW i \in Slots,
           job' = [job EXCEPT ![c][t].index = i]
    PROVE  /\ job' \in [Contexts -> [Threads -> Job]]
           /\ \A d \in Contexts, u \in Threads : job'[d][u].adapter = job[d][u].adapter
<1>1. job[c][t] \in Job /\ job \in [Contexts -> [Threads -> Job]]
  BY DEF VarTypes
<1>2. [job[c][t] EXCEPT !.index = i] \in Job
  BY <1>1 DEF Job
<1>3. [job[c][t] EXCEPT !.index = i].adapter = job[c][t].adapter
  BY <1>1 DEF Job
<1>4. job' = [job EXCEPT ![c][t] = [job[c][t] EXCEPT !.index = i]]
  BY <1>1
<1>5. QED BY <1>1, <1>2, <1>3, <1>4

(* A step of a thread inside its context leaves the contexts as they are.  *)
LEMMA InsideStep ==
    ASSUME VarTypes, HolderInv, NeverAnotherAdapter,
           NEW c \in Contexts, NEW t \in Threads, pc[c][t] \in Working,
           NEW label \in Working \union {"unlock"}, Goto(c, t, label),
           UNCHANGED contextVars,
           \A d \in Contexts, u \in Threads : job'[d][u].adapter = job[d][u].adapter
    PROVE  /\ pc' \in [Contexts -> [Threads -> Stages]]
           /\ codec_mutex' \in [Contexts -> Threads \union {none}]
           /\ adapter_id' \in [Contexts -> Adapters \union {none}]
           /\ HolderInv' /\ NeverAnotherAdapter'
<1>1. label \in Stages \ Outside /\ pc[c][t] \notin Outside
  BY ConstantFacts DEF Stages, Outside
<1>2. /\ pc' \in [Contexts -> [Threads -> Stages]]
      /\ pc'[c][t] = label
      /\ \A d \in Contexts, u \in Threads : d # c \/ u # t => pc'[d][u] = pc[d][u]
  BY <1>1, GotoFacts
<1>3. HolderInv'
  BY <1>1, <1>2 DEF HolderInv, contextVars
<1>4. NeverAnotherAdapter'
  BY <1>1, <1>2 DEF NeverAnotherAdapter, contextVars
<1>5. QED BY <1>2, <1>3, <1>4 DEF contextVars, VarTypes

LEMMA InitContexts == Init => VarTypes /\ HolderInv /\ NeverAnotherAdapter
<1> SUFFICES ASSUME Init PROVE VarTypes /\ HolderInv /\ NeverAnotherAdapter
  OBVIOUS
<1>1. [conn_active |-> FALSE, conn_handle |-> 0, keyset |-> 0] \in Slot
  BY ConstantFacts DEF Slot
<1>2. VarTypes
  BY <1>1, ConstantFacts DEF Init, VarTypes, Stages
<1>3. HolderInv
  BY ConstantFacts DEF Init, HolderInv, Outside
<1>4. NeverAnotherAdapter
  BY ConstantFacts DEF Init, NeverAnotherAdapter
<1>5. QED BY <1>2, <1>3, <1>4

-----------------------------------------------------------------------------
(* Entering and leaving a context.                                         *)

LEMMA EnterStep ==
    ASSUME VarTypes, HolderInv, NeverAnotherAdapter,
           NEW c \in Contexts, NEW t \in Threads, NEW a \in Adapters,
           NEW kind \in {"reply", "enable", "auth_status"}, NEW h \in Handles,
           NEW keyset \in 0..MaxReplies, Enter(c, t, a, kind, h, keyset),
           replies' \in 0..MaxReplies
    PROVE  VarTypes' /\ HolderInv' /\ NeverAnotherAdapter'
<1> DEFINE new == [adapter |-> a, kind |-> kind, handle |-> h, keyset |-> keyset, index |-> 0]
<1>1. /\ pc[c][t] = "idle" /\ Goto(c, t, "lock") /\ "lock" \in Stages
      /\ job' = [job EXCEPT ![c][t] = new]
      /\ UNCHANGED <<codec_mutex, adapter_id, app_keys_table, pairing, mishap>>
  BY DEF Enter, At, contextVars, deviceVars, Stages
<1>2. /\ pc' \in [Contexts -> [Threads -> Stages]]
      /\ pc'[c][t] = "lock"
      /\ \A d \in Contexts, u \in Threads : d # c \/ u # t => pc'[d][u] = pc[d][u]
  BY <1>1, GotoFacts
<1>3. new \in Job
  BY ConstantFacts DEF Job
<1>4. /\ job' \in [Contexts -> [Threads -> Job]]
      /\ \A d \in Contexts, u \in Threads : d # c \/ u # t => job'[d][u] = job[d][u]
  BY <1>1, <1>3 DEF VarTypes
<1>5. VarTypes'
  BY <1>1, <1>2, <1>4 DEF VarTypes
<1>6. HolderInv'
  BY <1>1, <1>2 DEF HolderInv, Outside
<1>7. NeverAnotherAdapter'
  BY <1>1, <1>2, <1>4, ConstantFacts DEF NeverAnotherAdapter
<1>8. QED BY <1>5, <1>6, <1>7

LEMMA ContextStep ==
    ASSUME VarTypes, HolderInv, NeverAnotherAdapter,
           NEW c \in Contexts, NEW t \in Threads, Context(c, t)
    PROVE  VarTypes' /\ HolderInv' /\ NeverAnotherAdapter'
<1>1. CASE SetAdapterId(c, t)
  <2> DEFINE label == FirstStage(job[c][t].kind)
  <2>1. /\ pc[c][t] = "lock" /\ codec_mutex[c] = none /\ Goto(c, t, label)
        /\ codec_mutex' = [codec_mutex EXCEPT ![c] = t]
        /\ adapter_id' = [adapter_id EXCEPT ![c] = job[c][t].adapter]
        /\ UNCHANGED <<app_keys_table, job, replies, pairing, mishap>>
    BY <1>1 DEF SetAdapterId, At, Free, deviceVars
  <2>2. label \in Stages \ Outside
    BY JobFacts DEF FirstStage, Stages, Outside
  <2>3. /\ pc' \in [Contexts -> [Threads -> Stages]]
        /\ pc'[c][t] = label
        /\ \A d \in Contexts, u \in Threads : d # c \/ u # t => pc'[d][u] = pc[d][u]
    BY <2>1, <2>2, GotoFacts
  <2>4. /\ codec_mutex' \in [Contexts -> Threads \union {none}]
        /\ adapter_id' \in [Contexts -> Adapters \union {none}]
        /\ codec_mutex'[c] = t /\ adapter_id'[c] = job[c][t].adapter
        /\ \A d \in Contexts : d # c => codec_mutex'[d] = codec_mutex[d]
                                         /\ adapter_id'[d] = adapter_id[d]
    BY <2>1, JobFacts DEF VarTypes
  <2>5. VarTypes'
    BY <2>1, <2>3, <2>4 DEF VarTypes
  <2>6. \A u \in Threads : pc[c][u] \in Outside
    BY <2>1, ConstantFacts DEF HolderInv
  <2>7. HolderInv'
    BY <2>2, <2>3, <2>4, <2>6 DEF HolderInv
  <2>8. NeverAnotherAdapter'
    BY <2>1, <2>3, <2>4, <2>6, ConstantFacts DEF NeverAnotherAdapter
  <2>9. QED BY <2>5, <2>7, <2>8
<1>2. CASE Unlock(c, t)
  <2>1. /\ pc[c][t] = "unlock" /\ Goto(c, t, "clear") /\ "clear" \in Stages
        /\ codec_mutex' = [codec_mutex EXCEPT ![c] = none]
        /\ UNCHANGED <<adapter_id, app_keys_table, job, replies, pairing, mishap>>
    BY <1>2 DEF Unlock, Unlocked, At, deviceVars, Stages
  <2>2. /\ pc' \in [Contexts -> [Threads -> Stages]]
        /\ pc'[c][t] = "clear"
        /\ \A d \in Contexts, u \in Threads : d # c \/ u # t => pc'[d][u] = pc[d][u]
    BY <2>1, GotoFacts
  <2>3. /\ codec_mutex' \in [Contexts -> Threads \union {none}]
        /\ codec_mutex'[c] = none
        /\ \A d \in Contexts : d # c => codec_mutex'[d] = codec_mutex[d]
    BY <2>1 DEF VarTypes
  <2>4. VarTypes'
    BY <2>1, <2>2, <2>3 DEF VarTypes
  <2>5. \A u \in Threads : u # t => pc[c][u] \in Outside
    BY <2>1 DEF HolderInv, Outside
  <2>6. HolderInv'
    BY <2>2, <2>3, <2>5, ConstantFacts DEF HolderInv, Outside
  <2>7. NeverAnotherAdapter'
    BY <2>1, <2>2, ConstantFacts DEF NeverAnotherAdapter
  <2>8. QED BY <2>4, <2>6, <2>7
<1>3. CASE ClearAdapterId(c, t)
  <2>1. /\ pc[c][t] = "clear" /\ Goto(c, t, "idle") /\ "idle" \in Stages
        /\ adapter_id' = [adapter_id EXCEPT ![c] = none]
        /\ job' = [job EXCEPT ![c][t] = NoJob]
        /\ UNCHANGED <<codec_mutex, app_keys_table, replies, pairing, mishap>>
    BY <1>3 DEF ClearAdapterId, At, deviceVars, Stages
  <2>2. /\ pc' \in [Contexts -> [Threads -> Stages]]
        /\ pc'[c][t] = "idle"
        /\ \A d \in Contexts, u \in Threads : d # c \/ u # t => pc'[d][u] = pc[d][u]
    BY <2>1, GotoFacts
  <2>3. /\ adapter_id' \in [Contexts -> Adapters \union {none}]
        /\ adapter_id'[c] = none
        /\ \A d \in Contexts : d # c => adapter_id'[d] = adapter_id[d]
    BY <2>1 DEF VarTypes
  <2>4. /\ job' \in [Contexts -> [Threads -> Job]]
        /\ \A d \in Contexts, u \in Threads : d # c \/ u # t => job'[d][u] = job[d][u]
    BY <2>1, ConstantFacts DEF VarTypes
  <2>5. VarTypes'
    BY <2>1, <2>2, <2>3, <2>4 DEF VarTypes
  <2>6. HolderInv'
    BY <2>1, <2>2 DEF HolderInv, Outside
  <2>7. NeverAnotherAdapter'
    BY <2>1, <2>2, <2>3, <2>4, ConstantFacts DEF NeverAnotherAdapter
  <2>8. QED BY <2>5, <2>6, <2>7
<1>4. QED BY <1>1, <1>2, <1>3 DEF Context

-----------------------------------------------------------------------------
(* Steps inside the request context.                                       *)

LEMMA RequestStep ==
    ASSUME VarTypes, HolderInv, NeverAnotherAdapter, NEW t \in Threads, Request(t)
    PROVE  VarTypes' /\ HolderInv' /\ NeverAnotherAdapter'
<1> DEFINE r == "request"
           j == job[r][t]
           DataTypes == /\ app_keys_table \in [Adapters -> [Slots -> Slot]]
                        /\ job \in [Contexts -> [Threads -> Job]]
                        /\ replies \in 0..MaxReplies
                        /\ pairing \in [Adapters -> [Handles -> 0..MaxReplies]]
                        /\ mishap \in [Adapters -> BOOLEAN]
<1>1. /\ r \in Contexts /\ DataTypes
      /\ j \in Job /\ j.handle \in Handles /\ j.keyset \in 0..MaxReplies
      /\ j.index \in Slots /\ j.adapter \in Adapters \union {none}
      /\ adapter_id[r] \in Adapters \union {none}
  BY JobFacts, ConstantFacts DEF VarTypes
<1>2. IsSet(r) => adapter_id[r] \in Adapters
  BY <1>1 DEF IsSet
<1>3. ASSUME NEW label \in Working \union {"unlock"}, pc[r][t] \in Working,
             Goto(r, t, label), UNCHANGED contextVars, DataTypes',
             \A d \in Contexts, u \in Threads : job'[d][u].adapter = job[d][u].adapter
      PROVE  VarTypes' /\ HolderInv' /\ NeverAnotherAdapter'
  BY <1>1, <1>3, InsideStep DEF VarTypes
<1> HIDE DEF j
<1>4. CASE Create(t)
  <2>1. pc[r][t] \in Working /\ UNCHANGED contextVars /\ UNCHANGED <<replies, deviceVars>>
    BY <1>4, ConstantFacts DEF Create, At
  <2>2. \/ \E i \in Slots :
              /\ IsSet(r)
              /\ app_keys_table' = [app_keys_table EXCEPT ![adapter_id[r]][i].conn_active = TRUE]
              /\ job' = [job EXCEPT ![r][t].index = i]
              /\ Goto(r, t, "name")
        \/ Goto(r, t, "unlock") /\ UNCHANGED <<app_keys_table, job>>
    BY <1>4 DEF Create, First, FreeSlots
  <2>3. CASE Goto(r, t, "unlock") /\ UNCHANGED <<app_keys_table, job>>
    BY <1>1, <1>3, <2>1, <2>3 DEF deviceVars
  <2>4. ASSUME NEW i \in Slots, IsSet(r),
               app_keys_table' = [app_keys_table EXCEPT ![adapter_id[r]][i].conn_active = TRUE],
               job' = [job EXCEPT ![r][t].index = i], Goto(r, t, "name")
        PROVE  VarTypes' /\ HolderInv' /\ NeverAnotherAdapter'
    <3>1. app_keys_table' \in [Adapters -> [Slots -> Slot]]
      BY <1>2, <2>4, SlotFacts, TableFacts
    <3>2. /\ job' \in [Contexts -> [Threads -> Job]]
          /\ \A d \in Contexts, u \in Threads : job'[d][u].adapter = job[d][u].adapter
      BY <1>1, <2>4, IndexFacts
    <3>3. "name" \in Working
      BY ConstantFacts
    <3>4. QED BY <1>1, <1>3, <2>1, <2>4, <3>1, <3>2, <3>3 DEF deviceVars
  <2>5. QED BY <2>2, <2>3, <2>4
<1>5. CASE Name(t)
  <2>1. /\ pc[r][t] \in Working /\ "update" \in Working /\ Goto(r, t, "update")
        /\ app_keys_table' = [app_keys_table EXCEPT ![j.adapter][j.index].conn_handle = j.handle]
        /\ UNCHANGED <<contextVars, job, replies, pairing, mishap>>
    BY <1>5, ConstantFacts DEF Name, At, deviceVars, j
  <2>2. app_keys_table' \in [Adapters -> [Slots -> Slot]]
    BY <1>1, <2>1, SlotFacts, TableFacts
  <2>3. QED BY <1>1, <1>3, <2>1, <2>2
<1>6. CASE Update(t)
  <2>1. pc[r][t] \in Working /\ UNCHANGED <<contextVars, job, replies, pairing>>
    BY <1>6, ConstantFacts DEF Update, At
  <2>2. CASE IsSet(r)
    <3>1. /\ "send" \in Working /\ Goto(r, t, "send") /\ UNCHANGED mishap
          /\ app_keys_table' = [app_keys_table EXCEPT ![adapter_id[r]][j.index].keyset = j.keyset]
      BY <1>6, <2>2, ConstantFacts DEF Update, Stored, j
    <3>2. app_keys_table' \in [Adapters -> [Slots -> Slot]]
      BY <1>1, <1>2, <2>2, <3>1, SlotFacts, TableFacts
    <3>3. QED BY <1>1, <1>3, <2>1, <3>1, <3>2
  <2>3. CASE ~IsSet(r)
    <3>1. /\ Goto(r, t, "unlock") /\ UNCHANGED app_keys_table
          /\ mishap' = [mishap EXCEPT ![j.adapter] = TRUE]
      BY <1>6, <2>3 DEF Update, j
    <3>2. QED BY <1>1, <1>3, <2>1, <3>1
  <2>4. QED BY <2>2, <2>3
<1>7. CASE Reset(t)
  <2>1. /\ pc[r][t] \in Working /\ "send" \in Working /\ Goto(r, t, "send")
        /\ app_keys_table' =
               [b \in Adapters |-> IF b = adapter_id[r]
                                   THEN [i \in Slots |-> [app_keys_table[b][i] EXCEPT
                                                             !.conn_active = FALSE]]
                                   ELSE app_keys_table[b]]
        /\ mishap' = [mishap EXCEPT ![j.adapter] = IF IsSet(r)
                          THEN \E h \in Handles : pairing[j.adapter][h] # 0 ELSE @]
        /\ UNCHANGED <<contextVars, job, replies, pairing>>
    BY <1>7, ConstantFacts DEF Reset, At, j
  <2>2. app_keys_table' \in [Adapters -> [Slots -> Slot]]
    BY <2>1, SlotFacts DEF VarTypes
  <2>3. mishap' \in [Adapters -> BOOLEAN]
    BY <1>1, <2>1
  <2>4. QED BY <1>1, <1>3, <2>1, <2>2, <2>3
<1>8. CASE DeviceAccepts(t)
  <2>1. /\ pc[r][t] \in Working /\ "answer" \in Working /\ Goto(r, t, "answer")
        /\ pairing' = [pairing EXCEPT ![j.adapter][j.handle] = j.keyset]
        /\ UNCHANGED <<contextVars, app_keys_table, job, replies, mishap>>
    BY <1>8, ConstantFacts DEF DeviceAccepts, At, j
  <2>2. pairing' \in [Adapters -> [Handles -> 0..MaxReplies]]
    BY <1>1, <2>1
  <2>3. QED BY <1>1, <1>3, <2>1, <2>2
<1>9. CASE SendSucceeds(t)
  <2>1. /\ pc[r][t] \in Working /\ Goto(r, t, "unlock")
        /\ UNCHANGED <<contextVars, app_keys_table, job, replies, pairing, mishap>>
    BY <1>9, ConstantFacts DEF SendSucceeds, At, deviceVars
  <2>2. QED BY <1>1, <1>3, <2>1
<1>10. CASE SendFails(t)
  <2>1. /\ pc[r][t] \in Working /\ Goto(r, t, "unlock")
        /\ mishap' = [mishap EXCEPT ![j.adapter] = @ \/ j.kind = "reply"]
        /\ UNCHANGED <<contextVars, app_keys_table, job, replies, pairing>>
    BY <1>10, ConstantFacts DEF SendFails, At, j
  <2>2. mishap' \in [Adapters -> BOOLEAN]
    BY <1>1, <2>1
  <2>3. QED BY <1>1, <1>3, <2>1, <2>2
<1>11. QED BY <1>4, <1>5, <1>6, <1>7, <1>8, <1>9, <1>10 DEF Request
-----------------------------------------------------------------------------
(* Steps inside the event context.                                         *)

LEMMA OverType ==
    ASSUME VarTypes, NEW a \in Adapters, Over(a)
    PROVE  pairing' \in [Adapters -> [Handles -> 0..MaxReplies]]
<1>1. job["event"][a].handle \in Handles
  BY JobFacts, ConstantFacts
<1>2. QED BY <1>1, ConstantFacts DEF Over, VarTypes

LEMMA EventStep ==
    ASSUME VarTypes, HolderInv, NeverAnotherAdapter, NEW a \in Adapters, Event(a)
    PROVE  VarTypes' /\ HolderInv' /\ NeverAnotherAdapter'
<1> DEFINE e == "event"
           j == job[e][a]
           DataTypes == /\ app_keys_table \in [Adapters -> [Slots -> Slot]]
                        /\ job \in [Contexts -> [Threads -> Job]]
                        /\ replies \in 0..MaxReplies
                        /\ pairing \in [Adapters -> [Handles -> 0..MaxReplies]]
                        /\ mishap \in [Adapters -> BOOLEAN]
<1>1. /\ e \in Contexts /\ a \in Threads /\ DataTypes
      /\ adapter_id[e] \in Adapters \union {none}
  BY ConstantFacts DEF VarTypes
<1>2. IsSet(e) => adapter_id[e] \in Adapters
  BY <1>1 DEF IsSet
<1>3. ASSUME NEW label \in Working \union {"unlock"}, pc[e][a] \in Working,
             Goto(e, a, label), UNCHANGED contextVars, DataTypes',
             \A d \in Contexts, u \in Threads : job'[d][u].adapter = job[d][u].adapter
      PROVE  VarTypes' /\ HolderInv' /\ NeverAnotherAdapter'
  BY <1>1, <1>3, InsideStep DEF VarTypes
<1>4. ASSUME pc[e][a] \in Working, UNCHANGED <<contextVars, replies>>, Undecodable(a)
      PROVE  VarTypes' /\ HolderInv' /\ NeverAnotherAdapter'
  <2>1. /\ Goto(e, a, "unlock") /\ UNCHANGED <<app_keys_table, job>>
        /\ mishap' = [mishap EXCEPT ![a] = @ \/ j.keyset # 0]
        /\ pairing' \in [Adapters -> [Handles -> 0..MaxReplies]]
    BY <1>4, OverType DEF Undecodable
  <2>2. mishap' \in [Adapters -> BOOLEAN]
    BY <1>1, <2>1
  <2>3. QED BY <1>1, <1>3, <1>4, <2>1, <2>2
<1>5. CASE Find(a)
  <2>1. pc[e][a] \in Working /\ UNCHANGED <<contextVars, replies>>
    BY <1>5, ConstantFacts DEF Find, At
  <2>2. \/ \E i \in Slots : /\ job' = [job EXCEPT ![e][a].index = i]
                            /\ Goto(e, a, "get")
                            /\ UNCHANGED <<app_keys_table, deviceVars>>
        \/ Goto(e, a, "callback") /\ UNCHANGED <<app_keys_table, job, deviceVars>>
        \/ Undecodable(a)
    BY <1>5 DEF Find, First, FoundBy
  <2>3. ASSUME NEW i \in Slots, job' = [job EXCEPT ![e][a].index = i],
               Goto(e, a, "get"), UNCHANGED <<app_keys_table, deviceVars>>
        PROVE  VarTypes' /\ HolderInv' /\ NeverAnotherAdapter'
    <3>1. /\ job' \in [Contexts -> [Threads -> Job]]
          /\ \A d \in Contexts, u \in Threads : job'[d][u].adapter = job[d][u].adapter
      BY <1>1, <2>3, IndexFacts
    <3>2. "get" \in Working
      BY ConstantFacts
    <3>3. QED BY <1>1, <1>3, <2>1, <2>3, <3>1, <3>2 DEF deviceVars
  <2>4. CASE Goto(e, a, "callback") /\ UNCHANGED <<app_keys_table, job, deviceVars>>
    <3>1. "callback" \in Working
      BY ConstantFacts
    <3>2. QED BY <1>1, <1>3, <2>1, <2>4, <3>1 DEF deviceVars
  <2>5. QED BY <1>4, <2>1, <2>2, <2>3, <2>4
<1>6. CASE Get(a)
  <2>1. pc[e][a] \in Working /\ UNCHANGED <<contextVars, replies>>
    BY <1>6, ConstantFacts DEF Get, At
  <2>2. \/ Goto(e, a, "destroy") /\ UNCHANGED <<app_keys_table, job, deviceVars>>
        \/ Undecodable(a)
    BY <1>6 DEF Get
  <2>3. "destroy" \in Working
    BY ConstantFacts
  <2>4. QED BY <1>1, <1>3, <1>4, <2>1, <2>2, <2>3 DEF deviceVars
<1>7. CASE Destroy(a)
  <2>1. pc[e][a] \in Working /\ UNCHANGED <<contextVars, replies>>
    BY <1>7, ConstantFacts DEF Destroy, At
  <2>2. \/ \E i \in Slots :
              /\ IsSet(e) /\ Over(a) /\ Goto(e, a, "callback") /\ UNCHANGED <<job, mishap>>
              /\ app_keys_table' = [app_keys_table EXCEPT ![adapter_id[e]][i].conn_active = FALSE]
        \/ Undecodable(a)
    BY <1>7 DEF Destroy, First, DestroyedBy
  <2>3. ASSUME NEW i \in Slots, IsSet(e), Over(a), Goto(e, a, "callback"),
               UNCHANGED <<job, mishap>>,
               app_keys_table' = [app_keys_table EXCEPT ![adapter_id[e]][i].conn_active = FALSE]
        PROVE  VarTypes' /\ HolderInv' /\ NeverAnotherAdapter'
    <3>1. app_keys_table' \in [Adapters -> [Slots -> Slot]]
      BY <1>2, <2>3, SlotFacts, TableFacts
    <3>2. pairing' \in [Adapters -> [Handles -> 0..MaxReplies]]
      BY <2>3, OverType
    <3>3. "callback" \in Working
      BY ConstantFacts
    <3>4. QED BY <1>1, <1>3, <2>1, <2>3, <3>1, <3>2, <3>3
  <2>4. QED BY <1>4, <2>1, <2>2, <2>3
<1>8. CASE CallbackReturns(a)
  <2>1. /\ pc[e][a] \in Working /\ Goto(e, a, "unlock")
        /\ UNCHANGED <<contextVars, app_keys_table, job, replies, pairing, mishap>>
    BY <1>8, ConstantFacts DEF CallbackReturns, At, deviceVars
  <2>2. QED BY <1>1, <1>3, <2>1
<1>9. QED BY <1>5, <1>6, <1>7, <1>8 DEF Event

-----------------------------------------------------------------------------
(* Calls and events begin.                                                 *)

LEMMA BeginStep ==
    ASSUME VarTypes, HolderInv, NeverAnotherAdapter,
           \/ \E t \in Threads : Call(t)
           \/ \E a \in Adapters : AuthStatus(a)
    PROVE  VarTypes' /\ HolderInv' /\ NeverAnotherAdapter'
<1>1. ASSUME NEW t \in Threads, Call(t)
      PROVE  VarTypes' /\ HolderInv' /\ NeverAnotherAdapter'
  <2>1. PICK a \in Adapters :
           \/ Enter("request", t, a, "enable", 0, 0) /\ UNCHANGED replies
           \/ /\ replies < MaxReplies /\ replies' = replies + 1
              /\ \E h \in Handles : Enter("request", t, a, "reply", h, replies')
    BY <1>1 DEF Call
  <2>2. replies' \in 0..MaxReplies
    BY <2>1, BoundsAssumption DEF VarTypes
  <2>3. CASE Enter("request", t, a, "enable", 0, 0)
    BY <2>2, <2>3, EnterStep, ConstantFacts
  <2>4. ASSUME NEW h \in Handles, Enter("request", t, a, "reply", h, replies')
        PROVE  VarTypes' /\ HolderInv' /\ NeverAnotherAdapter'
    BY <2>2, <2>4, EnterStep, ConstantFacts
  <2>5. QED BY <2>1, <2>3, <2>4
<1>2. ASSUME NEW a \in Adapters, AuthStatus(a)
      PROVE  VarTypes' /\ HolderInv' /\ NeverAnotherAdapter'
  <2>1. PICK h \in Handles : Enter("event", a, a, "auth_status", h, pairing[a][h])
    BY <1>2 DEF AuthStatus
  <2>2. replies' \in 0..MaxReplies /\ pairing[a][h] \in 0..MaxReplies
    BY <1>2 DEF AuthStatus, VarTypes
  <2>3. QED BY <2>1, <2>2, EnterStep, ConstantFacts
<1>3. QED BY <1>1, <1>2

LEMMA NextStep == VarTypes /\ HolderInv /\ NeverAnotherAdapter /\ [Next]_vars
                      => VarTypes' /\ HolderInv' /\ NeverAnotherAdapter'
<1> SUFFICES ASSUME VarTypes, HolderInv, NeverAnotherAdapter, [Next]_vars
             PROVE  VarTypes' /\ HolderInv' /\ NeverAnotherAdapter'
  OBVIOUS
<1>1. CASE UNCHANGED vars
  <2>1. UNCHANGED <<codec_mutex, adapter_id, app_keys_table, pc, job, replies, pairing, mishap>>
    BY <1>1 DEF vars, contextVars, deviceVars
  <2>2. QED BY <2>1 DEF VarTypes, HolderInv, NeverAnotherAdapter
<1>2. CASE Next
  BY <1>2, BeginStep, RequestStep, EventStep, ContextStep DEF Next
<1>3. QED BY <1>1, <1>2

-----------------------------------------------------------------------------
(* Every variable has its type, and the thread that is in a context is the *)
(* one that holds its mutex, so that there is one at most.                 *)
THEOREM TypeCorrect == Spec => []TypeOK
<1>1. Spec => [](VarTypes /\ HolderInv /\ NeverAnotherAdapter)
  BY InitContexts, NextStep, PTL DEF Spec
<1>2. QED BY <1>1, TypeParts, PTL

(* A codec works on the state of its own adapter or on none, however       *)
(* entering and leaving the context interleave.                            *)
THEOREM OwnAdapterOnly == Spec => []NeverAnotherAdapter
  BY InitContexts, NextStep, PTL DEF Spec

-----------------------------------------------------------------------------
(* The table and the pairings.                                             *)

Reply(t)      == job["request"][t].kind = "reply"
Handle(a, i)  == app_keys_table[a][i].conn_handle
Keyset(a, i)  == app_keys_table[a][i].keyset
Active(a, i)  == app_keys_table[a][i].conn_active

(* A reply of the adapter has a slot without its handle, or one with it.   *)
Naming(a, t)  == pc["request"][t] = "name" /\ job["request"][t].adapter = a
Storing(a, t) == pc["request"][t] \in {"update", "send"} /\ Reply(t) /\ job["request"][t].adapter = a

(* The slots that have their handle, and the connections that have a slot. *)
Named(a)   == {i \in Slots : /\ Active(a, i)
                             /\ \A t \in Threads : Naming(a, t) => job["request"][t].index # i}
Live(a, h) == \/ pairing[a][h] # 0
              \/ \E t \in Threads : Storing(a, t) /\ job["request"][t].handle = h

(* Replies, one at most for a connection; until the device has accepted it *)
(* the connection is not being paired.                                     *)
ReplyInv ==
    /\ \A t \in Threads : /\ Reply(t) => job["request"][t].adapter \in Adapters /\ job["request"][t].keyset # 0
                          /\ pc["request"][t] \in {"create", "name", "update", "answer"} => Reply(t)
                          /\ pc["request"][t] = "reset" => ~Reply(t)
    /\ \A t, u \in Threads :
          /\ Reply(t) /\ Reply(u)
          /\ job["request"][t].adapter = job["request"][u].adapter
          /\ job["request"][t].handle = job["request"][u].handle
          => t = u
    /\ \A t \in Threads :
          Reply(t) /\ pc["request"][t] \in {"lock", "create", "name", "update", "send"} =>
             pairing[job["request"][t].adapter][job["request"][t].handle] = 0

(* Events, of the adapter's own thread; a pairing lasts until its event.   *)
EventInv ==
    \A t \in Threads :
       /\ pc["event"][t] \in {"lock", "find", "get", "destroy"} =>
             /\ t \in Adapters /\ job["event"][t].adapter = t
             /\ job["event"][t].keyset # 0 =>
                   pairing[t][job["event"][t].handle] = job["event"][t].keyset
       /\ pc["event"][t] \in {"get", "destroy"} => job["event"][t].keyset # 0

(* A slot that has its handle is the first with this handle, active or     *)
(* not, so that the event finds it and destroys it; the connections with   *)
(* such a slot are those being paired, and those of a reply on its way;    *)
(* and the slot has the keyset that the device has accepted.               *)
FirstOfHandle(a) == \A j \in Named(a), i \in Slots : i < j => Handle(a, i) # Handle(a, j)
LiveNamed(a)     == \A h \in Handles : Live(a, h) <=> \E i \in Named(a) : Handle(a, i) = h
KeysetsMatch(a)  == \A i \in Named(a) : pairing[a][Handle(a, i)] \in {0, Keyset(a, i)}

(* So the slot of a reply, before and after it has its handle, and that    *)
(* which an event has found.                                               *)
NamingSlot(a) ==
    \A t \in Threads : Naming(a, t) =>
       /\ Active(a, job["request"][t].index)
       /\ \A i \in Slots : i < job["request"][t].index => Handle(a, i) # job["request"][t].handle
StoringSlot(a) ==
    \A t \in Threads : Storing(a, t) =>
       /\ Active(a, job["request"][t].index)
       /\ Handle(a, job["request"][t].index) = job["request"][t].handle
       /\ pc["request"][t] = "send" => Keyset(a, job["request"][t].index) = job["request"][t].keyset
EventSlot(a) ==
    pc["event"][a] = "get" =>
       /\ job["event"][a].index \in Named(a)
       /\ Handle(a, job["event"][a].index) = job["event"][a].handle

SlotsInv(a) == /\ FirstOfHandle(a) /\ LiveNamed(a) /\ KeysetsMatch(a)
               /\ NamingSlot(a) /\ StoringSlot(a) /\ EventSlot(a)

KeysInv == ReplyInv /\ EventInv /\ \A a \in Adapters : ~mishap[a] => SlotsInv(a)

(* The thread that is in a context is alone there.                         *)
LEMMA Alone ==
    ASSUME VarTypes, HolderInv, NEW c \in Contexts, NEW t \in Threads, pc[c][t] \notin Outside
    PROVE  \A u \in Threads : u # t => pc[c][u] \in Outside
  BY DEF HolderInv

(* The index of the slot, and nothing else, is put in the job.             *)
LEMMA IndexSet ==
    ASSUME VarTypes, NEW c \in Contexts, NEW t \in Threads, NEW i \in Slots,
           job' = [job EXCEPT ![c][t].index = i]
    PROVE  /\ job'[c][t].index = i
           /\ \A d \in Contexts, u \in Threads :
                 /\ d # c \/ u # t => job'[d][u] = job[d][u]
                 /\ job'[d][u].kind = job[d][u].kind /\ job'[d][u].adapter = job[d][u].adapter
                 /\ job'[d][u].handle = job[d][u].handle /\ job'[d][u].keyset = job[d][u].keyset
<1>1. job[c][t] \in Job /\ job \in [Contexts -> [Threads -> Job]]
  BY DEF VarTypes
<1> DEFINE new == [job[c][t] EXCEPT !.index = i]
<1>2. /\ new.index = i /\ new.kind = job[c][t].kind /\ new.adapter = job[c][t].adapter
      /\ new.handle = job[c][t].handle /\ new.keyset = job[c][t].keyset
  BY <1>1 DEF Job
<1>3. job' = [job EXCEPT ![c][t] = new]
  BY <1>1
<1>4. job'[c][t] = new /\ \A d \in Contexts, u \in Threads : d # c \/ u # t => job'[d][u] = job[d][u]
  BY <1>1, <1>3
<1>5. QED BY <1>2, <1>4

-----------------------------------------------------------------------------
(* Replies.                                                                *)

SameJobs ==
    \A t \in Threads :
       /\ job'["request"][t].kind = job["request"][t].kind
       /\ job'["request"][t].adapter = job["request"][t].adapter
       /\ job'["request"][t].handle = job["request"][t].handle
       /\ job'["request"][t].keyset = job["request"][t].keyset

LEMMA ReplyFrame ==
    ASSUME VarTypes, ReplyInv, SameJobs,
           \A t \in Threads : pc'["request"][t] \in {"create", "name", "update", "answer"} => Reply(t),
           \A t \in Threads : pc'["request"][t] = "reset" => ~Reply(t),
           \A t \in Threads :
              Reply(t) /\ pc'["request"][t] \in {"lock", "create", "name", "update", "send"} =>
                 pc["request"][t] \in {"lock", "create", "name", "update", "send"},
           \A a \in Adapters, h \in Handles : pairing'[a][h] = 0 \/ pairing'[a][h] = pairing[a][h]
    PROVE  ReplyInv'
<1>1. \A t \in Threads : Reply(t) =>
         job["request"][t].adapter \in Adapters /\ job["request"][t].handle \in Handles
  BY JobFacts, ConstantFacts DEF ReplyInv
<1>2. \A t \in Threads : Reply(t)' <=> Reply(t)
  BY DEF Reply, SameJobs
<1>3. \A t \in Threads :
         /\ Reply(t)' => job'["request"][t].adapter \in Adapters /\ job'["request"][t].keyset # 0
         /\ pc'["request"][t] \in {"create", "name", "update", "answer"} => Reply(t)'
         /\ pc'["request"][t] = "reset" => ~Reply(t)'
  BY <1>2 DEF ReplyInv, SameJobs
<1>4. \A t, u \in Threads :
         /\ Reply(t)' /\ Reply(u)'
         /\ job'["request"][t].adapter = job'["request"][u].adapter
         /\ job'["request"][t].handle = job'["request"][u].handle
         => t = u
  BY <1>2 DEF ReplyInv, SameJobs
<1>5. ASSUME NEW t \in Threads, Reply(t)',
             pc'["request"][t] \in {"lock", "create", "name", "update", "send"}
      PROVE  pairing'[job'["request"][t].adapter][job'["request"][t].handle] = 0
  <2>1. Reply(t) /\ pc["request"][t] \in {"lock", "create", "name", "update", "send"}
    BY <1>2, <1>5
  <2>2. pairing[job["request"][t].adapter][job["request"][t].handle] = 0
    BY <2>1 DEF ReplyInv
  <2>3. job["request"][t].adapter \in Adapters /\ job["request"][t].handle \in Handles
    BY <1>1, <2>1
  <2>4. pairing'[job["request"][t].adapter][job["request"][t].handle] = 0
    BY <2>2, <2>3
  <2>5. QED BY <2>4 DEF SameJobs
<1>6. QED BY <1>3, <1>4, <1>5 DEF ReplyInv

(* The event gives up a pairing or leaves it.                              *)
LEMMA OverFacts ==
    ASSUME VarTypes, NEW a \in Adapters, Over(a)
    PROVE  /\ \A b \in Adapters : b # a => pairing'[b] = pairing[b]
           /\ \A h \in Handles : h # job["event"][a].handle => pairing'[a][h] = pairing[a][h]
           /\ pairing[a][job["event"][a].handle] = job["event"][a].keyset
                 => pairing'[a][job["event"][a].handle] = 0
           /\ pairing[a][job["event"][a].handle] # job["event"][a].keyset
                 => pairing'[a][job["event"][a].handle] = pairing[a][job["event"][a].handle]
           /\ \A b \in Adapters, h \in Handles : pairing'[b][h] = 0 \/ pairing'[b][h] = pairing[b][h]
<1>1. job["event"][a].handle \in Handles
  BY JobFacts, ConstantFacts
<1> DEFINE g == job["event"][a].handle
           k == job["event"][a].keyset
<1>2. pairing' = [pairing EXCEPT ![a][g] = IF @ = k THEN 0 ELSE @]
  BY DEF Over
<1> HIDE DEF g, k
<1>3. g \in Handles /\ pairing \in [Adapters -> [Handles -> 0..MaxReplies]]
  BY <1>1 DEF g, VarTypes
<1>4. pairing'[a][g] = IF pairing[a][g] = k THEN 0 ELSE pairing[a][g]
  BY <1>2, <1>3
<1>5. \A b \in Adapters : b # a => pairing'[b] = pairing[b]
  BY <1>2, <1>3
<1>6. \A h \in Handles : h # g => pairing'[a][h] = pairing[a][h]
  BY <1>2, <1>3
<1>7. \A b \in Adapters, h \in Handles : pairing'[b][h] = 0 \/ pairing'[b][h] = pairing[b][h]
  BY <1>4, <1>5, <1>6
<1>8. QED BY <1>4, <1>5, <1>6, <1>7 DEF g, k

LEMMA EnterFacts ==
    ASSUME VarTypes, NEW c \in Contexts, NEW t \in Threads, NEW a, NEW kind, NEW h, NEW keyset,
           Enter(c, t, a, kind, h, keyset)
    PROVE  /\ pc[c][t] = "idle" /\ pc'[c][t] = "lock"
           /\ job'[c][t] = [adapter |-> a, kind |-> kind, handle |-> h, keyset |-> keyset, index |-> 0]
           /\ \A d \in Contexts, u \in Threads : d # c \/ u # t =>
                 pc'[d][u] = pc[d][u] /\ job'[d][u] = job[d][u]
           /\ UNCHANGED <<codec_mutex, adapter_id, app_keys_table, pairing, mishap>>
<1>1. /\ pc[c][t] = "idle" /\ Goto(c, t, "lock") /\ "lock" \in Stages
      /\ job' = [job EXCEPT ![c][t] = [adapter |-> a, kind |-> kind, handle |-> h,
                                       keyset |-> keyset, index |-> 0]]
      /\ UNCHANGED <<codec_mutex, adapter_id, app_keys_table, pairing, mishap>>
  BY DEF Enter, At, contextVars, deviceVars, Stages
<1>2. pc'[c][t] = "lock" /\ \A d \in Contexts, u \in Threads : d # c \/ u # t => pc'[d][u] = pc[d][u]
  BY <1>1, GotoFacts
<1>3. /\ job'[c][t] = [adapter |-> a, kind |-> kind, handle |-> h, keyset |-> keyset, index |-> 0]
      /\ \A d \in Contexts, u \in Threads : d # c \/ u # t => job'[d][u] = job[d][u]
  BY <1>1 DEF VarTypes
<1>4. QED BY <1>1, <1>2, <1>3

LEMMA ReplyBegins ==
    ASSUME VarTypes, ReplyInv, NEW t \in Threads, Call(t)
    PROVE  ReplyInv'
<1>1. PICK a \in Adapters :
         \/ Enter("request", t, a, "enable", 0, 0) /\ UNCHANGED replies
         \/ \E h \in Handles : /\ replies' = replies + 1 /\ MayReply(a, h)
                               /\ Enter("request", t, a, "reply", h, replies')
  BY DEF Call
<1>0. "request" \in Contexts
  BY ConstantFacts
<1>2. CASE Enter("request", t, a, "enable", 0, 0)
  <2>0. job'["request"][t] = [adapter |-> a, kind |-> "enable", handle |-> 0, keyset |-> 0, index |-> 0]
    BY <1>0, <1>2, EnterFacts
  <2>1. /\ pc'["request"][t] = "lock" /\ job'["request"][t].kind = "enable"
        /\ \A u \in Threads : u # t =>
              pc'["request"][u] = pc["request"][u] /\ job'["request"][u] = job["request"][u]
        /\ pairing' = pairing
    BY <1>0, <1>2, <2>0, EnterFacts
  <2>2. ~Reply(t)' /\ \A u \in Threads : u # t => (Reply(u)' <=> Reply(u))
    BY <2>1 DEF Reply
  <2>3. QED BY <2>1, <2>2 DEF ReplyInv
<1>3. ASSUME NEW h \in Handles, replies' = replies + 1, MayReply(a, h),
             Enter("request", t, a, "reply", h, replies')
      PROVE  ReplyInv'
  <2>1. /\ pc'["request"][t] = "lock"
        /\ job'["request"][t] = [adapter |-> a, kind |-> "reply", handle |-> h,
                                 keyset |-> replies', index |-> 0]
        /\ \A u \in Threads : u # t =>
              pc'["request"][u] = pc["request"][u] /\ job'["request"][u] = job["request"][u]
        /\ pairing' = pairing
    BY <1>3, EnterFacts, ConstantFacts
  <2>2. /\ job'["request"][t].adapter = a /\ job'["request"][t].kind = "reply"
        /\ job'["request"][t].handle = h /\ job'["request"][t].keyset = replies'
    BY <2>1
  <2>3. Reply(t)' /\ \A u \in Threads : u # t => (Reply(u)' <=> Reply(u))
    BY <2>1, <2>2 DEF Reply
  <2>4. replies' # 0
    BY <1>3, BoundsAssumption DEF VarTypes
  <2>5. pairing[a][h] = 0 /\ \A u \in Threads :
           ~(Reply(u) /\ job["request"][u].adapter = a /\ job["request"][u].handle = h)
    BY <1>3 DEF MayReply, Replying, Reply
  <2>6. \A u \in Threads :
           /\ Reply(u)' => job'["request"][u].adapter \in Adapters /\ job'["request"][u].keyset # 0
           /\ pc'["request"][u] \in {"create", "name", "update", "answer"} => Reply(u)'
           /\ pc'["request"][u] = "reset" => ~Reply(u)'
    BY <2>1, <2>2, <2>3, <2>4 DEF ReplyInv
  <2>7. \A u, v \in Threads :
           /\ Reply(u)' /\ Reply(v)'
           /\ job'["request"][u].adapter = job'["request"][v].adapter
           /\ job'["request"][u].handle = job'["request"][v].handle
           => u = v
    <3>1. ASSUME NEW u \in Threads, u # t, Reply(u)'
          PROVE  ~(job'["request"][u].adapter = a /\ job'["request"][u].handle = h)
      BY <2>1, <2>3, <2>5, <3>1
    <3>2. QED BY <2>1, <2>2, <2>3, <3>1 DEF ReplyInv
  <2>8. \A u \in Threads :
           Reply(u)' /\ pc'["request"][u] \in {"lock", "create", "name", "update", "send"} =>
              pairing'[job'["request"][u].adapter][job'["request"][u].handle] = 0
    BY <2>1, <2>2, <2>3, <2>5 DEF ReplyInv
  <2>9. QED BY <2>6, <2>7, <2>8 DEF ReplyInv
<1>4. QED BY <1>1, <1>2, <1>3

LEMMA ReplyContext ==
    ASSUME VarTypes, ReplyInv, NEW c \in Contexts, NEW t \in Threads, Context(c, t)
    PROVE  ReplyInv'
<1>0. "request" \in Contexts
  BY ConstantFacts
<1>1. pairing' = pairing
  BY DEF Context, SetAdapterId, Unlock, ClearAdapterId, deviceVars
<1>2. CASE SetAdapterId(c, t)
  <2>1. /\ pc[c][t] = "lock" /\ Goto(c, t, FirstStage(job[c][t].kind)) /\ job' = job
        /\ FirstStage(job[c][t].kind) \in Stages
        /\ (FirstStage(job[c][t].kind) \in {"create", "name", "update", "answer"}
               => job[c][t].kind = "reply")
        /\ (FirstStage(job[c][t].kind) = "reset" => job[c][t].kind # "reply")
    BY <1>2, JobFacts DEF SetAdapterId, At, FirstStage, Stages
  <2>2. /\ pc'[c][t] = FirstStage(job[c][t].kind)
        /\ \A d \in Contexts, u \in Threads : d # c \/ u # t => pc'[d][u] = pc[d][u]
    BY <2>1, GotoFacts
  <2>3. \A u \in Threads : pc'["request"][u] \in {"create", "name", "update", "answer"} => Reply(u)
    BY <1>0, <2>1, <2>2 DEF ReplyInv, Reply
  <2>6. \A u \in Threads : pc'["request"][u] = "reset" => ~Reply(u)
    BY <1>0, <2>1, <2>2 DEF ReplyInv, Reply
  <2>4. \A u \in Threads :
           Reply(u) /\ pc'["request"][u] \in {"lock", "create", "name", "update", "send"} =>
              pc["request"][u] \in {"lock", "create", "name", "update", "send"}
    BY <1>0, <2>1, <2>2
  <2>7. QED BY <1>1, <2>1, <2>3, <2>4, <2>6, ReplyFrame DEF SameJobs
<1>3. CASE Unlock(c, t)
  <2>1. Goto(c, t, "clear") /\ job' = job /\ "clear" \in Stages
    BY <1>3 DEF Unlock, Stages
  <2>2. pc'[c][t] = "clear" /\ \A d \in Contexts, u \in Threads : d # c \/ u # t => pc'[d][u] = pc[d][u]
    BY <2>1, GotoFacts
  <2>3. \A u \in Threads : pc'["request"][u] = pc["request"][u] \/ pc'["request"][u] = "clear"
    BY <1>0, <2>2
  <2>4. \A u \in Threads : /\ pc'["request"][u] \in {"create", "name", "update", "answer"} => Reply(u)
                           /\ pc'["request"][u] = "reset" => ~Reply(u)
    BY <2>3 DEF ReplyInv
  <2>5. QED BY <1>1, <2>1, <2>3, <2>4, ReplyFrame DEF SameJobs
<1>4. CASE ClearAdapterId(c, t)
  <2>1. /\ Goto(c, t, "idle") /\ job' = [job EXCEPT ![c][t] = NoJob] /\ "idle" \in Stages
    BY <1>4 DEF ClearAdapterId, Stages
  <2>2. pc'[c][t] = "idle" /\ \A d \in Contexts, u \in Threads : d # c \/ u # t => pc'[d][u] = pc[d][u]
    BY <2>1, GotoFacts
  <2>3. job'[c][t] = NoJob /\ \A d \in Contexts, u \in Threads : d # c \/ u # t => job'[d][u] = job[d][u]
    BY <2>1 DEF VarTypes
  <2>4. \A u \in Threads : \/ pc'["request"][u] = pc["request"][u] /\ job'["request"][u] = job["request"][u]
                           \/ pc'["request"][u] = "idle" /\ job'["request"][u] = NoJob
    BY <1>0, <2>2, <2>3
  <2>5. NoJob.kind = "enable"
    BY DEF NoJob
  <2>6. \A u \in Threads : Reply(u)' => Reply(u) /\ job'["request"][u] = job["request"][u]
                                              /\ pc'["request"][u] = pc["request"][u]
    BY <2>4, <2>5 DEF Reply
  <2>7. \A u \in Threads : /\ pc'["request"][u] \in {"create", "name", "update", "answer"} => Reply(u)'
                           /\ pc'["request"][u] = "reset" => ~Reply(u)'
    BY <2>4 DEF ReplyInv, Reply
  <2>8. \A u, v \in Threads :
           /\ Reply(u)' /\ Reply(v)'
           /\ job'["request"][u].adapter = job'["request"][v].adapter
           /\ job'["request"][u].handle = job'["request"][v].handle
           => u = v
    BY <2>6 DEF ReplyInv
  <2>9. QED BY <1>1, <2>6, <2>7, <2>8 DEF ReplyInv
<1>5. QED BY <1>2, <1>3, <1>4 DEF Context

LEMMA ReplyRequest ==
    ASSUME VarTypes, HolderInv, ReplyInv, NEW t \in Threads, Request(t)
    PROVE  ReplyInv'
<1>0. "request" \in Contexts /\ t \in Threads
  BY ConstantFacts
<1>1. ASSUME NEW label \in Stages, Goto("request", t, label), SameJobs,
             label \in {"create", "name", "update", "answer"} => Reply(t), label # "reset",
             pc["request"][t] \in {"lock", "create", "name", "update", "send"}
                \/ label \notin {"lock", "create", "name", "update", "send"} \/ ~Reply(t),
             \A a \in Adapters, h \in Handles : pairing'[a][h] = 0 \/ pairing'[a][h] = pairing[a][h]
      PROVE  ReplyInv'
  <2>1. /\ pc'["request"][t] = label
        /\ \A u \in Threads : u # t => pc'["request"][u] = pc["request"][u]
    BY <1>0, <1>1, GotoFacts
  <2>2. \A u \in Threads : /\ pc'["request"][u] \in {"create", "name", "update", "answer"} => Reply(u)
                           /\ pc'["request"][u] = "reset" => ~Reply(u)
    BY <1>1, <2>1 DEF ReplyInv
  <2>3. \A u \in Threads :
           Reply(u) /\ pc'["request"][u] \in {"lock", "create", "name", "update", "send"} =>
              pc["request"][u] \in {"lock", "create", "name", "update", "send"}
    BY <1>1, <2>1
  <2>4. QED BY <1>1, <2>2, <2>3, ReplyFrame
<1>2. CASE Create(t)
  <2>1. pc["request"][t] = "create" /\ Reply(t) /\ pairing' = pairing
    BY <1>2 DEF Create, At, ReplyInv, deviceVars
  <2>2. \/ \E i \in Slots : job' = [job EXCEPT !["request"][t].index = i] /\ Goto("request", t, "name")
        \/ Goto("request", t, "unlock") /\ job' = job
    BY <1>2 DEF Create, First, FreeSlots
  <2>3. SameJobs
    <3>1. CASE job' = job
      BY <3>1 DEF SameJobs
    <3>2. ASSUME NEW i \in Slots, job' = [job EXCEPT !["request"][t].index = i] PROVE SameJobs
      BY <1>0, <3>2, IndexSet DEF SameJobs
    <3>3. QED BY <2>2, <3>1, <3>2
  <2>4. \E label \in {"name", "unlock"} : Goto("request", t, label)
    BY <2>2
  <2>5. {"name", "unlock"} \subseteq Stages
    BY DEF Stages
  <2>6. QED BY <1>1, <2>1, <2>3, <2>4, <2>5
<1>3. CASE Name(t) \/ Update(t)
  <2>1. /\ pc["request"][t] \in {"name", "update"} /\ Reply(t) /\ pairing' = pairing /\ job' = job
        /\ \E label \in {"update", "send", "unlock"} : Goto("request", t, label)
    BY <1>3 DEF Name, Update, At, ReplyInv, deviceVars
  <2>2. {"update", "send", "unlock"} \subseteq Stages /\ SameJobs
    BY <2>1 DEF Stages, SameJobs
  <2>3. QED BY <1>1, <2>1, <2>2
<1>4. CASE Reset(t)
  <2>1. pc["request"][t] = "reset" /\ pairing' = pairing /\ job' = job /\ Goto("request", t, "send")
    BY <1>4 DEF Reset, At
  <2>2. "send" \in Stages /\ SameJobs
    BY <2>1 DEF Stages, SameJobs
  <2>3. ~Reply(t)
    BY <2>1 DEF ReplyInv
  <2>4. QED BY <1>1, <2>1, <2>2, <2>3
<1>5. CASE SendSucceeds(t) \/ SendFails(t)
  <2>1. pairing' = pairing /\ job' = job /\ Goto("request", t, "unlock")
    BY <1>5 DEF SendSucceeds, SendFails, deviceVars
  <2>2. "unlock" \in Stages /\ SameJobs
    BY <2>1 DEF Stages, SameJobs
  <2>3. QED BY <1>1, <2>1, <2>2
<1>6. CASE DeviceAccepts(t)
  <2> DEFINE a == job["request"][t].adapter
             h == job["request"][t].handle
  <2>1. /\ pc["request"][t] = "send" /\ Reply(t) /\ job' = job /\ Goto("request", t, "answer")
        /\ pairing' = [pairing EXCEPT ![a][h] = job["request"][t].keyset]
    BY <1>6 DEF DeviceAccepts, At, Reply
  <2>2. a \in Adapters /\ h \in Handles
    BY <1>0, <2>1, JobFacts DEF ReplyInv
  <2>3. \A b \in Adapters, g \in Handles : b # a \/ g # h => pairing'[b][g] = pairing[b][g]
    BY <2>1, <2>2 DEF VarTypes
  <2>4. pc'["request"][t] = "answer" /\ \A u \in Threads : u # t => pc'["request"][u] = pc["request"][u]
    BY <1>0, <2>1, GotoFacts DEF Stages
  <2>5. \A u \in Threads : Reply(u)' <=> Reply(u)
    BY <2>1 DEF Reply
  <2>6. ASSUME NEW u \in Threads, Reply(u)',
               pc'["request"][u] \in {"lock", "create", "name", "update", "send"}
        PROVE  pairing'[job'["request"][u].adapter][job'["request"][u].handle] = 0
    <3>1. u # t /\ Reply(u) /\ pc["request"][u] \in {"lock", "create", "name", "update", "send"}
      BY <2>4, <2>5, <2>6
    <3>2. pairing[job["request"][u].adapter][job["request"][u].handle] = 0
      BY <3>1 DEF ReplyInv
    <3>3. job["request"][u].adapter # a \/ job["request"][u].handle # h
      BY <2>1, <3>1 DEF ReplyInv
    <3>4. job["request"][u].adapter \in Adapters /\ job["request"][u].handle \in Handles
      BY <1>0, <3>1, JobFacts DEF ReplyInv
    <3>5. pairing'[job["request"][u].adapter][job["request"][u].handle] = 0
      BY <2>3, <3>2, <3>3, <3>4
    <3>6. QED BY <2>1, <3>5
  <2>7. \A u \in Threads :
           /\ Reply(u)' => job'["request"][u].adapter \in Adapters /\ job'["request"][u].keyset # 0
           /\ pc'["request"][u] \in {"create", "name", "update", "answer"} => Reply(u)'
           /\ pc'["request"][u] = "reset" => ~Reply(u)'
    BY <2>1, <2>4, <2>5 DEF ReplyInv
  <2>8. \A u, v \in Threads :
           /\ Reply(u)' /\ Reply(v)'
           /\ job'["request"][u].adapter = job'["request"][v].adapter
           /\ job'["request"][u].handle = job'["request"][v].handle
           => u = v
    BY <2>1, <2>5 DEF ReplyInv
  <2>9. QED BY <2>6, <2>7, <2>8 DEF ReplyInv
<1>7. QED BY <1>2, <1>3, <1>4, <1>5, <1>6 DEF Request

LEMMA ReplyEvent ==
    ASSUME VarTypes, ReplyInv, NEW a \in Adapters, AuthStatus(a) \/ Event(a)
    PROVE  ReplyInv'
<1>0. {"request", "event"} = Contexts /\ a \in Threads
  BY ConstantFacts
<1>1. ASSUME UNCHANGED <<pc["request"], job["request"]>>,
             \A b \in Adapters, h \in Handles : pairing'[b][h] = 0 \/ pairing'[b][h] = pairing[b][h]
      PROVE  ReplyInv'
  <2>1. \A t \in Threads : pc'["request"][t] = pc["request"][t] /\ job'["request"][t] = job["request"][t]
    BY <1>1
  <2>2. SameJobs
    BY <2>1 DEF SameJobs
  <2>3. \A t \in Threads : /\ pc'["request"][t] \in {"create", "name", "update", "answer"} => Reply(t)
                           /\ pc'["request"][t] = "reset" => ~Reply(t)
    BY <2>1 DEF ReplyInv
  <2>4. QED BY <1>1, <2>1, <2>2, <2>3, ReplyFrame
<1>2. pc'["request"] = pc["request"]
  BY <1>0 DEF AuthStatus, Enter, Event, Find, Get, Destroy, CallbackReturns, Undecodable, Goto, VarTypes
<1>3. job'["request"] = job["request"]
  BY <1>0 DEF AuthStatus, Enter, Event, Find, Get, Destroy, CallbackReturns, Undecodable, VarTypes
<1>4. \A b \in Adapters, h \in Handles : pairing'[b][h] = 0 \/ pairing'[b][h] = pairing[b][h]
  <2>1. pairing' = pairing \/ Over(a)
    BY DEF AuthStatus, Enter, Event, Find, Get, Destroy, CallbackReturns, Undecodable, deviceVars
  <2>2. QED BY <2>1, OverFacts
<1>5. QED BY <1>1, <1>2, <1>3, <1>4

LEMMA ReplyStep ==
    VarTypes /\ HolderInv /\ ReplyInv /\ [Next]_vars => ReplyInv'
<1> SUFFICES ASSUME VarTypes, HolderInv, ReplyInv, [Next]_vars PROVE ReplyInv'
  OBVIOUS
<1>1. CASE UNCHANGED vars
  BY <1>1 DEF vars, deviceVars, ReplyInv, Reply
<1>2. CASE Next
  BY <1>2, ReplyBegins, ReplyContext, ReplyRequest, ReplyEvent DEF Next
<1>3. QED BY <1>1, <1>2


-----------------------------------------------------------------------------
(* Events.                                                                 *)

LEMMA EventFrame ==
    ASSUME EventInv,
           \A t \in Threads : pc'["event"][t] \in {"lock", "find", "get", "destroy"} =>
              /\ pc["event"][t] \in {"lock", "find", "get", "destroy"}
              /\ pc'["event"][t] \in {"get", "destroy"} =>
                    pc["event"][t] \in {"get", "destroy"} \/ job["event"][t].keyset # 0
              /\ job'["event"][t].adapter = job["event"][t].adapter
              /\ job'["event"][t].handle = job["event"][t].handle
              /\ job'["event"][t].keyset = job["event"][t].keyset
              /\ t \in Adapters /\ job["event"][t].keyset # 0 =>
                    pairing'[t][job["event"][t].handle] = pairing[t][job["event"][t].handle]
    PROVE  EventInv'
<1>1. ASSUME NEW t \in Threads, pc'["event"][t] \in {"lock", "find", "get", "destroy"}
      PROVE  /\ t \in Adapters /\ job'["event"][t].adapter = t
             /\ job'["event"][t].keyset # 0 =>
                   pairing'[t][job'["event"][t].handle] = job'["event"][t].keyset
             /\ pc'["event"][t] \in {"get", "destroy"} => job'["event"][t].keyset # 0
  BY <1>1 DEF EventInv
<1>2. QED BY <1>1 DEF EventInv

(* A call, or a step of one, leaves the events and their pairings alone.   *)
LEMMA EventRequest ==
    ASSUME VarTypes, HolderInv, ReplyInv, EventInv, NEW t \in Threads, Call(t) \/ Request(t)
    PROVE  EventInv'
<1>0. "request" \in Contexts /\ "event" \in Contexts /\ "request" # "event"
  BY ConstantFacts
<1>1. pc'["event"] = pc["event"]
  BY <1>0 DEF Call, Enter, Request, Create, Name, Update, Reset, DeviceAccepts, SendSucceeds, SendFails,
              Goto, VarTypes
<1>2. job'["event"] = job["event"]
  BY <1>0 DEF Call, Enter, Request, Create, Name, Update, Reset, DeviceAccepts, SendSucceeds, SendFails,
              VarTypes
<1>3. ASSUME NEW a \in Adapters, NEW h \in Handles, pairing[a][h] # 0
      PROVE  pairing'[a][h] = pairing[a][h]
  <2>1. CASE DeviceAccepts(t)
    <3>1. pairing[job["request"][t].adapter][job["request"][t].handle] = 0
      BY <2>1 DEF DeviceAccepts
    <3>2. job["request"][t].adapter # a \/ job["request"][t].handle # h
      BY <1>3, <3>1
    <3>3. pairing' = [pairing EXCEPT ![job["request"][t].adapter][job["request"][t].handle] =
                                        job["request"][t].keyset]
      BY <2>1 DEF DeviceAccepts
    <3> DEFINE b == job["request"][t].adapter
               g == job["request"][t].handle
               k == job["request"][t].keyset
    <3>4. pairing' = [pairing EXCEPT ![b][g] = k] /\ (b # a \/ g # h)
      BY <3>2, <3>3
    <3> HIDE DEF b, g, k
    <3>5. pairing \in [Adapters -> [Handles -> 0..MaxReplies]]
      BY DEF VarTypes
    <3>6. QED BY <1>3, <3>4, <3>5
  <2>2. CASE ~DeviceAccepts(t)
    <3>1. pairing' = pairing
      BY <2>2 DEF Call, Enter, Request, Create, Name, Update, Reset, SendSucceeds, SendFails, deviceVars
    <3>2. QED BY <3>1
  <2>3. QED BY <2>1, <2>2
<1>4. ASSUME NEW u \in Threads, u \in Adapters, pc["event"][u] \in {"lock", "find", "get", "destroy"},
             job["event"][u].keyset # 0
      PROVE  pairing'[u][job["event"][u].handle] = pairing[u][job["event"][u].handle]
  <2>1. pairing[u][job["event"][u].handle] # 0 /\ job["event"][u].handle \in Handles
    BY <1>0, <1>4, JobFacts DEF EventInv
  <2>2. QED BY <1>3, <1>4, <2>1
<1>5. QED BY <1>1, <1>2, <1>4, EventFrame

LEMMA EventContext ==
    ASSUME VarTypes, EventInv, NEW c \in Contexts, NEW t \in Threads, Context(c, t)
    PROVE  EventInv'
<1>0. "event" \in Contexts
  BY ConstantFacts
<1>1. pairing' = pairing
  BY DEF Context, SetAdapterId, Unlock, ClearAdapterId, deviceVars
<1>2. CASE SetAdapterId(c, t)
  <2>1. /\ pc[c][t] = "lock" /\ Goto(c, t, FirstStage(job[c][t].kind)) /\ job' = job
        /\ FirstStage(job[c][t].kind) \in Stages
        /\ FirstStage(job[c][t].kind) \notin {"get", "destroy"}
    BY <1>2, JobFacts DEF SetAdapterId, At, FirstStage, Stages
  <2>2. /\ pc'[c][t] = FirstStage(job[c][t].kind)
        /\ \A d \in Contexts, u \in Threads : d # c \/ u # t => pc'[d][u] = pc[d][u]
    BY <2>1, GotoFacts
  <2>3. \A u \in Threads : \/ pc'["event"][u] = pc["event"][u]
                           \/ pc["event"][u] = "lock" /\ pc'["event"][u] \notin {"get", "destroy"}
    BY <1>0, <2>1, <2>2
  <2>4. QED BY <1>1, <2>1, <2>3, EventFrame
<1>3. CASE Unlock(c, t)
  <2>1. Goto(c, t, "clear") /\ job' = job /\ "clear" \in Stages
    BY <1>3 DEF Unlock, Stages
  <2>2. pc'[c][t] = "clear" /\ \A d \in Contexts, u \in Threads : d # c \/ u # t => pc'[d][u] = pc[d][u]
    BY <2>1, GotoFacts
  <2>3. \A u \in Threads : pc'["event"][u] = pc["event"][u] \/ pc'["event"][u] = "clear"
    BY <1>0, <2>2
  <2>4. QED BY <1>1, <2>1, <2>3, EventFrame
<1>4. CASE ClearAdapterId(c, t)
  <2>1. /\ Goto(c, t, "idle") /\ job' = [job EXCEPT ![c][t] = NoJob] /\ "idle" \in Stages
    BY <1>4 DEF ClearAdapterId, Stages
  <2>2. pc'[c][t] = "idle" /\ \A d \in Contexts, u \in Threads : d # c \/ u # t => pc'[d][u] = pc[d][u]
    BY <2>1, GotoFacts
  <2>3. \A d \in Contexts, u \in Threads : d # c \/ u # t => job'[d][u] = job[d][u]
    BY <2>1 DEF VarTypes
  <2>4. \A u \in Threads : \/ pc'["event"][u] = pc["event"][u] /\ job'["event"][u] = job["event"][u]
                           \/ pc'["event"][u] = "idle"
    BY <1>0, <2>2, <2>3
  <2>5. QED BY <1>1, <2>4, EventFrame
<1>5. QED BY <1>2, <1>3, <1>4 DEF Context

LEMMA EventBegins ==
    ASSUME VarTypes, EventInv, NEW a \in Adapters, AuthStatus(a)
    PROVE  EventInv'
<1>0. "event" \in Contexts /\ a \in Threads
  BY ConstantFacts
<1>1. PICK h \in Handles : Enter("event", a, a, "auth_status", h, pairing[a][h])
  BY DEF AuthStatus
<1>2. /\ pc'["event"][a] = "lock" /\ pairing' = pairing
      /\ job'["event"][a] = [adapter |-> a, kind |-> "auth_status", handle |-> h,
                             keyset |-> pairing[a][h], index |-> 0]
      /\ \A u \in Threads : u # a =>
            pc'["event"][u] = pc["event"][u] /\ job'["event"][u] = job["event"][u]
  BY <1>0, <1>1, EnterFacts
<1>3. /\ job'["event"][a].adapter = a /\ job'["event"][a].handle = h
      /\ job'["event"][a].keyset = pairing[a][h]
  BY <1>2
<1>4. ASSUME NEW t \in Threads, pc'["event"][t] \in {"lock", "find", "get", "destroy"}
      PROVE  /\ t \in Adapters /\ job'["event"][t].adapter = t
             /\ job'["event"][t].keyset # 0 =>
                   pairing'[t][job'["event"][t].handle] = job'["event"][t].keyset
             /\ pc'["event"][t] \in {"get", "destroy"} => job'["event"][t].keyset # 0
  <2>1. CASE t = a
    BY <1>2, <1>3, <2>1
  <2>2. CASE t # a
    BY <1>2, <1>4, <2>2 DEF EventInv
  <2>3. QED BY <2>1, <2>2
<1>5. QED BY <1>4 DEF EventInv

LEMMA EventSteps ==
    ASSUME VarTypes, EventInv, NEW a \in Adapters, Event(a)
    PROVE  EventInv'
<1>0. "event" \in Contexts /\ a \in Threads
  BY ConstantFacts
<1>1. ASSUME NEW label \in {"callback", "unlock"}, Goto("event", a, label), job' = job,
             \A b \in Adapters : b # a => pairing'[b] = pairing[b]
      PROVE  EventInv'
  <2>1. label \in Stages
    BY DEF Stages
  <2>2. pc'["event"][a] = label /\ \A u \in Threads : u # a => pc'["event"][u] = pc["event"][u]
    BY <1>0, <1>1, <2>1, GotoFacts
  <2>3. \A u \in Threads : pc'["event"][u] \in {"lock", "find", "get", "destroy"} =>
                              u # a /\ pc'["event"][u] = pc["event"][u]
    BY <2>2
  <2>4. QED BY <1>1, <2>3, EventFrame
<1>2. ASSUME Undecodable(a) PROVE EventInv'
  <2>1. Goto("event", a, "unlock") /\ job' = job /\ Over(a)
    BY <1>2 DEF Undecodable
  <2>2. \A b \in Adapters : b # a => pairing'[b] = pairing[b]
    BY <2>1, OverFacts
  <2>3. QED BY <1>1, <2>1, <2>2
<1>3. CASE Find(a)
  <2>1. \/ \E i \in Slots : /\ job["event"][a].keyset # 0
                            /\ job' = [job EXCEPT !["event"][a].index = i]
                            /\ Goto("event", a, "get") /\ pairing' = pairing
        \/ Goto("event", a, "callback") /\ job' = job /\ pairing' = pairing
        \/ Undecodable(a)
    BY <1>3 DEF Find, First, FoundBy, deviceVars
  <2>2. ASSUME NEW i \in Slots, job["event"][a].keyset # 0,
               job' = [job EXCEPT !["event"][a].index = i],
               Goto("event", a, "get"), pairing' = pairing
        PROVE  EventInv'
    <3>1. pc["event"][a] = "find"
      BY <1>3 DEF Find, At
    <3>2. "get" \in Stages
      BY DEF Stages
    <3>3. pc'["event"][a] = "get" /\ \A u \in Threads : u # a => pc'["event"][u] = pc["event"][u]
      BY <1>0, <2>2, <3>2, GotoFacts
    <3>4. \A u \in Threads : /\ job'["event"][u].adapter = job["event"][u].adapter
                             /\ job'["event"][u].handle = job["event"][u].handle
                             /\ job'["event"][u].keyset = job["event"][u].keyset
      BY <1>0, <2>2, IndexSet
    <3>5. QED BY <2>2, <3>1, <3>3, <3>4, EventFrame
  <2>3. QED BY <1>1, <1>2, <2>1, <2>2
<1>4. CASE Get(a)
  <2>1. \/ Goto("event", a, "destroy") /\ job' = job /\ pairing' = pairing
        \/ Undecodable(a)
    BY <1>4 DEF Get, deviceVars
  <2>2. CASE Goto("event", a, "destroy") /\ job' = job /\ pairing' = pairing
    <3>1. pc["event"][a] = "get" /\ "destroy" \in Stages
      BY <1>4 DEF Get, At, Stages
    <3>2. pc'["event"][a] = "destroy" /\ \A u \in Threads : u # a => pc'["event"][u] = pc["event"][u]
      BY <1>0, <2>2, <3>1, GotoFacts
    <3>3. QED BY <2>2, <3>1, <3>2, EventFrame
  <2>3. QED BY <1>2, <2>1, <2>2
<1>5. CASE Destroy(a)
  <2>1. \/ Over(a) /\ Goto("event", a, "callback") /\ job' = job
        \/ Undecodable(a)
    BY <1>5 DEF Destroy
  <2>2. QED BY <1>1, <1>2, <2>1, OverFacts
<1>6. CASE CallbackReturns(a)
  BY <1>1, <1>6 DEF CallbackReturns, deviceVars
<1>7. QED BY <1>3, <1>4, <1>5, <1>6 DEF Event

LEMMA EventInvStep ==
    VarTypes /\ HolderInv /\ ReplyInv /\ EventInv /\ [Next]_vars => EventInv'
<1> SUFFICES ASSUME VarTypes, HolderInv, ReplyInv, EventInv, [Next]_vars PROVE EventInv'
  OBVIOUS
<1>1. CASE UNCHANGED vars
  BY <1>1 DEF vars, deviceVars, EventInv
<1>2. CASE Next
  BY <1>2, EventRequest, EventContext, EventBegins, EventSteps DEF Next
<1>3. QED BY <1>1, <1>2

-----------------------------------------------------------------------------
(* The slots: steps that leave those of the adapter as they are.           *)

LEMMA SlotTypes ==
    ASSUME VarTypes, NEW a \in Adapters, NEW i \in Slots
    PROVE  Handle(a, i) \in Handles /\ Keyset(a, i) \in 0..MaxReplies
<1>1. app_keys_table[a][i] \in Slot
  BY SlotFacts
<1>2. QED BY <1>1 DEF Slot, Handle, Keyset

LEMMA OtherStep ==
    ASSUME VarTypes, NEW a \in Adapters, SlotsInv(a), NEW c \in Contexts, NEW t \in Threads,
           app_keys_table'[a] = app_keys_table[a],
           \A h \in Handles : pairing'[a][h] = pairing[a][h],
           \A d \in Contexts, u \in Threads : d # c \/ u # t =>
              pc'[d][u] = pc[d][u] /\ job'[d][u] = job[d][u],
           c = "request" => /\ ~Naming(a, t) /\ ~Storing(a, t)
                            /\ ~Naming(a, t)' /\ ~Storing(a, t)',
           c = "event" => t # a \/ pc'["event"][a] # "get"
    PROVE  SlotsInv(a)'
<1>0. "request" \in Contexts /\ "event" \in Contexts /\ a \in Threads
  BY ConstantFacts
<1>1. ASSUME NEW u \in Threads
      PROVE  /\ Naming(a, u)' <=> Naming(a, u)
             /\ Storing(a, u)' <=> Storing(a, u)
             /\ Naming(a, u) \/ Storing(a, u) =>
                   /\ job'["request"][u] = job["request"][u]
                   /\ pc'["request"][u] = pc["request"][u]
  <2>1. CASE c = "request" /\ u = t
    BY <2>1
  <2>2. CASE ~(c = "request" /\ u = t)
    <3>1. job'["request"][u] = job["request"][u] /\ pc'["request"][u] = pc["request"][u]
      BY <1>0, <2>2
    <3>2. QED BY <3>1 DEF Naming, Storing, Reply
  <2>3. QED BY <2>1, <2>2
<1>2. \A i \in Slots : /\ Handle(a, i)' = Handle(a, i) /\ Keyset(a, i)' = Keyset(a, i)
                       /\ Active(a, i)' <=> Active(a, i)
  BY DEF Handle, Keyset, Active
<1>3. \A i : i \in Named(a)' <=> i \in Named(a)
  BY <1>1, <1>2 DEF Named
<1>4. \A h \in Handles : Live(a, h)' <=> Live(a, h)
  BY <1>1 DEF Live
<1>5. \A i \in Named(a) : i \in Slots
  BY DEF Named
<1>6. FirstOfHandle(a)' /\ LiveNamed(a)'
  BY <1>2, <1>3, <1>4, <1>5 DEF SlotsInv, FirstOfHandle, LiveNamed
<1>7. KeysetsMatch(a)'
  BY <1>2, <1>3, <1>5, SlotTypes DEF SlotsInv, KeysetsMatch
<1>8. NamingSlot(a)'
  BY <1>0, <1>1, <1>2, JobFacts DEF SlotsInv, NamingSlot
<1>9. StoringSlot(a)'
  BY <1>0, <1>1, <1>2, JobFacts DEF SlotsInv, StoringSlot
<1>10. EventSlot(a)'
  <2>1. CASE pc'["event"][a] = "get"
    <3>1. c # "event" \/ t # a
      BY <2>1
    <3>2. pc["event"][a] = "get" /\ job'["event"][a] = job["event"][a]
      BY <1>0, <2>1, <3>1
    <3>3. QED BY <1>0, <1>2, <1>3, <3>2, JobFacts DEF SlotsInv, EventSlot
  <2>2. QED BY <2>1 DEF EventSlot
<1>11. QED BY <1>6, <1>7, <1>8, <1>9, <1>10 DEF SlotsInv

-----------------------------------------------------------------------------
(* The slots: steps of a call of the adapter.                              *)

LEMMA NoOtherReply ==
    ASSUME VarTypes, HolderInv, NEW t \in Threads, pc["request"][t] \notin Outside
    PROVE  \A b \in Adapters, u \in Threads : u # t => ~Naming(b, u) /\ ~Storing(b, u)
<1>1. \A u \in Threads : u # t => pc["request"][u] \in Outside
  BY Alone, ConstantFacts
<1>2. QED BY <1>1 DEF Outside, Naming, Storing

(* A step of the reply in the request context, seen from its adapter.      *)
RequestMove(a, t) ==
    /\ pc["request"][t] \in {"create", "name", "update", "reset", "send", "answer"}
    /\ job["request"][t].adapter = a
    /\ \A u \in Threads : /\ pc'["event"][u] = pc["event"][u] /\ job'["event"][u] = job["event"][u]
                          /\ u # t => /\ pc'["request"][u] = pc["request"][u]
                                      /\ job'["request"][u] = job["request"][u]
    /\ /\ job'["request"][t].kind = job["request"][t].kind
       /\ job'["request"][t].adapter = job["request"][t].adapter
       /\ job'["request"][t].handle = job["request"][t].handle
       /\ job'["request"][t].keyset = job["request"][t].keyset

LEMMA MoveFacts ==
    ASSUME VarTypes, HolderInv, NEW a \in Adapters, NEW t \in Threads, RequestMove(a, t)
    PROVE  /\ \A u \in Threads : u # t => /\ ~Naming(a, u) /\ ~Storing(a, u)
                                          /\ ~Naming(a, u)' /\ ~Storing(a, u)'
           /\ Naming(a, t) <=> pc["request"][t] = "name"
           /\ Naming(a, t)' <=> pc'["request"][t] = "name"
           /\ Storing(a, t) <=> pc["request"][t] \in {"update", "send"} /\ Reply(t)
           /\ Storing(a, t)' <=> pc'["request"][t] \in {"update", "send"} /\ Reply(t)
           /\ job["request"][t].handle \in Handles
           /\ job["request"][t].index \in Slots /\ job["request"][t].keyset \in 0..MaxReplies
<1>1. pc["request"][t] \notin Outside
  BY DEF RequestMove, Outside
<1>2. \A u \in Threads : u # t => ~Naming(a, u) /\ ~Storing(a, u)
  BY <1>1, NoOtherReply
<1>3. \A u \in Threads : u # t => ~Naming(a, u)' /\ ~Storing(a, u)'
  BY <1>2 DEF RequestMove, Naming, Storing, Reply
<1>4. /\ Naming(a, t) <=> pc["request"][t] = "name"
      /\ Naming(a, t)' <=> pc'["request"][t] = "name"
  BY DEF RequestMove, Naming
<1>5. /\ Storing(a, t) <=> pc["request"][t] \in {"update", "send"} /\ Reply(t)
      /\ Storing(a, t)' <=> pc'["request"][t] \in {"update", "send"} /\ Reply(t)
  BY DEF RequestMove, Storing, Reply
<1>6. QED BY <1>2, <1>3, <1>4, <1>5, JobFacts, ConstantFacts

LEMMA CreateSlot ==
    ASSUME VarTypes, HolderInv, ReplyInv, NEW a \in Adapters, SlotsInv(a), NEW t \in Threads,
           RequestMove(a, t), pc["request"][t] = "create", pc'["request"][t] = "name",
           NEW i \in Slots, job'["request"][t].index = i,
           ~Active(a, i), \A l \in Slots : l < i => Active(a, l),
           app_keys_table'[a] = [app_keys_table[a] EXCEPT ![i].conn_active = TRUE],
           pairing' = pairing
    PROVE  SlotsInv(a)'
<1> DEFINE h == job["request"][t].handle
<1>1. \A l \in Slots : /\ Handle(a, l)' = Handle(a, l) /\ Keyset(a, l)' = Keyset(a, l)
                       /\ Active(a, l)' <=> Active(a, l) \/ l = i
  <2>1. /\ app_keys_table[a] \in [Slots -> Slot]
        /\ app_keys_table[a][i] \in Slot
    BY DEF VarTypes
  <2> DEFINE s == [app_keys_table[a][i] EXCEPT !.conn_active = TRUE]
  <2>2. /\ s.conn_active /\ s.conn_handle = app_keys_table[a][i].conn_handle
        /\ s.keyset = app_keys_table[a][i].keyset
    BY <2>1 DEF Slot
  <2>3. app_keys_table'[a] = [app_keys_table[a] EXCEPT ![i] = s]
    OBVIOUS
  <2> HIDE DEF s
  <2>4. \A l \in Slots : app_keys_table'[a][l] = IF l = i THEN s ELSE app_keys_table[a][l]
    BY <2>1, <2>3
  <2>5. QED BY <2>2, <2>4 DEF Handle, Keyset, Active
<1>2. /\ \A u \in Threads : ~Naming(a, u) /\ ~Storing(a, u) /\ ~Storing(a, u)'
      /\ \A u \in Threads : Naming(a, u)' <=> u = t
      /\ h \in Handles /\ h = job'["request"][t].handle
  <2>1. ~Naming(a, t) /\ ~Storing(a, t) /\ ~Storing(a, t)' /\ Naming(a, t)'
    BY MoveFacts
  <2>2. \A u \in Threads : u # t => ~Naming(a, u)' /\ ~Storing(a, u) /\ ~Naming(a, u) /\ ~Storing(a, u)'
    BY MoveFacts
  <2>3. h \in Handles /\ h = job'["request"][t].handle
    BY MoveFacts DEF RequestMove
  <2>4. QED BY <2>1, <2>2, <2>3
<1>3. \A l : l \in Named(a) <=> l \in Slots /\ Active(a, l)
  BY <1>2 DEF Named
<1>4. \A l : l \in Named(a)' <=> l \in Named(a)
  BY <1>1, <1>2, <1>3 DEF Named
<1>5. \A g \in Handles : (Live(a, g) <=> pairing[a][g] # 0) /\ (Live(a, g)' <=> pairing[a][g] # 0)
  BY <1>2 DEF Live
<1>6. pairing[a][h] = 0
  BY DEF ReplyInv, RequestMove
<1>7. \A l \in Slots : l < i => Handle(a, l) # h
  <2>1. ASSUME NEW l \in Slots, l < i PROVE Handle(a, l) # h
    <3>1. l \in Named(a)
      BY <1>3, <2>1
    <3>2. Handle(a, l) \in Handles
      BY SlotTypes
    <3>3. Live(a, Handle(a, l))
      BY <3>1, <3>2 DEF SlotsInv, LiveNamed
    <3>4. QED BY <1>5, <1>6, <3>2, <3>3
  <2>2. QED BY <2>1
<1>8. FirstOfHandle(a)'
  BY <1>1, <1>3, <1>4 DEF SlotsInv, FirstOfHandle
<1>9. LiveNamed(a)'
  BY <1>1, <1>3, <1>4, <1>5 DEF SlotsInv, LiveNamed
<1>10. KeysetsMatch(a)'
  BY <1>1, <1>3, <1>4, SlotTypes DEF SlotsInv, KeysetsMatch
<1>11. NamingSlot(a)'
  BY <1>1, <1>2, <1>7 DEF NamingSlot
<1>12. StoringSlot(a)'
  BY <1>2 DEF StoringSlot
<1>13. EventSlot(a)'
  <2>1. a \in Threads
    BY ConstantFacts
  <2>2. QED BY <1>1, <1>3, <1>4, <2>1 DEF SlotsInv, EventSlot, RequestMove
<1>14. QED BY <1>8, <1>9, <1>10, <1>11, <1>12, <1>13 DEF SlotsInv

LEMMA NameSlot ==
    ASSUME VarTypes, HolderInv, ReplyInv, NEW a \in Adapters, SlotsInv(a), NEW t \in Threads,
           RequestMove(a, t), pc["request"][t] = "name", pc'["request"][t] = "update",
           NEW i \in Slots, i = job["request"][t].index, job'["request"][t].index = i,
           NEW h, h = job["request"][t].handle,
           app_keys_table'[a] = [app_keys_table[a] EXCEPT ![i].conn_handle = h],
           pairing' = pairing
    PROVE  SlotsInv(a)'
<1>1. \A l \in Slots : /\ Handle(a, l)' = IF l = i THEN h ELSE Handle(a, l)
                       /\ Keyset(a, l)' = Keyset(a, l)
                       /\ Active(a, l)' <=> Active(a, l)
  <2>1. /\ app_keys_table[a] \in [Slots -> Slot]
        /\ app_keys_table[a][i] \in Slot
    BY DEF VarTypes
  <2> DEFINE s == [app_keys_table[a][i] EXCEPT !.conn_handle = h]
  <2>2. /\ s.conn_active = app_keys_table[a][i].conn_active /\ s.conn_handle = h
        /\ s.keyset = app_keys_table[a][i].keyset
    BY <2>1 DEF Slot
  <2>3. app_keys_table'[a] = [app_keys_table[a] EXCEPT ![i] = s]
    OBVIOUS
  <2> HIDE DEF s
  <2>4. \A l \in Slots : app_keys_table'[a][l] = IF l = i THEN s ELSE app_keys_table[a][l]
    BY <2>1, <2>3
  <2>5. QED BY <2>2, <2>4 DEF Handle, Keyset, Active
<1>2. Reply(t)
  BY DEF ReplyInv
<1>3. /\ \A u \in Threads : ~Naming(a, u)' /\ ~Storing(a, u)
      /\ \A u \in Threads : /\ Naming(a, u) <=> u = t
                            /\ Storing(a, u)' <=> u = t
      /\ h \in Handles /\ h = job'["request"][t].handle
  <2>1. /\ ~Naming(a, t)' /\ ~Storing(a, t) /\ Naming(a, t) /\ Storing(a, t)'
    BY <1>2, MoveFacts
  <2>2. \A u \in Threads : u # t => ~Naming(a, u)' /\ ~Storing(a, u) /\ ~Naming(a, u) /\ ~Storing(a, u)'
    BY MoveFacts
  <2>3. h \in Handles /\ h = job'["request"][t].handle
    BY MoveFacts DEF RequestMove
  <2>4. QED BY <2>1, <2>2, <2>3
<1>4. /\ Active(a, i) /\ \A l \in Slots : l < i => Handle(a, l) # h
  BY <1>3 DEF SlotsInv, NamingSlot
<1>5. \A l : l \in Named(a) <=> l \in Slots /\ Active(a, l) /\ l # i
  BY <1>3 DEF Named
<1>6. \A l : l \in Named(a)' <=> l \in Named(a) \/ l = i
  BY <1>1, <1>3, <1>4, <1>5 DEF Named
<1>7. \A g \in Handles : (Live(a, g) <=> pairing[a][g] # 0) /\ (Live(a, g)' <=> pairing[a][g] # 0 \/ g = h)
  BY <1>3 DEF Live
<1>8. pairing[a][h] = 0
  BY <1>2 DEF ReplyInv, RequestMove
<1>9. \A j \in Named(a) : Handle(a, j) # h
  <2>1. ASSUME NEW j \in Named(a) PROVE Handle(a, j) # h
    <3>1. j \in Slots /\ Handle(a, j) \in Handles
      BY <1>5, SlotTypes
    <3>2. Live(a, Handle(a, j))
      BY <3>1 DEF SlotsInv, LiveNamed
    <3>3. QED BY <1>7, <1>8, <3>1, <3>2
  <2>2. QED BY <2>1
<1>10. FirstOfHandle(a)'
  <2>1. ASSUME NEW j \in Named(a)', NEW l \in Slots, l < j
        PROVE  Handle(a, l)' # Handle(a, j)'
    <3>1. CASE j = i
      BY <1>1, <1>4, <2>1, <3>1 DEF Slots
    <3>2. CASE j # i
      <4>1. j \in Named(a) /\ j \in Slots /\ Handle(a, j)' = Handle(a, j)
        BY <1>1, <1>5, <1>6, <3>2
      <4>2. Handle(a, l) # Handle(a, j)
        BY <2>1, <4>1 DEF SlotsInv, FirstOfHandle
      <4>3. QED BY <1>1, <1>9, <4>1, <4>2
    <3>3. QED BY <3>1, <3>2
  <2>2. QED BY <2>1 DEF FirstOfHandle
<1>11. LiveNamed(a)'
  <2>1. ASSUME NEW g \in Handles PROVE Live(a, g)' <=> \E j \in Named(a)' : Handle(a, j)' = g
    <3>1. pairing[a][g] # 0 <=> \E j \in Named(a) : Handle(a, j) = g
      BY <1>7 DEF SlotsInv, LiveNamed
    <3>2. \A j \in Named(a) : j \in Named(a)' /\ Handle(a, j)' = Handle(a, j)
      BY <1>1, <1>5, <1>6
    <3>3. i \in Named(a)' /\ Handle(a, i)' = h
      BY <1>1, <1>6
    <3>4. QED BY <1>6, <1>7, <3>1, <3>2, <3>3
  <2>2. QED BY <2>1 DEF LiveNamed
<1>12. KeysetsMatch(a)'
  <2>1. ASSUME NEW j \in Named(a)' PROVE pairing'[a][Handle(a, j)'] \in {0, Keyset(a, j)'}
    <3>1. CASE j = i
      BY <1>1, <1>8, <3>1
    <3>2. CASE j # i
      <4>1. j \in Named(a) /\ j \in Slots
        BY <1>5, <1>6, <3>2
      <4>2. QED BY <1>1, <3>2, <4>1 DEF SlotsInv, KeysetsMatch
    <3>3. QED BY <3>1, <3>2
  <2>2. QED BY <2>1 DEF KeysetsMatch
<1>13. NamingSlot(a)'
  BY <1>3 DEF NamingSlot
<1>14. StoringSlot(a)'
  <2>1. Active(a, i)' /\ Handle(a, i)' = h /\ pc'["request"][t] # "send"
    BY <1>1, <1>4
  <2>2. QED BY <1>3, <2>1 DEF StoringSlot
<1>15. EventSlot(a)'
  <2>1. a \in Threads
    BY ConstantFacts
  <2>2. ASSUME pc'["event"][a] = "get"
        PROVE  (job["event"][a].index \in Named(a) /\ Handle(a, job["event"][a].index) = job["event"][a].handle)'
    <3>1. pc["event"][a] = "get" /\ job'["event"][a] = job["event"][a]
      BY <2>1, <2>2 DEF RequestMove
    <3>2. job["event"][a].index \in Named(a) /\ Handle(a, job["event"][a].index) = job["event"][a].handle
      BY <3>1 DEF SlotsInv, EventSlot
    <3>3. job["event"][a].index \in Named(a)' /\ Handle(a, job["event"][a].index)' = job["event"][a].handle
      BY <1>1, <1>5, <1>6, <3>1, <3>2
    <3>4. QED BY <3>1, <3>3
  <2>3. QED BY <2>2 DEF EventSlot
<1>16. QED BY <1>10, <1>11, <1>12, <1>13, <1>14, <1>15 DEF SlotsInv

LEMMA UpdateSlot ==
    ASSUME VarTypes, HolderInv, ReplyInv, NEW a \in Adapters, SlotsInv(a), NEW t \in Threads,
           RequestMove(a, t), pc["request"][t] = "update", pc'["request"][t] = "send",
           NEW i \in Slots, i = job["request"][t].index, job'["request"][t].index = i,
           NEW k, k = job["request"][t].keyset,
           app_keys_table'[a] = [app_keys_table[a] EXCEPT ![i].keyset = k],
           pairing' = pairing
    PROVE  SlotsInv(a)'
<1>1. \A l \in Slots : /\ Handle(a, l)' = Handle(a, l)
                       /\ Keyset(a, l)' = IF l = i THEN k ELSE Keyset(a, l)
                       /\ Active(a, l)' <=> Active(a, l)
  <2>1. /\ app_keys_table[a] \in [Slots -> Slot]
        /\ app_keys_table[a][i] \in Slot
    BY DEF VarTypes
  <2> DEFINE s == [app_keys_table[a][i] EXCEPT !.keyset = k]
  <2>2. /\ s.conn_active = app_keys_table[a][i].conn_active /\ s.keyset = k
        /\ s.conn_handle = app_keys_table[a][i].conn_handle
    BY <2>1 DEF Slot
  <2>3. app_keys_table'[a] = [app_keys_table[a] EXCEPT ![i] = s]
    OBVIOUS
  <2> HIDE DEF s
  <2>4. \A l \in Slots : app_keys_table'[a][l] = IF l = i THEN s ELSE app_keys_table[a][l]
    BY <2>1, <2>3
  <2>5. QED BY <2>2, <2>4 DEF Handle, Keyset, Active
<1>2. Reply(t)
  BY DEF ReplyInv
<1>3. \A u \in Threads : /\ ~Naming(a, u) /\ ~Naming(a, u)'
                         /\ Storing(a, u) <=> u = t
                         /\ Storing(a, u)' <=> u = t
  <2>1. ~Naming(a, t) /\ ~Naming(a, t)' /\ Storing(a, t) /\ Storing(a, t)'
    BY <1>2, MoveFacts
  <2>2. \A u \in Threads : u # t => ~Naming(a, u)' /\ ~Storing(a, u) /\ ~Naming(a, u) /\ ~Storing(a, u)'
    BY MoveFacts
  <2>3. QED BY <2>1, <2>2
<1>4. Active(a, i) /\ Handle(a, i) = job["request"][t].handle
  BY <1>3 DEF SlotsInv, StoringSlot
<1>5. \A l : /\ l \in Named(a) <=> l \in Slots /\ Active(a, l)
             /\ l \in Named(a)' <=> l \in Slots /\ Active(a, l)
  BY <1>1, <1>3 DEF Named
<1>6. \A h \in Handles : Live(a, h)' <=> Live(a, h)
  BY <1>3 DEF Live, RequestMove
<1>7. pairing[a][Handle(a, i)] = 0
  <2>1. /\ pc["request"][t] \in {"lock", "create", "name", "update", "send"}
        /\ job["request"][t].adapter = a
    BY DEF RequestMove
  <2>2. pairing[job["request"][t].adapter][job["request"][t].handle] = 0
    BY <1>2, <2>1 DEF ReplyInv
  <2>3. QED BY <1>4, <2>1, <2>2
<1>8. FirstOfHandle(a)'
  BY <1>1, <1>5 DEF SlotsInv, FirstOfHandle
<1>9. LiveNamed(a)'
  BY <1>1, <1>5, <1>6 DEF SlotsInv, LiveNamed
<1>10. KeysetsMatch(a)'
  <2>1. ASSUME NEW j \in Named(a)' PROVE pairing'[a][Handle(a, j)'] \in {0, Keyset(a, j)'}
    <3>1. j \in Named(a) /\ j \in Slots
      BY <1>5
    <3>2. CASE j = i
      BY <1>1, <1>7, <3>1, <3>2
    <3>3. CASE j # i
      BY <1>1, <3>1, <3>3 DEF SlotsInv, KeysetsMatch
    <3>4. QED BY <3>2, <3>3
  <2>2. QED BY <2>1 DEF KeysetsMatch
<1>11. NamingSlot(a)'
  BY <1>3 DEF NamingSlot
<1>12. StoringSlot(a)'
  <2>1. Active(a, i)' /\ Handle(a, i)' = job["request"][t].handle /\ Keyset(a, i)' = k
    BY <1>1, <1>4
  <2>2. QED BY <1>3, <2>1 DEF StoringSlot, RequestMove
<1>13. EventSlot(a)'
  <2>1. a \in Threads /\ \A l \in Named(a) : l \in Slots
    BY <1>5, ConstantFacts
  <2>2. QED BY <1>1, <1>5, <2>1 DEF SlotsInv, EventSlot, RequestMove
<1>14. QED BY <1>8, <1>9, <1>10, <1>11, <1>12, <1>13 DEF SlotsInv

(* The device has accepted the reply: from now on the pairing says what    *)
(* the reply on its way said.                                              *)
LEMMA AcceptSlot ==
    ASSUME VarTypes, HolderInv, ReplyInv, NEW a \in Adapters, SlotsInv(a), NEW t \in Threads,
           RequestMove(a, t), pc["request"][t] = "send", pc'["request"][t] = "answer", Reply(t),
           job'["request"][t].index = job["request"][t].index,
           app_keys_table'[a] = app_keys_table[a],
           pairing'[a] = [pairing[a] EXCEPT ![job["request"][t].handle] = job["request"][t].keyset]
    PROVE  SlotsInv(a)'
<1> DEFINE h == job["request"][t].handle
           i == job["request"][t].index
           k == job["request"][t].keyset
<1>1. \A l \in Slots : /\ Handle(a, l)' = Handle(a, l) /\ Keyset(a, l)' = Keyset(a, l)
                       /\ Active(a, l)' <=> Active(a, l)
  BY DEF Handle, Keyset, Active
<1>2. \A u \in Threads : /\ ~Naming(a, u) /\ ~Naming(a, u)' /\ ~Storing(a, u)'
                         /\ Storing(a, u) <=> u = t
  BY MoveFacts
<1>3. Active(a, i) /\ Handle(a, i) = h /\ Keyset(a, i) = k
  BY <1>2 DEF SlotsInv, StoringSlot
<1>4. h \in Handles /\ i \in Slots /\ k # 0
  BY MoveFacts DEF ReplyInv
<1> HIDE DEF h, i, k
<1>5. \A l : /\ l \in Named(a) <=> l \in Slots /\ Active(a, l)
             /\ l \in Named(a)' <=> l \in Slots /\ Active(a, l)
  BY <1>1, <1>2 DEF Named
<1>6. \A g \in Handles : pairing'[a][g] = IF g = h THEN k ELSE pairing[a][g]
  <2>1. pairing'[a] = [pairing[a] EXCEPT ![h] = k]
    BY DEF h, k
  <2>2. pairing[a] \in [Handles -> 0..MaxReplies]
    BY DEF VarTypes
  <2>3. QED BY <2>1, <2>2
<1>7. \A g \in Handles : Live(a, g)' <=> Live(a, g)
  BY <1>2, <1>4, <1>6 DEF Live, h
<1>8. FirstOfHandle(a)'
  BY <1>1, <1>5 DEF SlotsInv, FirstOfHandle
<1>9. LiveNamed(a)'
  BY <1>1, <1>5, <1>7 DEF SlotsInv, LiveNamed
<1>10. KeysetsMatch(a)'
  <2>1. ASSUME NEW j \in Named(a)' PROVE pairing'[a][Handle(a, j)'] \in {0, Keyset(a, j)'}
    <3>1. j \in Named(a) /\ j \in Slots /\ i \in Named(a) /\ Handle(a, j) \in Handles
      BY <1>3, <1>4, <1>5, SlotTypes
    <3>2. CASE Handle(a, j) = h
      <4>1. ~(i < j) /\ ~(j < i)
        BY <1>3, <1>4, <3>1, <3>2 DEF SlotsInv, FirstOfHandle
      <4>2. i = j
        BY <1>4, <3>1, <4>1, BoundsAssumption DEF Slots
      <4>3. QED BY <1>1, <1>3, <1>6, <3>1, <3>2, <4>2
    <3>3. CASE Handle(a, j) # h
      BY <1>1, <1>6, <3>1, <3>3 DEF SlotsInv, KeysetsMatch
    <3>4. QED BY <3>2, <3>3
  <2>2. QED BY <2>1 DEF KeysetsMatch
<1>11. NamingSlot(a)' /\ StoringSlot(a)'
  BY <1>2 DEF NamingSlot, StoringSlot
<1>12. EventSlot(a)'
  <2>1. a \in Threads /\ \A l \in Named(a) : l \in Slots
    BY <1>5, ConstantFacts
  <2>2. QED BY <1>1, <1>5, <2>1 DEF SlotsInv, EventSlot, RequestMove
<1>13. QED BY <1>8, <1>9, <1>10, <1>11, <1>12 DEF SlotsInv

(* No connection of the adapter is being paired: all slots are free.       *)
LEMMA ResetSlots ==
    ASSUME VarTypes, HolderInv, ReplyInv, EventInv, NEW a \in Adapters, NEW t \in Threads,
           RequestMove(a, t), pc["request"][t] = "reset", pc'["request"][t] = "send",
           app_keys_table'[a] = [i \in Slots |-> [app_keys_table[a][i] EXCEPT !.conn_active = FALSE]],
           pairing' = pairing, \A h \in Handles : pairing[a][h] = 0
    PROVE  SlotsInv(a)'
<1>1. \A l \in Slots : ~Active(a, l)'
  <2>1. ASSUME NEW l \in Slots PROVE ~Active(a, l)'
    <3>1. app_keys_table'[a][l] = [app_keys_table[a][l] EXCEPT !.conn_active = FALSE]
      OBVIOUS
    <3>2. app_keys_table[a][l] \in Slot
      BY SlotFacts
    <3>3. ~app_keys_table'[a][l].conn_active
      BY <3>1, <3>2 DEF Slot
    <3>4. QED BY <3>3 DEF Active
  <2>2. QED BY <2>1
<1>2. ~Reply(t)
  BY DEF ReplyInv
<1>3. \A u \in Threads : ~Naming(a, u)' /\ ~Storing(a, u)'
  BY <1>2, MoveFacts
<1>4. \A l : l \notin Named(a)'
  BY <1>1 DEF Named
<1>5. \A h \in Handles : ~Live(a, h)'
  BY <1>3 DEF Live
<1>6. pc'["event"][a] # "get"
  <2>1. a \in Threads /\ "event" \in Contexts
    BY ConstantFacts
  <2>2. ASSUME pc["event"][a] = "get" PROVE FALSE
    <3>1. pairing[a][job["event"][a].handle] = job["event"][a].keyset /\ job["event"][a].keyset # 0
      BY <2>1, <2>2 DEF EventInv
    <3>2. job["event"][a].handle \in Handles
      BY <2>1, JobFacts
    <3>3. QED BY <3>1, <3>2
  <2>3. QED BY <2>1, <2>2 DEF RequestMove
<1>7. FirstOfHandle(a)' /\ KeysetsMatch(a)'
  BY <1>4 DEF FirstOfHandle, KeysetsMatch
<1>8. LiveNamed(a)'
  BY <1>4, <1>5 DEF LiveNamed
<1>9. NamingSlot(a)' /\ StoringSlot(a)' /\ EventSlot(a)'
  BY <1>3, <1>6 DEF NamingSlot, StoringSlot, EventSlot
<1>10. QED BY <1>7, <1>8, <1>9 DEF SlotsInv

-----------------------------------------------------------------------------
(* The slots: steps of the adapter's event.                                *)

(* A step of the event thread in the event context.                        *)
EventMove(a) ==
    \A u \in Threads : /\ pc'["request"][u] = pc["request"][u] /\ job'["request"][u] = job["request"][u]
                       /\ u # a => pc'["event"][u] = pc["event"][u] /\ job'["event"][u] = job["event"][u]

LEMMA EventMoveFacts ==
    ASSUME NEW a \in Adapters, EventMove(a)
    PROVE  \A u \in Threads : (Naming(a, u)' <=> Naming(a, u)) /\ (Storing(a, u)' <=> Storing(a, u))
  BY DEF EventMove, Naming, Storing, Reply

(* The slot of the pairing that an event ends is there, and it is the one  *)
(* that app_ble_gap_sec_keys_find() and _storage_destroy() find.           *)
LEMMA SlotOfPairing ==
    ASSUME VarTypes, NEW a \in Adapters, SlotsInv(a), NEW h \in Handles, pairing[a][h] # 0
    PROVE  \E j \in Named(a) :
              /\ Handle(a, j) = h
              /\ \A i \in Slots : Handle(a, i) = h /\ i <= j => i = j
<1>1. PICK j \in Named(a) : Handle(a, j) = h
  BY DEF SlotsInv, LiveNamed, Live
<1>2. j \in Slots
  BY DEF Named
<1>3. ASSUME NEW i \in Slots, Handle(a, i) = h, i <= j PROVE i = j
  <2>1. ~(i < j)
    BY <1>1, <1>3 DEF SlotsInv, FirstOfHandle
  <2>2. QED BY <1>2, <1>3, <2>1, BoundsAssumption DEF Slots
<1>4. QED BY <1>1, <1>3

LEMMA FindSlot ==
    ASSUME VarTypes, NEW a \in Adapters, SlotsInv(a), EventMove(a),
           NEW h \in Handles, h = job["event"][a].handle, pairing[a][h] # 0,
           NEW i \in Slots, i \in First(FoundBy(app_keys_table[a], h)),
           job'["event"][a].index = i, job'["event"][a].handle = h,
           app_keys_table'[a] = app_keys_table[a], pairing' = pairing
    PROVE  SlotsInv(a)'
<1>1. \A l \in Slots : /\ Handle(a, l)' = Handle(a, l) /\ Keyset(a, l)' = Keyset(a, l)
                       /\ Active(a, l)' <=> Active(a, l)
  BY DEF Handle, Keyset, Active
<1>2. \A u \in Threads : (Naming(a, u)' <=> Naming(a, u)) /\ (Storing(a, u)' <=> Storing(a, u))
  BY EventMoveFacts
<1>3. \A l : l \in Named(a)' <=> l \in Named(a)
  BY <1>1, <1>2 DEF Named, EventMove
<1>4. \A l \in Named(a) : l \in Slots
  BY DEF Named
<1>5. \A g \in Handles : Live(a, g)' <=> Live(a, g)
  BY <1>2 DEF Live, EventMove
<1>6. i \in Named(a) /\ Handle(a, i) = h
  <2>1. PICK j \in Named(a) : /\ Handle(a, j) = h
                              /\ \A l \in Slots : Handle(a, l) = h /\ l <= j => l = j
    BY SlotOfPairing
  <2>2. j \in FoundBy(app_keys_table[a], h)
    BY <2>1 DEF FoundBy, Named, Active, Handle
  <2>3. i <= j /\ Handle(a, i) = h
    BY <2>2 DEF First, FoundBy, Handle
  <2>4. QED BY <2>1, <2>3
<1>7. FirstOfHandle(a)'
  BY <1>1, <1>3, <1>4 DEF SlotsInv, FirstOfHandle
<1>8. LiveNamed(a)'
  BY <1>1, <1>3, <1>4, <1>5 DEF SlotsInv, LiveNamed
<1>9. KeysetsMatch(a)'
  BY <1>1, <1>3, <1>4 DEF SlotsInv, KeysetsMatch
<1>10. \A u \in Threads : job["request"][u].index \in Slots
  BY JobFacts, ConstantFacts
<1>11. NamingSlot(a)'
  BY <1>1, <1>2, <1>10 DEF SlotsInv, NamingSlot, EventMove
<1>12. StoringSlot(a)'
  BY <1>1, <1>2, <1>10 DEF SlotsInv, StoringSlot, EventMove
<1>13. EventSlot(a)'
  BY <1>1, <1>3, <1>6 DEF EventSlot
<1>14. QED BY <1>7, <1>8, <1>9, <1>11, <1>12, <1>13 DEF SlotsInv

LEMMA DestroySlot ==
    ASSUME VarTypes, ReplyInv, NEW a \in Adapters, SlotsInv(a), EventMove(a),
           pc'["event"][a] # "get",
           NEW h \in Handles, h = job["event"][a].handle, pairing[a][h] # 0,
           NEW i \in Slots, i \in First(DestroyedBy(app_keys_table[a], h)),
           app_keys_table'[a] = [app_keys_table[a] EXCEPT ![i].conn_active = FALSE],
           pairing'[a][h] = 0, \A g \in Handles : g # h => pairing'[a][g] = pairing[a][g]
    PROVE  SlotsInv(a)'
<1>1. \A l \in Slots : /\ Handle(a, l)' = Handle(a, l) /\ Keyset(a, l)' = Keyset(a, l)
                       /\ Active(a, l)' <=> Active(a, l) /\ l # i
  <2>1. /\ app_keys_table[a] \in [Slots -> Slot]
        /\ app_keys_table[a][i] \in Slot
    BY DEF VarTypes
  <2> DEFINE s == [app_keys_table[a][i] EXCEPT !.conn_active = FALSE]
  <2>2. /\ ~s.conn_active /\ s.conn_handle = app_keys_table[a][i].conn_handle
        /\ s.keyset = app_keys_table[a][i].keyset
    BY <2>1 DEF Slot
  <2>3. app_keys_table'[a] = [app_keys_table[a] EXCEPT ![i] = s]
    OBVIOUS
  <2> HIDE DEF s
  <2>4. \A l \in Slots : app_keys_table'[a][l] = IF l = i THEN s ELSE app_keys_table[a][l]
    BY <2>1, <2>3
  <2>5. QED BY <2>2, <2>4 DEF Handle, Keyset, Active
<1>2. \A u \in Threads : (Naming(a, u)' <=> Naming(a, u)) /\ (Storing(a, u)' <=> Storing(a, u))
  BY EventMoveFacts
<1>3. i \in Named(a) /\ Handle(a, i) = h
  <2>1. PICK j \in Named(a) : /\ Handle(a, j) = h
                              /\ \A l \in Slots : Handle(a, l) = h /\ l <= j => l = j
    BY SlotOfPairing
  <2>2. j \in DestroyedBy(app_keys_table[a], h)
    BY <2>1 DEF DestroyedBy, Named, Handle
  <2>3. i <= j /\ Handle(a, i) = h
    BY <2>2 DEF First, DestroyedBy, Handle
  <2>4. QED BY <2>1, <2>3
<1>4. \A l : /\ l \in Named(a)' <=> l \in Named(a) /\ l # i
             /\ l \in Named(a) => l \in Slots
  BY <1>1, <1>2 DEF Named, EventMove
<1>5. \A l \in Named(a) : l # i => Handle(a, l) # h
  <2>1. ASSUME NEW l \in Named(a), Handle(a, l) = h PROVE l = i
    <3>1. l \in Slots /\ ~(i < l) /\ ~(l < i)
      BY <1>3, <1>4, <2>1 DEF SlotsInv, FirstOfHandle
    <3>2. QED BY <3>1, BoundsAssumption DEF Slots
  <2>2. QED BY <2>1
<1>6. \A u \in Threads : Storing(a, u) => job["request"][u].handle # h
  BY DEF Storing, ReplyInv
<1>7. \A g \in Handles : Live(a, g)' <=> Live(a, g) /\ g # h
  <2>1. \A u \in Threads : Storing(a, u)' <=> Storing(a, u) /\ job["request"][u].handle # h
    BY <1>2, <1>6
  <2>2. QED BY <2>1, <1>6 DEF Live, EventMove
<1>8. \A u \in Threads : job["request"][u].index \in Slots
  BY JobFacts, ConstantFacts
<1>9. FirstOfHandle(a)'
  BY <1>1, <1>4 DEF SlotsInv, FirstOfHandle
<1>10. LiveNamed(a)'
  <2>1. ASSUME NEW g \in Handles PROVE Live(a, g)' <=> \E j \in Named(a)' : Handle(a, j)' = g
    <3>1. Live(a, g) <=> \E j \in Named(a) : Handle(a, j) = g
      BY DEF SlotsInv, LiveNamed
    <3>2. \A j \in Named(a) : Handle(a, j)' = Handle(a, j)
      BY <1>1, <1>4
    <3>3. QED BY <1>3, <1>4, <1>5, <1>7, <3>1, <3>2
  <2>2. QED BY <2>1 DEF LiveNamed
<1>11. KeysetsMatch(a)'
  <2>1. ASSUME NEW j \in Named(a)' PROVE pairing'[a][Handle(a, j)'] \in {0, Keyset(a, j)'}
    <3>1. j \in Named(a) /\ j # i /\ j \in Slots
      BY <1>4
    <3>2. Handle(a, j) # h /\ Handle(a, j) \in Handles
      BY <1>5, <3>1, SlotTypes
    <3>3. pairing[a][Handle(a, j)] \in {0, Keyset(a, j)}
      BY <3>1 DEF SlotsInv, KeysetsMatch
    <3>4. QED BY <1>1, <3>1, <3>2, <3>3
  <2>2. QED BY <2>1 DEF KeysetsMatch
<1>12. NamingSlot(a)'
  <2>1. ASSUME NEW u \in Threads, Naming(a, u) PROVE job["request"][u].index # i
    BY <1>3, <2>1 DEF Named
  <2>2. QED BY <1>1, <1>2, <1>8, <2>1 DEF SlotsInv, NamingSlot, EventMove
<1>13. StoringSlot(a)'
  <2>1. ASSUME NEW u \in Threads, Storing(a, u) PROVE job["request"][u].index # i
    BY <1>3, <1>6, <2>1 DEF SlotsInv, StoringSlot
  <2>2. QED BY <1>1, <1>2, <1>8, <2>1 DEF SlotsInv, StoringSlot, EventMove
<1>14. EventSlot(a)'
  BY DEF EventSlot
<1>15. QED BY <1>9, <1>10, <1>11, <1>12, <1>13, <1>14 DEF SlotsInv

-----------------------------------------------------------------------------
(* The slots: every step.                                                  *)

LEMMA RequestFrame ==
    ASSUME VarTypes, HolderInv, NeverAnotherAdapter, NEW t \in Threads, Request(t)
    PROVE  /\ RequestMove(job["request"][t].adapter, t)
           /\ adapter_id["request"] \in {job["request"][t].adapter, none}
           /\ \A d \in Contexts, u \in Threads : d # "request" \/ u # t =>
                 pc'[d][u] = pc[d][u] /\ job'[d][u] = job[d][u]
<1>0. "request" \in Contexts /\ "event" \in Contexts /\ "request" # "event"
  BY ConstantFacts
<1>1. pc["request"][t] \in {"create", "name", "update", "reset", "send", "answer"}
  BY DEF Request, Create, Name, Update, Reset, DeviceAccepts, SendSucceeds, SendFails, At
<1>2. \E label \in Stages : Goto("request", t, label)
  BY DEF Request, Create, Name, Update, Reset, DeviceAccepts, SendSucceeds, SendFails, Stages
<1>3. \A d \in Contexts, u \in Threads : d # "request" \/ u # t => pc'[d][u] = pc[d][u]
  BY <1>0, <1>2, GotoFacts
<1>4. job' = job \/ \E i \in Slots : job' = [job EXCEPT !["request"][t].index = i]
  BY DEF Request, Create, Name, Update, Reset, DeviceAccepts, SendSucceeds, SendFails, First, FreeSlots
<1>5. \A d \in Contexts, u \in Threads :
         /\ d # "request" \/ u # t => job'[d][u] = job[d][u]
         /\ job'[d][u].kind = job[d][u].kind /\ job'[d][u].adapter = job[d][u].adapter
         /\ job'[d][u].handle = job[d][u].handle /\ job'[d][u].keyset = job[d][u].keyset
  <2>1. CASE job' = job
    BY <2>1
  <2>2. ASSUME NEW i \in Slots, job' = [job EXCEPT !["request"][t].index = i]
        PROVE  \A d \in Contexts, u \in Threads :
                  /\ d # "request" \/ u # t => job'[d][u] = job[d][u]
                  /\ job'[d][u].kind = job[d][u].kind /\ job'[d][u].adapter = job[d][u].adapter
                  /\ job'[d][u].handle = job[d][u].handle /\ job'[d][u].keyset = job[d][u].keyset
    BY <1>0, <2>2, IndexSet
  <2>3. QED BY <1>4, <2>1, <2>2
<1>6. adapter_id["request"] \in {job["request"][t].adapter, none}
  BY <1>0, <1>1, ConstantFacts DEF NeverAnotherAdapter
<1>7. RequestMove(job["request"][t].adapter, t)
  BY <1>0, <1>1, <1>3, <1>5 DEF RequestMove
<1>8. QED BY <1>3, <1>5, <1>6, <1>7

LEMMA RequestElsewhere ==
    ASSUME VarTypes, HolderInv, NeverAnotherAdapter, NEW t \in Threads, Request(t),
           NEW a \in Adapters, job["request"][t].adapter # a
    PROVE  /\ app_keys_table'[a] = app_keys_table[a] /\ pairing'[a] = pairing[a]
           /\ mishap'[a] <=> mishap[a]
<1>1. adapter_id["request"] # a
  BY RequestFrame, ConstantFacts
<1> DEFINE b == adapter_id["request"]
           g == job["request"][t].adapter
<1>2. app_keys_table'[a] = app_keys_table[a]
  <2>1. \/ app_keys_table' = app_keys_table
        \/ \E slots : app_keys_table' = [app_keys_table EXCEPT ![b] = slots]
        \/ \E slots : app_keys_table' = [app_keys_table EXCEPT ![g] = slots]
        \/ \E slots : app_keys_table' = [c \in Adapters |-> IF c = b THEN slots[c] ELSE app_keys_table[c]]
    <3>1. CASE Create(t)
      BY <3>1 DEF Create
    <3>2. CASE Name(t)
      BY <3>2 DEF Name
    <3>3. CASE Update(t)
      BY <3>3 DEF Update
    <3>4. CASE Reset(t)
      <4> DEFINE slots == [c \in Adapters |-> [i \in Slots |-> [app_keys_table[c][i] EXCEPT !.conn_active = FALSE]]]
      <4>1. app_keys_table' = [c \in Adapters |-> IF c = b THEN slots[c] ELSE app_keys_table[c]]
        BY <3>4 DEF Reset
      <4> HIDE DEF slots
      <4>2. QED BY <4>1
    <3>5. CASE DeviceAccepts(t) \/ SendSucceeds(t) \/ SendFails(t)
      BY <3>5 DEF DeviceAccepts, SendSucceeds, SendFails
    <3>6. QED BY <3>1, <3>2, <3>3, <3>4, <3>5 DEF Request
  <2> HIDE DEF b, g
  <2>2. b # a /\ g # a /\ app_keys_table \in [Adapters -> [Slots -> Slot]]
    BY <1>1 DEF b, g, VarTypes
  <2>3. QED BY <2>1, <2>2
<1>3. pairing'[a] = pairing[a]
  <2>1. \/ pairing' = pairing
        \/ \E handles : pairing' = [pairing EXCEPT ![g] = handles]
    BY DEF Request, Create, Name, Update, Reset, DeviceAccepts, SendSucceeds, SendFails, deviceVars
  <2>2. QED BY <2>1 DEF VarTypes
<1>4. mishap'[a] <=> mishap[a]
  <2>1. \/ mishap' = mishap
        \/ \E value : mishap' = [mishap EXCEPT ![g] = value]
    BY DEF Request, Create, Name, Update, Reset, DeviceAccepts, SendSucceeds, SendFails, deviceVars
  <2>2. QED BY <2>1 DEF VarTypes
<1>5. QED BY <1>2, <1>3, <1>4

(* A step that is not seen in the slots of the adapter.                    *)
LEMMA QuietRequest ==
    ASSUME VarTypes, HolderInv, NeverAnotherAdapter, NEW t \in Threads, Request(t),
           NEW a \in Adapters, SlotsInv(a),
           app_keys_table'[a] = app_keys_table[a], pairing'[a] = pairing[a],
           job["request"][t].adapter = a =>
              /\ pc["request"][t] \notin {"name", "update"} /\ (pc["request"][t] = "send" => ~Reply(t))
              /\ pc'["request"][t] \notin {"name", "update"} /\ (pc'["request"][t] = "send" => ~Reply(t))
    PROVE  SlotsInv(a)'
<1>0. "request" \in Contexts /\ "request" # "event"
  BY ConstantFacts
<1>1. RequestMove(job["request"][t].adapter, t)
  BY RequestFrame
<1>2. ~Naming(a, t) /\ ~Storing(a, t)
  BY DEF Naming, Storing
<1>3. ~Naming(a, t)' /\ ~Storing(a, t)'
  BY <1>1 DEF RequestMove, Naming, Storing, Reply
<1>4. QED BY <1>0, <1>2, <1>3, RequestFrame, OtherStep

LEMMA SlotsRequest ==
    ASSUME VarTypes, HolderInv, NeverAnotherAdapter, ReplyInv, EventInv,
           NEW a \in Adapters, ~mishap[a] => SlotsInv(a),
           NEW t \in Threads, Request(t), ~mishap'[a]
    PROVE  SlotsInv(a)'
<1>0. "request" \in Contexts
  BY ConstantFacts
<1>1. CASE job["request"][t].adapter # a
  BY <1>1, RequestElsewhere, QuietRequest
<1>2. CASE job["request"][t].adapter = a
  <2>1. RequestMove(a, t) /\ adapter_id["request"] \in {a, none}
    BY <1>2, RequestFrame
  <2>2. IsSet("request") => adapter_id["request"] = a
    BY <2>1 DEF IsSet
  <2>3. ~IsSet("request") => adapter_id["request"] # a
    BY ConstantFacts DEF IsSet
  <2>4. ASSUME NEW label \in Stages, Goto("request", t, label) PROVE pc'["request"][t] = label
    BY <1>0, <2>4, GotoFacts
  <2>5. {"name", "update", "send", "answer", "unlock"} \subseteq Stages
    BY DEF Stages
  <2>6. app_keys_table[a] \in [Slots -> Slot] /\ app_keys_table \in [Adapters -> [Slots -> Slot]]
    BY DEF VarTypes
  <2>7. CASE Create(t)
    <3>1. pc["request"][t] = "create" /\ pairing' = pairing /\ mishap' = mishap
      BY <2>7 DEF Create, At, deviceVars
    <3>2. SlotsInv(a)
      BY <3>1
    <3>3. \/ \E i \in Slots :
                /\ i \in First(FreeSlots(app_keys_table[a]))
                /\ app_keys_table' = [app_keys_table EXCEPT ![a][i].conn_active = TRUE]
                /\ job' = [job EXCEPT !["request"][t].index = i]
                /\ Goto("request", t, "name")
          \/ Goto("request", t, "unlock") /\ app_keys_table' = app_keys_table
      BY <2>2, <2>7 DEF Create, First, FreeSlots, Table
    <3>4. CASE Goto("request", t, "unlock") /\ app_keys_table' = app_keys_table
      BY <2>4, <2>5, <3>1, <3>2, <3>4, QuietRequest
    <3>5. ASSUME NEW i \in Slots, i \in First(FreeSlots(app_keys_table[a])),
                 app_keys_table' = [app_keys_table EXCEPT ![a][i].conn_active = TRUE],
                 job' = [job EXCEPT !["request"][t].index = i], Goto("request", t, "name")
          PROVE  SlotsInv(a)'
      <4>1. ~Active(a, i)
        BY <3>5 DEF First, FreeSlots, Active
      <4>2. \A l \in Slots : l < i => Active(a, l)
        <5>1. ASSUME NEW l \in Slots, ~Active(a, l) PROVE i <= l
          BY <3>5, <5>1 DEF First, FreeSlots, Active
        <5>2. QED BY <5>1, BoundsAssumption DEF Slots
      <4>3. pc'["request"][t] = "name" /\ job'["request"][t].index = i
        <5>1. pc'["request"][t] = "name"
          BY <2>4, <2>5, <3>5
        <5>2. job'["request"][t].index = i
          <6> DEFINE new == [job["request"][t] EXCEPT !.index = i]
          <6>1. job \in [Contexts -> [Threads -> Job]] /\ job["request"][t] \in Job
            BY <1>0 DEF VarTypes
          <6>2. new.index = i
            BY <6>1 DEF Job
          <6>3. job' = [job EXCEPT !["request"][t] = new]
            BY <3>5, <6>1
          <6> HIDE DEF new
          <6>4. job'["request"][t] = new
            BY <1>0, <6>1, <6>3
          <6>5. QED BY <6>2, <6>4
        <5>3. QED BY <5>1, <5>2
      <4>4. app_keys_table'[a] = [app_keys_table[a] EXCEPT ![i].conn_active = TRUE]
        BY <2>6, <3>5
      <4>5. QED BY <2>1, <3>1, <3>2, <4>1, <4>2, <4>3, <4>4, CreateSlot
    <3>6. QED BY <3>3, <3>4, <3>5
  <2>8. CASE Name(t)
    <3> DEFINE i == job["request"][t].index
               h == job["request"][t].handle
    <3>1. /\ pc["request"][t] = "name" /\ pairing' = pairing /\ mishap' = mishap /\ job' = job
          /\ Goto("request", t, "update")
      BY <2>8 DEF Name, At, deviceVars
    <3>2. app_keys_table' = [app_keys_table EXCEPT ![a][i].conn_handle = h]
      BY <1>2, <2>8 DEF Name
    <3>3. app_keys_table'[a] = [app_keys_table[a] EXCEPT ![i].conn_handle = h]
      BY <2>6, <3>2
    <3>4. i \in Slots /\ job'["request"][t].index = i /\ pc'["request"][t] = "update" /\ SlotsInv(a)
      BY <1>0, <2>4, <2>5, <3>1, JobFacts
    <3>5. QED BY <2>1, <3>1, <3>3, <3>4, NameSlot
  <2>9. CASE Update(t)
    <3> DEFINE i == job["request"][t].index
               k == job["request"][t].keyset
    <3>1. pc["request"][t] = "update" /\ pairing' = pairing /\ job' = job
      BY <2>9 DEF Update, At
    <3>2. CASE IsSet("request")
      <4>1. /\ app_keys_table' = [app_keys_table EXCEPT ![a][i].keyset = k]
            /\ Goto("request", t, "send") /\ mishap' = mishap
        BY <2>2, <2>9, <3>2 DEF Update, Stored
      <4>2. app_keys_table'[a] = [app_keys_table[a] EXCEPT ![i].keyset = k]
        BY <2>6, <4>1
      <4>3. i \in Slots /\ job'["request"][t].index = i /\ pc'["request"][t] = "send" /\ SlotsInv(a)
        BY <1>0, <2>4, <2>5, <3>1, <4>1, JobFacts
      <4>4. QED BY <2>1, <3>1, <4>2, <4>3, UpdateSlot
    <3>3. CASE ~IsSet("request")
      <4>1. mishap' = [mishap EXCEPT ![a] = TRUE]
        BY <1>2, <2>9, <3>3 DEF Update
      <4>2. mishap'[a]
        BY <4>1 DEF VarTypes
      <4>3. QED BY <4>2
    <3>4. QED BY <3>2, <3>3
  <2>10. CASE Reset(t)
    <3>1. /\ pc["request"][t] = "reset" /\ pairing' = pairing /\ Goto("request", t, "send")
          /\ app_keys_table' =
                [b \in Adapters |-> IF b = adapter_id["request"]
                                    THEN [i \in Slots |-> [app_keys_table[b][i] EXCEPT !.conn_active = FALSE]]
                                    ELSE app_keys_table[b]]
          /\ mishap' = [mishap EXCEPT ![a] = IF IsSet("request")
                           THEN \E h \in Handles : pairing[a][h] # 0 ELSE @]
      BY <1>2, <2>10 DEF Reset, At
    <3>2. pc'["request"][t] = "send" /\ ~Reply(t)
      BY <2>4, <2>5, <3>1 DEF ReplyInv
    <3>3. CASE IsSet("request")
      <4>1. app_keys_table'[a] = [i \in Slots |-> [app_keys_table[a][i] EXCEPT !.conn_active = FALSE]]
        BY <2>2, <3>1, <3>3
      <4>2. mishap' = [mishap EXCEPT ![a] = \E h \in Handles : pairing[a][h] # 0]
        BY <3>1, <3>3
      <4>3. mishap'[a] <=> \E h \in Handles : pairing[a][h] # 0
        BY <4>2 DEF VarTypes
      <4>4. \A h \in Handles : pairing[a][h] = 0
        BY <4>3
      <4>5. QED BY <2>1, <3>1, <3>2, <4>1, <4>4, ResetSlots
    <3>4. CASE ~IsSet("request")
      <4>1. app_keys_table'[a] = app_keys_table[a]
        BY <2>3, <3>1, <3>4
      <4>2. mishap' = [mishap EXCEPT ![a] = mishap[a]]
        BY <3>1, <3>4
      <4>3. ~mishap[a]
        BY <4>2 DEF VarTypes
      <4>4. QED BY <3>1, <3>2, <4>1, <4>3, QuietRequest
    <3>5. QED BY <3>3, <3>4
  <2>11. CASE DeviceAccepts(t)
    <3> DEFINE h == job["request"][t].handle
               k == job["request"][t].keyset
    <3>1. /\ pc["request"][t] = "send" /\ Reply(t) /\ app_keys_table' = app_keys_table
          /\ job' = job /\ mishap' = mishap /\ Goto("request", t, "answer")
          /\ pairing' = [pairing EXCEPT ![a][h] = k]
      BY <1>2, <2>11 DEF DeviceAccepts, At, Reply
    <3>2. pairing'[a] = [pairing[a] EXCEPT ![h] = k]
      BY <3>1 DEF VarTypes
    <3>3. pc'["request"][t] = "answer" /\ SlotsInv(a)
      BY <2>4, <2>5, <3>1
    <3>4. QED BY <2>1, <3>1, <3>2, <3>3, AcceptSlot
  <2>12. CASE SendSucceeds(t)
    <3>1. /\ app_keys_table' = app_keys_table /\ pairing' = pairing /\ mishap' = mishap
          /\ Goto("request", t, "unlock")
          /\ \/ pc["request"][t] = "answer"
             \/ pc["request"][t] = "send" /\ ~Reply(t)
      BY <2>12 DEF SendSucceeds, At, deviceVars, Reply
    <3>2. pc'["request"][t] = "unlock" /\ SlotsInv(a)
      BY <2>4, <2>5, <3>1
    <3>3. QED BY <3>1, <3>2, QuietRequest
  <2>13. CASE SendFails(t)
    <3>1. /\ app_keys_table' = app_keys_table /\ pairing' = pairing /\ Goto("request", t, "unlock")
          /\ mishap' = [mishap EXCEPT ![a] = @ \/ Reply(t)]
          /\ pc["request"][t] \in {"send", "answer"}
      BY <1>2, <2>13 DEF SendFails, At, Reply
    <3>2. mishap'[a] <=> mishap[a] \/ Reply(t)
      BY <3>1 DEF VarTypes
    <3>3. pc'["request"][t] = "unlock" /\ SlotsInv(a) /\ ~Reply(t)
      BY <2>4, <2>5, <3>1, <3>2
    <3>4. QED BY <3>1, <3>3, QuietRequest
  <2>14. QED BY <2>7, <2>8, <2>9, <2>10, <2>11, <2>12, <2>13 DEF Request
<1>3. QED BY <1>1, <1>2

LEMMA EventSeen ==
    ASSUME VarTypes, NEW a \in Adapters, NEW label \in Stages, Goto("event", a, label),
           \/ job' = job
           \/ \E i \in Slots : job' = [job EXCEPT !["event"][a].index = i]
    PROVE  /\ EventMove(a) /\ pc'["event"][a] = label
           /\ job'["event"][a].handle = job["event"][a].handle
           /\ \A d \in Contexts, u \in Threads : d # "event" \/ u # a =>
                 pc'[d][u] = pc[d][u] /\ job'[d][u] = job[d][u]
<1>0. "request" \in Contexts /\ "event" \in Contexts /\ "request" # "event" /\ a \in Threads
  BY ConstantFacts
<1>1. pc'["event"][a] = label
      /\ \A d \in Contexts, u \in Threads : d # "event" \/ u # a => pc'[d][u] = pc[d][u]
  BY <1>0, GotoFacts
<1>2. /\ job'["event"][a].handle = job["event"][a].handle
      /\ \A d \in Contexts, u \in Threads : d # "event" \/ u # a => job'[d][u] = job[d][u]
  <2>1. CASE job' = job
    BY <2>1
  <2>2. ASSUME NEW i \in Slots, job' = [job EXCEPT !["event"][a].index = i]
        PROVE  /\ job'["event"][a].handle = job["event"][a].handle
               /\ \A d \in Contexts, u \in Threads : d # "event" \/ u # a => job'[d][u] = job[d][u]
    BY <1>0, <2>2, IndexSet
  <2>3. QED BY <2>1, <2>2
<1>3. EventMove(a)
  BY <1>0, <1>1, <1>2 DEF EventMove
<1>4. QED BY <1>1, <1>2, <1>3

(* An event that is not decoded ends no pairing, unless it is a mishap.    *)
LEMMA UndecodableSlots ==
    ASSUME VarTypes, NEW a \in Adapters, NEW b \in Adapters, ~mishap[b] => SlotsInv(b),
           Undecodable(a), ~mishap'[b]
    PROVE  SlotsInv(b)'
<1>0. "event" \in Contexts /\ "request" # "event" /\ a \in Threads /\ b \in Threads
  BY ConstantFacts
<1>1. /\ Over(a) /\ Goto("event", a, "unlock") /\ app_keys_table' = app_keys_table /\ job' = job
      /\ mishap' = [mishap EXCEPT ![a] = @ \/ job["event"][a].keyset # 0]
  BY DEF Undecodable
<1>2. /\ mishap'[b] <=> mishap[b] \/ (a = b /\ job["event"][a].keyset # 0)
  BY <1>1 DEF VarTypes
<1>3. SlotsInv(b) /\ (a = b => job["event"][a].keyset = 0)
  BY <1>2
<1>4. "unlock" \in Stages
  BY DEF Stages
<1>5. \A h \in Handles : pairing'[b][h] = pairing[b][h]
  <2>1. CASE a # b
    BY <1>1, <2>1, OverFacts
  <2>2. CASE a = b
    <3>1. ASSUME NEW h \in Handles PROVE pairing'[a][h] = pairing[a][h]
      <4>1. CASE h # job["event"][a].handle
        BY <1>1, <4>1, OverFacts
      <4>2. CASE h = job["event"][a].handle /\ pairing[a][h] = job["event"][a].keyset
        BY <1>1, <1>3, <2>2, <4>2, OverFacts
      <4>3. CASE h = job["event"][a].handle /\ pairing[a][h] # job["event"][a].keyset
        BY <1>1, <4>3, OverFacts
      <4>4. QED BY <4>1, <4>2, <4>3
    <3>2. QED BY <2>2, <3>1
  <2>3. QED BY <2>1, <2>2
<1>6. /\ pc'["event"][a] = "unlock"
      /\ \A d \in Contexts, u \in Threads : d # "event" \/ u # a =>
            pc'[d][u] = pc[d][u] /\ job'[d][u] = job[d][u]
  BY <1>1, <1>4, EventSeen
<1>7. a # b \/ pc'["event"][b] # "get"
  BY <1>6
<1>8. QED BY <1>0, <1>1, <1>3, <1>5, <1>6, <1>7, OtherStep

LEMMA SlotsEvent ==
    ASSUME VarTypes, HolderInv, NeverAnotherAdapter, ReplyInv, EventInv,
           NEW b \in Adapters, ~mishap[b] => SlotsInv(b),
           NEW a \in Adapters, Event(a), ~mishap'[b]
    PROVE  SlotsInv(b)'
<1> DEFINE h == job["event"][a].handle
           k == job["event"][a].keyset
<1>0. "event" \in Contexts /\ "request" # "event" /\ a \in Threads /\ b \in Threads
      /\ h \in Handles /\ "find" \in Working /\ "destroy" \in Working
  BY JobFacts, ConstantFacts
<1>1. ASSUME pc["event"][a] \in {"find", "destroy"}, IsSet("event")
      PROVE  adapter_id["event"] = a
  <2>1. job["event"][a].adapter = a
    BY <1>0, <1>1 DEF EventInv
  <2>2. adapter_id["event"] \in {a, none}
    BY <1>0, <1>1, <2>1 DEF NeverAnotherAdapter
  <2>3. QED BY <1>1, <2>2 DEF IsSet
<1>2. ASSUME NEW label \in {"callback", "unlock", "destroy"}, Goto("event", a, label), job' = job,
             app_keys_table' = app_keys_table, pairing' = pairing, mishap' = mishap
      PROVE  SlotsInv(b)'
  <2>1. label \in Stages
    BY DEF Stages
  <2>2. /\ pc'["event"][a] = label
        /\ \A d \in Contexts, u \in Threads : d # "event" \/ u # a =>
              pc'[d][u] = pc[d][u] /\ job'[d][u] = job[d][u]
    BY <1>2, <2>1, EventSeen
  <2>3. (a # b \/ pc'["event"][b] # "get") /\ SlotsInv(b)
    BY <1>2, <2>2
  <2>4. QED BY <1>0, <1>2, <2>2, <2>3, OtherStep
<1>3. CASE Find(a)
  <2>1. \/ \E i \in Slots :
              /\ i \in First(FoundBy(app_keys_table[a], h))
              /\ k # 0 /\ job' = [job EXCEPT !["event"][a].index = i]
              /\ Goto("event", a, "get")
              /\ app_keys_table' = app_keys_table /\ pairing' = pairing /\ mishap' = mishap
        \/ /\ Goto("event", a, "callback") /\ job' = job
           /\ app_keys_table' = app_keys_table /\ pairing' = pairing /\ mishap' = mishap
        \/ Undecodable(a)
    <3>1. IsSet("event") => adapter_id["event"] = a
      BY <1>1, <1>3 DEF Find, At
    <3>2. QED BY <1>3, <3>1 DEF Find, First, FoundBy, Table, deviceVars
  <2>2. ASSUME NEW i \in Slots, i \in First(FoundBy(app_keys_table[a], h)), k # 0,
               job' = [job EXCEPT !["event"][a].index = i], Goto("event", a, "get"),
               app_keys_table' = app_keys_table, pairing' = pairing, mishap' = mishap
        PROVE  SlotsInv(b)'
    <3>1. "get" \in Stages
      BY DEF Stages
    <3>2. /\ EventMove(a) /\ job'["event"][a].handle = h
          /\ \A d \in Contexts, u \in Threads : d # "event" \/ u # a =>
                pc'[d][u] = pc[d][u] /\ job'[d][u] = job[d][u]
      BY <2>2, <3>1, EventSeen
    <3>3. job'["event"][a].index = i
      <4> DEFINE new == [job["event"][a] EXCEPT !.index = i]
      <4>1. /\ job \in [Contexts -> [Threads -> Job]] /\ job["event"][a] \in Job
            /\ "event" \in Contexts /\ a \in Threads
        BY <1>0 DEF VarTypes
      <4>2. new.index = i
        BY <4>1 DEF Job
      <4>3. job' = [job EXCEPT !["event"][a] = new]
        BY <2>2, <4>1
      <4> HIDE DEF new
      <4>4. job'["event"][a] = new
        BY <4>1, <4>3
      <4>5. QED BY <4>2, <4>4
    <3>4. SlotsInv(b)
      BY <2>2
    <3>5. CASE a = b
      <4>1. pairing[a][h] # 0
        <5>1. pc["event"][a] = "find"
          BY <1>3 DEF Find, At
        <5>2. QED BY <1>0, <2>2, <5>1 DEF EventInv
      <4>2. QED BY <1>0, <2>2, <3>2, <3>3, <3>4, <3>5, <4>1, FindSlot
    <3>6. CASE a # b
      BY <1>0, <2>2, <3>2, <3>4, <3>6, OtherStep
    <3>7. QED BY <3>5, <3>6
  <2>3. QED BY <1>2, <2>1, <2>2, UndecodableSlots
<1>4. CASE Get(a)
  <2>1. \/ /\ Goto("event", a, "destroy") /\ job' = job
           /\ app_keys_table' = app_keys_table /\ pairing' = pairing /\ mishap' = mishap
        \/ Undecodable(a)
    BY <1>4 DEF Get, deviceVars
  <2>2. QED BY <1>2, <2>1, UndecodableSlots
<1>5. CASE Destroy(a)
  <2>1. \/ \E i \in Slots :
              /\ i \in First(DestroyedBy(app_keys_table[a], h))
              /\ app_keys_table' = [app_keys_table EXCEPT ![a][i].conn_active = FALSE]
              /\ Over(a) /\ Goto("event", a, "callback") /\ job' = job /\ mishap' = mishap
        \/ Undecodable(a)
    <3>1. IsSet("event") => adapter_id["event"] = a
      BY <1>1, <1>5 DEF Destroy, At
    <3>2. QED BY <1>5, <3>1 DEF Destroy, First, DestroyedBy, Table
  <2>2. ASSUME NEW i \in Slots, i \in First(DestroyedBy(app_keys_table[a], h)),
               app_keys_table' = [app_keys_table EXCEPT ![a][i].conn_active = FALSE],
               Over(a), Goto("event", a, "callback"), job' = job, mishap' = mishap
        PROVE  SlotsInv(b)'
    <3>1. "callback" \in Stages
      BY DEF Stages
    <3>2. /\ EventMove(a) /\ pc'["event"][a] = "callback"
          /\ \A d \in Contexts, u \in Threads : d # "event" \/ u # a =>
                pc'[d][u] = pc[d][u] /\ job'[d][u] = job[d][u]
      BY <2>2, <3>1, EventSeen
    <3>3. SlotsInv(b)
      BY <2>2
    <3>4. app_keys_table \in [Adapters -> [Slots -> Slot]]
      BY DEF VarTypes
    <3>5. CASE a = b
      <4>1. pairing[a][h] = k /\ k # 0
        <5>1. pc["event"][a] = "destroy"
          BY <1>5 DEF Destroy, At
        <5>2. QED BY <1>0, <5>1 DEF EventInv
      <4>2. app_keys_table'[a] = [app_keys_table[a] EXCEPT ![i].conn_active = FALSE]
        BY <2>2, <3>4
      <4>3. pairing'[a][h] = 0 /\ \A g \in Handles : g # h => pairing'[a][g] = pairing[a][g]
        BY <2>2, <4>1, OverFacts
      <4>4. QED BY <1>0, <2>2, <3>2, <3>3, <3>5, <4>1, <4>2, <4>3, DestroySlot
    <3>6. CASE a # b
      <4>1. app_keys_table'[b] = app_keys_table[b]
        BY <2>2, <3>4, <3>6
      <4>2. pairing'[b] = pairing[b]
        BY <2>2, <3>6, OverFacts
      <4>3. QED BY <1>0, <3>2, <3>3, <3>6, <4>1, <4>2, OtherStep
    <3>7. QED BY <3>5, <3>6
  <2>3. QED BY <2>1, <2>2, UndecodableSlots
<1>6. CASE CallbackReturns(a)
  BY <1>2, <1>6 DEF CallbackReturns, deviceVars
<1>7. QED BY <1>3, <1>4, <1>5, <1>6 DEF Event

LEMMA SlotsStep ==
    ASSUME VarTypes, HolderInv, NeverAnotherAdapter, ReplyInv, EventInv, [Next]_vars,
           NEW a \in Adapters, ~mishap[a] => SlotsInv(a), ~mishap'[a]
    PROVE  SlotsInv(a)'
<1>0. "request" \in Contexts /\ "event" \in Contexts /\ "request" # "event" /\ Adapters \subseteq Threads
  BY ConstantFacts
<1>1. CASE UNCHANGED vars
  <2>1. /\ UNCHANGED <<codec_mutex, adapter_id, app_keys_table, pc, job, replies, pairing, mishap>>
        /\ SlotsInv(a)
    BY <1>1 DEF vars, contextVars, deviceVars
  <2>2. FirstOfHandle(a)'
    BY <2>1 DEF SlotsInv, FirstOfHandle, Named, Naming, Handle, Active
  <2>3. LiveNamed(a)'
    BY <2>1 DEF SlotsInv, LiveNamed, Live, Storing, Reply, Named, Naming, Handle, Active
  <2>4. KeysetsMatch(a)'
    BY <2>1 DEF SlotsInv, KeysetsMatch, Named, Naming, Handle, Keyset, Active
  <2>5. NamingSlot(a)'
    BY <2>1 DEF SlotsInv, NamingSlot, Naming, Handle, Active
  <2>6. StoringSlot(a)'
    BY <2>1 DEF SlotsInv, StoringSlot, Storing, Reply, Handle, Keyset, Active
  <2>7. EventSlot(a)'
    BY <2>1 DEF SlotsInv, EventSlot, Named, Naming, Handle, Active
  <2>8. QED BY <2>2, <2>3, <2>4, <2>5, <2>6, <2>7 DEF SlotsInv
<1>2. ASSUME NEW t \in Threads, Call(t) PROVE SlotsInv(a)'
  <2>1. PICK b, kind, h, keyset : Enter("request", t, b, kind, h, keyset)
    BY <1>2 DEF Call
  <2>2. /\ pc["request"][t] = "idle" /\ pc'["request"][t] = "lock"
        /\ \A d \in Contexts, u \in Threads : d # "request" \/ u # t =>
              pc'[d][u] = pc[d][u] /\ job'[d][u] = job[d][u]
        /\ UNCHANGED <<codec_mutex, adapter_id, app_keys_table, pairing, mishap>>
    <3>1. /\ pc["request"][t] = "idle" /\ pc'["request"][t] = "lock"
          /\ job'["request"][t] = [adapter |-> b, kind |-> kind, handle |-> h, keyset |-> keyset,
                                   index |-> 0]
          /\ \A d \in Contexts, u \in Threads : d # "request" \/ u # t =>
                pc'[d][u] = pc[d][u] /\ job'[d][u] = job[d][u]
          /\ UNCHANGED <<codec_mutex, adapter_id, app_keys_table, pairing, mishap>>
      BY <1>0, <2>1, EnterFacts
    <3>2. QED BY <3>1
  <2>3. ~Naming(a, t) /\ ~Storing(a, t) /\ ~Naming(a, t)' /\ ~Storing(a, t)'
    BY <2>2 DEF Naming, Storing
  <2>4. QED BY <1>0, <2>2, <2>3, OtherStep
<1>3. ASSUME NEW b \in Adapters, AuthStatus(b) PROVE SlotsInv(a)'
  <2>0. b \in Threads
    BY <1>0
  <2>1. PICK h, keyset : Enter("event", b, b, "auth_status", h, keyset)
    BY <1>3 DEF AuthStatus
  <2>2. /\ pc'["event"][b] = "lock"
        /\ \A d \in Contexts, u \in Threads : d # "event" \/ u # b =>
              pc'[d][u] = pc[d][u] /\ job'[d][u] = job[d][u]
        /\ UNCHANGED <<codec_mutex, adapter_id, app_keys_table, pairing, mishap>>
    BY <1>0, <2>0, <2>1, EnterFacts
  <2>3. b # a \/ pc'["event"][a] # "get"
    BY <2>2
  <2>4. QED BY <1>0, <2>2, <2>3, OtherStep
<1>4. ASSUME NEW c \in Contexts, NEW t \in Threads, Context(c, t) PROVE SlotsInv(a)'
  <2>1. UNCHANGED <<app_keys_table, pairing, mishap>>
    BY <1>4 DEF Context, SetAdapterId, Unlock, ClearAdapterId, deviceVars
  <2>2. /\ pc[c][t] \in {"lock", "unlock", "clear"}
        /\ \E label \in {"create", "reset", "find", "clear", "idle"} : Goto(c, t, label)
    BY <1>4, JobFacts DEF Context, SetAdapterId, Unlock, ClearAdapterId, At, FirstStage
  <2>3. {"create", "reset", "find", "clear", "idle"} \subseteq Stages
    BY DEF Stages
  <2>4. /\ pc'[c][t] \in {"create", "reset", "find", "clear", "idle"}
        /\ \A d \in Contexts, u \in Threads : d # c \/ u # t => pc'[d][u] = pc[d][u]
    BY <2>2, <2>3, GotoFacts
  <2>5. \A d \in Contexts, u \in Threads : d # c \/ u # t => job'[d][u] = job[d][u]
    BY <1>4 DEF Context, SetAdapterId, Unlock, ClearAdapterId, VarTypes
  <2>6. c = "request" => ~Naming(a, t) /\ ~Storing(a, t) /\ ~Naming(a, t)' /\ ~Storing(a, t)'
    BY <2>2, <2>4 DEF Naming, Storing
  <2>7. c = "event" => t # a \/ pc'["event"][a] # "get"
    BY <2>4
  <2>8. QED BY <2>1, <2>4, <2>5, <2>6, <2>7, OtherStep
<1>5. ASSUME NEW t \in Threads, Request(t) PROVE SlotsInv(a)'
  BY <1>5, SlotsRequest
<1>6. ASSUME NEW b \in Adapters, Event(b) PROVE SlotsInv(a)'
  BY <1>6, SlotsEvent
<1>7. CASE Next
  BY <1>2, <1>3, <1>4, <1>5, <1>6, <1>7 DEF Next
<1>8. QED BY <1>1, <1>7

LEMMA InitKeys == Init => KeysInv
<1> SUFFICES ASSUME Init PROVE KeysInv
  OBVIOUS
<1>1. \A t \in Threads : /\ pc["request"][t] = "idle" /\ pc["event"][t] = "idle" /\ ~Reply(t)
  <2>1. "request" \in Contexts /\ "event" \in Contexts /\ NoJob.kind = "enable"
    BY ConstantFacts DEF NoJob
  <2>2. QED BY <2>1 DEF Init, Reply
<1>2. ReplyInv /\ EventInv
  BY <1>1 DEF ReplyInv, EventInv
<1>3. ASSUME NEW a \in Adapters PROVE SlotsInv(a)
  <2>1. \A i \in Slots : ~Active(a, i)
    BY DEF Init, Active
  <2>2. \A i : i \notin Named(a)
    BY <2>1 DEF Named
  <2>3. \A t \in Threads : ~Naming(a, t) /\ ~Storing(a, t)
    BY <1>1 DEF Naming, Storing
  <2>4. \A h \in Handles : ~Live(a, h)
    BY <2>3 DEF Init, Live
  <2>5. pc["event"][a] # "get"
    BY <1>1, ConstantFacts
  <2>6. QED BY <2>2, <2>3, <2>4, <2>5
            DEF SlotsInv, FirstOfHandle, LiveNamed, KeysetsMatch, NamingSlot, StoringSlot, EventSlot
<1>4. QED BY <1>2, <1>3 DEF KeysInv

LEMMA KeysStep ==
    VarTypes /\ HolderInv /\ NeverAnotherAdapter /\ KeysInv /\ [Next]_vars => KeysInv'
<1> SUFFICES ASSUME VarTypes, HolderInv, NeverAnotherAdapter, KeysInv, [Next]_vars PROVE KeysInv'
  OBVIOUS
<1>1. ReplyInv' /\ EventInv'
  BY ReplyStep, EventInvStep DEF KeysInv
<1>2. ASSUME NEW a \in Adapters, ~mishap'[a] PROVE SlotsInv(a)'
  BY <1>2, SlotsStep DEF KeysInv
<1>3. QED BY <1>1, <1>2 DEF KeysInv

LEMMA KeysInvariant == Spec => [](VarTypes /\ HolderInv /\ KeysInv)
<1>1. Init => VarTypes /\ HolderInv /\ NeverAnotherAdapter /\ KeysInv
  BY InitContexts, InitKeys
<1>2. VarTypes /\ HolderInv /\ NeverAnotherAdapter /\ KeysInv /\ [Next]_vars
         => (VarTypes /\ HolderInv /\ NeverAnotherAdapter /\ KeysInv)'
  BY NextStep, KeysStep
<1>3. QED BY <1>1, <1>2, PTL DEF Spec

-----------------------------------------------------------------------------
(* Unless a reply or an event of the adapter has failed half-way, a        *)
(* connection whose reply is over has one slot of the table while it is    *)
(* being paired, and none before and after, whatever calls and events of   *)
(* other connections and adapters meet in the table.                       *)
THEOREM SlotPerPairing == Spec => []KeysOfPairings
<1>1. VarTypes /\ HolderInv /\ KeysInv => KeysOfPairings
  <2> SUFFICES ASSUME VarTypes, HolderInv, KeysInv, NEW a \in Adapters, NEW h \in Handles,
                      ~mishap[a], ~HalfNamed(a), ~Replying(a, h)
               PROVE  Cardinality(FoundBy(app_keys_table[a], h)) = IF pairing[a][h] = 0 THEN 0 ELSE 1
    BY DEF KeysOfPairings
  <2>1. SlotsInv(a)
    BY DEF KeysInv
  <2>2. \A t \in Threads : ~Naming(a, t)
    BY DEF HalfNamed, Naming, At
  <2>3. \A i : i \in FoundBy(app_keys_table[a], h) <=> i \in Named(a) /\ Handle(a, i) = h
    BY <2>2 DEF FoundBy, Named, Active, Handle
  <2>4. \A t \in Threads : Storing(a, t) => job["request"][t].handle # h
    BY DEF Replying, Storing, Reply
  <2>5. Live(a, h) <=> pairing[a][h] # 0
    BY <2>4 DEF Live
  <2>6. pairing[a][h] # 0 <=> \E i \in Named(a) : Handle(a, i) = h
    BY <2>1, <2>5 DEF SlotsInv, LiveNamed
  <2>7. CASE pairing[a][h] = 0
    <3>1. FoundBy(app_keys_table[a], h) = {}
      BY <2>3, <2>6, <2>7
    <3>2. QED BY <2>7, <3>1, FS_EmptySet
  <2>8. CASE pairing[a][h] # 0
    <3>1. PICK j \in Named(a) : Handle(a, j) = h
      BY <2>6, <2>8
    <3>2. ASSUME NEW i \in Named(a), Handle(a, i) = h PROVE i = j
      <4>1. i \in Slots /\ j \in Slots
        BY DEF Named
      <4>2. ~(i < j) /\ ~(j < i)
        BY <2>1, <3>1, <3>2, <4>1 DEF SlotsInv, FirstOfHandle
      <4>3. QED BY <4>1, <4>2, BoundsAssumption DEF Slots
    <3>3. FoundBy(app_keys_table[a], h) = {j}
      BY <2>3, <3>1, <3>2
    <3>4. QED BY <2>8, <3>3, FS_Singleton
  <2>9. QED BY <2>7, <2>8
<1>2. QED BY <1>1, KeysInvariant, PTL

(* Then the keys that an event brings go to the keyset of the very reply   *)
(* that the device has accepted for the pairing.                           *)
THEOREM KeysGoToOwnKeyset == Spec => []OwnKeyset
<1>1. VarTypes /\ HolderInv /\ KeysInv => OwnKeyset
  <2> SUFFICES ASSUME VarTypes, HolderInv, KeysInv, NEW a \in Adapters,
                      ~mishap[a], pc["event"][a] = "get"
               PROVE  Keyset(a, job["event"][a].index) = job["event"][a].keyset
    BY DEF OwnKeyset, At, Keyset
  <2> DEFINE i == job["event"][a].index
  <2>1. i \in Named(a) /\ Handle(a, i) = job["event"][a].handle
    BY DEF KeysInv, SlotsInv, EventSlot
  <2>2. pairing[a][job["event"][a].handle] = job["event"][a].keyset /\ job["event"][a].keyset # 0
    BY ConstantFacts DEF KeysInv, EventInv
  <2>3. pairing[a][Handle(a, i)] \in {0, Keyset(a, i)}
    BY <2>1 DEF KeysInv, SlotsInv, KeysetsMatch
  <2>4. QED BY <2>1, <2>2, <2>3
<1>2. QED BY <1>1, KeysInvariant, PTL
=============================================================================
