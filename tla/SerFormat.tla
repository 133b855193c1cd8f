------------------------------ MODULE SerFormat ------------------------------
(***************************************************************************)
(* The serialisation of sd_api_common as data: what the SER_PUSH_ and       *)
(* SER_PULL_ macros of ble_serialization.h do, and the C types they work on.*)
(*                                                                         *)
(* A codec function is a sequence of items, one per macro.  A value is not  *)
(* modelled but known by where it comes from: the path of the member or     *)
(* argument it is read from.  Encode gives the bits on the wire, each with  *)
(* the path of its value; Decode pairs every destination with the source of *)
(* the value it gets.  A value that lands in the wrong place, that loses    *)
(* bits, or that is never sent is then a pair of different paths, a pair    *)
(* too narrow, or no pair at all.                                           *)
(*                                                                         *)
(* Of the data the model keeps which pointers are NULL, which members are   *)
(* over a limit the code checks, and which alternative a member selects.    *)
(***************************************************************************)
EXTENDS Naturals, FiniteSets, SequencesExt

(* The two functions of a type, x_enc and x_dec.  None: NULL for both.      *)
Codec(enc, dec) == [enc |-> enc, dec |-> dec]
Both(items)     == Codec(items, items)
None            == Both(<<>>)

-----------------------------------------------------------------------------
(* Items.  f names a member or an argument, "" the structure itself.        *)

Number(w, parts) == [is |-> "number", f |-> "", size |-> w \div 8, parts |-> parts]

uint8(f)    == Number(8,  {<<f, 0..7>>})
uint16(f)   == Number(16, {<<f, 0..15>>})
uint32(f)   == Number(32, {<<f, 0..31>>})

(* Bit fields packed in one number: the bits each member gets; up(n) where  *)
(* the code shifts a member without a mask.                                 *)
bits(w, at) == Number(w, {<<f, at[f]>> : f \in DOMAIN at})
up(n)       == n..31

uint8array(f, n)     == [is |-> "bytes", f |-> f, n |-> n]
buf(f, n)            == [is |-> "buf", f |-> f, n |-> n]
cond(f, codec)       == [is |-> "cond", f |-> f, codec |-> codec]
field(f, codec)      == [is |-> "field", f |-> f, codec |-> codec]
sub(f, items)        == field(f, Both(items))                \* a member of a member
each(f, codec, n)    == [is |-> "each", f |-> f, codec |-> codec, n |-> n]

(* len8data_enc(), len16data_enc(): the length, then the data if any.       *)
len8data(f, len)     == sub("", <<uint8(len), buf(f, len)>>)
len16data(f, len)    == sub("", <<uint16(len), buf(f, len)>>)
(* count16_cond_data16_enc(): the same with 16-bit words.                   *)
len16data16(f, len)  == sub("", <<uint16(len), cond(f, Both(<<each("", Both(<<uint16("")>>), len)>>))>>)

(* if (f) { ... }: items only if the pointer is there.                      *)
given(f, items)      == [is |-> "given", f |-> f, codec |-> Both(items)]

(* A check that refuses the call: f greater than max, f other than value.   *)
limit(f, max)        == [is |-> "limit", f |-> f]
only(f, value)       == [is |-> "limit", f |-> f]

(* Another: f without the length it comes with.                             *)
needs(f, len)        == [is |-> "needs", f |-> f, len |-> len]

(* switch (f) over alternatives, which lie in member p.                     *)
select(f, p, alternatives) == [is |-> "select", f |-> f, within |-> p, alternatives |-> alternatives]
oneOf(f, alternatives)     == select(f, "", alternatives)
member(u, f, codec)        == <<sub(u, <<field(f, codec)>>)>>
untagged(f, codec)         == <<sub("conn_cfg", <<sub("params", <<field(f, codec)>>)>>)>>
tagged(f, codec)           == <<sub("conn_cfg", <<uint8("conn_cfg_tag"), sub("params", <<field(f, codec)>>)>>)>>

(* A wrapper that accepts nothing but NULL for f.                           *)
nothing(f)           == [is |-> "nothing", f |-> f]
Refusing(f, packet)  == [packet EXCEPT !.items = <<nothing(f)>> \o @]

(* A pointer the decoder takes from a table of its own, not from the wire.  *)
recall(f)            == [is |-> "recall", f |-> f]

(* The index of a buffer in the pool of app_ble_gap, as 32 bits: who gets   *)
(* it back takes the buffer from the pool.                                  *)
pooled(f)            == [is |-> "pooled", f |-> f]

uint8_t  == Both(<<uint8("")>>)
uint16_t == Both(<<uint16("")>>)
uint32_t == Both(<<uint32("")>>)

(* The packets: a command, its response, an event (with the id its decoder  *)
(* sets and its member of ble_evt_t).                                       *)
Req(op, items)              == [op |-> op, items |-> items]
Rsp(op, items)              == [op |-> op, items |-> items]
Evt(id, group, items)       == [id |-> id, group |-> group, items |-> items]
Within(f, packet)           == [packet EXCEPT !.items = <<sub(f, @)>>]

(* A function as declared, and as its wrapper calls its codecs.             *)
In(type)            == [in |-> TRUE, out |-> FALSE, type |-> type]
Out(type)           == [in |-> FALSE, out |-> TRUE, type |-> type]
InOut(type)         == [in |-> TRUE, out |-> TRUE, type |-> type]
Function(op, args)  == [op |-> op, args |-> args]
Call(fn, req, rsp)  == [fn |-> fn, req |-> req, rsp |-> rsp]

(* enum { first = base, ... }                                               *)
Numbered(base, names) == [n \in ToSet(names) |-> base + (CHOOSE i \in DOMAIN names : names[i] = n) - 1]

(* Event ids, each with the member of the union params its data is in.      *)
EventIds(base, group, events) ==
    LET place(n) == CHOOSE i \in DOMAIN events : events[i][1] = n
    IN  [n \in {e[1] : e \in ToSet(events)} |->
           [number |-> base + place(n) - 1, group |-> group, member |-> events[place(n)][2]]]

At(path, f) == IF f = "" THEN path ELSE Append(path, f)

-----------------------------------------------------------------------------
(* What is on the wire.                                                     *)

Word(size, parts) == [is |-> "number", size |-> size, parts |-> parts]
Bytes(n, from)    == [is |-> "bytes", n |-> n, from |-> from]
Flag(present)     == [is |-> "flag", present |-> present]
Times(n)          == [is |-> "times", n |-> n]
Refused           == [is |-> "refused"]

(* what: [null, long, pick], the NULL pointers, the members over a limit,   *)
(* and the alternative each selecting member names.                         *)
RECURSIVE EncodeItem(_, _, _)
Encode(items, at, what) ==
    FlattenSeq([i \in DOMAIN items |-> EncodeItem(items[i], at, what)])

EncodeItem(it, at, what) ==
    LET p      == At(at, it.f)
        isNull == p \in what.null
        inner  == Encode(it.codec.enc, p, what)
    IN  CASE it.is = "number" -> <<Word(it.size, {<<At(at, x[1]), x[2]>> : x \in it.parts})>>
          [] it.is = "bytes"  -> IF isNull THEN <<Refused>> ELSE <<Bytes(it.n, p)>>
          [] it.is = "buf"    -> IF isNull THEN <<Flag(FALSE)>> ELSE <<Flag(TRUE), Bytes(it.n, p)>>
          [] it.is = "cond"   -> IF isNull THEN <<Flag(FALSE)>> ELSE <<Flag(TRUE)>> \o inner
          [] it.is = "given"  -> IF isNull THEN <<>> ELSE Encode(it.codec.enc, at, what)
          [] it.is = "field"  -> IF isNull THEN <<Refused>> ELSE inner
          [] it.is = "each"   -> <<Times(it.n)>> \o Encode(it.codec.enc, Append(p, "*"), what)
          [] it.is = "limit"  -> IF p \in what.long THEN <<Refused>> ELSE <<>>
          [] it.is = "needs"  -> IF At(at, it.len) \in what.null /\ ~isNull THEN <<Refused>> ELSE <<>>
          [] it.is = "nothing" -> IF isNull THEN <<>> ELSE <<Refused>>
          [] it.is = "recall" -> <<>>
          [] it.is = "pooled" -> <<Word(4, IF isNull THEN {} ELSE {<<p, 0..31>>})>>
          [] it.is = "select" -> IF what.pick[p] \notin DOMAIN it.alternatives THEN <<Refused>>
                                 ELSE Encode(it.alternatives[what.pick[p]], At(at, it.within), what)

-----------------------------------------------------------------------------
(* A decoder at work: what it has still to read, the destinations it wrote, *)
(* each with the source and the width of its value, the pointers it found   *)
(* absent, and whether it gave up.                                          *)
Decoding(wire) == [wire |-> wire, got |-> {}, absent |-> {}, err |-> FALSE]

Fails(d) == [d EXCEPT !.err = TRUE]

Pulls(d, is) == d.wire # <<>> /\ Head(d.wire).is = is

Got(d, pairs) == [d EXCEPT !.wire = Tail(@), !.got = @ \cup pairs]

Pair(to, from, width) == [to |-> to, from |-> from, width |-> width]

LowBit(s) == CHOOSE n \in s : \A m \in s : n <= m

PullNumber(d, size, parts) ==
    IF ~Pulls(d, "number") \/ Head(d.wire).size # size THEN Fails(d)
    ELSE Got(d, {Pair(x[1], y[1], Cardinality(x[2] \cap y[2])) :
                   <<x, y>> \in {z \in parts \X Head(d.wire).parts : LowBit(z[1][2]) = LowBit(z[2][2])}})

PullBytes(d, n, p) ==
    IF Pulls(d, "bytes") /\ Head(d.wire).n = n
    THEN Got(d, {Pair(p, Head(d.wire).from, 8)}) ELSE Fails(d)

RECURSIVE DecodeItem(_, _, _, _)
Decode(items, at, d, what) ==
    FoldLeft(LAMBDA dd, it : IF dd.err THEN dd ELSE DecodeItem(it, at, dd, what), d, items)

DecodeItem(it, at, d, what) ==
    LET p       == At(at, it.f)
        isNull  == p \in what.null
        present == Got(d, {})
        missing == [present EXCEPT !.absent = @ \cup {p}]
        chosen  == {what.pick[x.from] : x \in {y \in d.got : y.to = p /\ y.from \in DOMAIN what.pick}}
    IN  CASE it.is = "number" -> PullNumber(d, it.size, {<<At(at, x[1]), x[2]>> : x \in it.parts})
          [] it.is = "bytes"  -> IF isNull THEN Fails(d) ELSE PullBytes(d, it.n, p)
          [] it.is \in {"buf", "cond"} ->
                IF ~Pulls(d, "flag")            THEN Fails(d)
                ELSE IF ~Head(d.wire).present   THEN missing
                ELSE IF isNull                  THEN Fails(d)
                ELSE IF it.is = "buf"           THEN PullBytes(present, it.n, p)
                ELSE Decode(it.codec.dec, p, present, what)
          [] it.is = "given"  -> IF isNull \/ p \in d.absent THEN d ELSE Decode(it.codec.dec, at, d, what)
          [] it.is = "field"  -> IF isNull THEN Fails(d) ELSE Decode(it.codec.dec, p, d, what)
          [] it.is = "each"   -> IF Pulls(d, "times") /\ Head(d.wire).n = it.n
                                 THEN Decode(it.codec.dec, Append(p, "*"), present, what) ELSE Fails(d)
          [] it.is = "limit"  -> IF p \in what.long THEN Fails(d) ELSE d
          [] it.is \in {"needs", "nothing"} -> d
          [] it.is = "recall" -> IF p \in d.absent THEN d
                                 ELSE [d EXCEPT !.got = @ \cup {Pair(p, p, 64)}]
          [] it.is = "pooled" -> IF ~Pulls(d, "number") \/ Head(d.wire).size # 4 THEN Fails(d)
                                 ELSE IF Head(d.wire).parts = {} THEN missing
                                 ELSE Got(d, {Pair(p, x[1], 64) : x \in Head(d.wire).parts})
          [] it.is = "select" -> IF chosen \cap DOMAIN it.alternatives = {} THEN Fails(d)
                                 ELSE Decode(it.alternatives[CHOOSE n \in chosen : TRUE], At(at, it.within), d, what)

(* All of the packet has to be used (SER_RSP_DEC_END, SER_EVT_DEC_END).     *)
Done(d) == ~d.err /\ d.wire = <<>>

-----------------------------------------------------------------------------
(* What a sequence of items depends on: the pointers that may be NULL, the  *)
(* members a check refuses, the values that select an alternative.          *)
RECURSIVE ItemInputs(_, _, _)
Inputs(items, at, half) == UNION {ItemInputs(it, at, half) : it \in ToSet(items)}

ItemInputs(it, at, half) ==
    LET p     == At(at, it.f)
        inner == it.codec[half]
    IN  CASE it.is \in {"buf", "pooled"} -> {<<"null", p>>}
          [] it.is = "cond"   -> {<<"null", p>>} \cup Inputs(inner, p, half)
          [] it.is = "given"  -> {<<"null", p>>} \cup Inputs(inner, at, half)
          [] it.is = "field"  -> Inputs(inner, p, half)
          [] it.is = "each"   -> Inputs(inner, Append(p, "*"), half)
          [] it.is = "limit"  -> {<<"long", p>>}
          [] it.is = "select" -> {<<"pick", p, n>> : n \in DOMAIN it.alternatives} \cup
                                 UNION {Inputs(it.alternatives[n], At(at, it.within), half) : n \in DOMAIN it.alternatives}
          [] OTHER            -> {}

-----------------------------------------------------------------------------
(* C types, as far as a copy of a value can be complete or not.             *)

Uint8            == [is |-> "number", width |-> 8]
Uint16           == [is |-> "number", width |-> 16]
Uint32           == [is |-> "number", width |-> 32]
Bit(n)           == [is |-> "number", width |-> n]
Struct(members)  == [is |-> "struct", members |-> members]
Union(members)   == [is |-> "union", members |-> members]
Array(n, type)   == [is |-> "array", of |-> type]
Ptr(type)        == [is |-> "pointer", of |-> type]

(* Of a value of the type at this path every part was copied, each from the *)
(* same place of the original and over its full width; of a union one       *)
(* member, and of a pointer the one or the many values it points to.        *)
(* Excused are the paths of NULL pointers and of what has no value.         *)
RECURSIVE Complete(_, _, _, _)
Complete(type, at, got, excused) ==
    LET copied(width) == \E x \in got : x.to = at /\ x.from = at /\ x.width >= width
        part(m)     == Complete(type.members[m], Append(at, m), got, excused)
        elements    == Complete(type.of, Append(at, "*"), got, excused)
    IN  \/ at \in excused
        \/ CASE type.is = "number"  -> copied(type.width)
             [] type.is = "struct"  -> \A m \in DOMAIN type.members : part(m)
             [] type.is = "union"   -> \E m \in DOMAIN type.members : part(m)
             [] type.is = "array"   -> copied(8) \/ elements
             [] type.is = "pointer" -> copied(64) \/ elements \/ Complete(type.of, at, got, excused)

(* The pointers inside a value of the type.                                 *)
RECURSIVE PointersIn(_, _)
PointersIn(type, at) ==
    CASE type.is = "number"  -> {}
      [] type.is = "array"   -> PointersIn(type.of, Append(at, "*"))
      [] type.is = "pointer" -> {at} \cup PointersIn(type.of, at) \cup PointersIn(type.of, Append(at, "*"))
      [] OTHER -> UNION {PointersIn(type.members[m], Append(at, m)) : m \in DOMAIN type.members}

(* A value that was put where a different one belongs.                      *)
Misplaced(got) == {x \in got : x.to # x.from}
=============================================================================
