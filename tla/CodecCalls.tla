----------------------------- MODULE CodecCalls -----------------------------
(***************************************************************************)
(* One sd_ call, or one event, from the program's data to the device and    *)
(* back: the wrapper encodes its arguments, the device decodes them, runs   *)
(* the function and encodes a response, the wrapper decodes it into the     *)
(* caller's variables.  The connectivity firmware is not in this repository:*)
(* the device reads and writes packets with the macros of                   *)
(* ble_serialization.h and the structures of sd_api_common, which it shares.*)
(***************************************************************************)
EXTENDS SerFormat

CONSTANTS
    Versions,    \* the API versions, a subset of {2, 3, 5, 6}
    MaxNull,     \* bound: how many pointers are NULL in one call or answer
    CallsOf,     \* for each version: the functions and their codecs (modules SdCallsV*),
    NumbersOf,   \* the numbers of the functions,
    EventsOf,    \* the events, with number and group,
    Decoders,    \* the decoders of ble_event_dec(),
    TypesOf      \* and the C types of the events' data

VARIABLES
    version,   \* the API version the program is built for
    pc,        \* idle, request, executed, response, returned, event, delivered, crashed
    name,      \* the sd_ function called, or the event raised
    data,      \* what the program, or for an event the device, passes
    packet,    \* the packet under way
    device,    \* what the device made of the request
    host,      \* what the wrapper made of the response, or the event decoder of the event
    result     \* what the caller is told

vars == <<version, pc, name, data, packet, device, host, result>>

Called     == CallsOf[version][name]
OpCode(op) == NumbersOf[version][op] % 256

NoData   == [null |-> {}, long |-> {}, pick |-> <<>>]
Packet(op, code, body, to) == [op |-> op, code |-> code, body |-> body, to |-> to]
NoPacket == Packet(0, "none", <<>>, "")
Nothing  == Decoding(<<>>)

-----------------------------------------------------------------------------
(* What a caller can pass: pointers that are NULL, members over a limit,    *)
(* alternatives.                                                            *)

UpTo(n, S) == UNION {kSubset(k, S) : k \in 0..n}

Nulls(inputs) == {i[2] : i \in {j \in inputs : j[1] = "null"}}
Longs(inputs) == {i[2] : i \in {j \in inputs : j[1] = "long"}}
Picks(inputs) == {i \in inputs : i[1] = "pick"}

Selections(inputs) ==
    LET paths == {i[2] : i \in Picks(inputs)}
        alternatives(p) == {i[3] : i \in {j \in Picks(inputs) : j[2] = p}}
    IN  {f \in [paths -> {i[3] : i \in Picks(inputs)}] : \A p \in paths : f[p] \in alternatives(p)}

PointersOf(args) == UNION {PointersIn(args[a].type, <<a>>) : a \in DOMAIN args}

DataOf(c) ==
    LET request  == Inputs(c.req.items, <<>>, "enc")
        response == Inputs(c.rsp.items, <<>>, "dec")
        pointers == ({<<a>> : a \in DOMAIN c.fn.args} \cup Nulls(request)) \cap PointersOf(c.fn.args)
    IN  {[null |-> n, long |-> l, pick |-> k] :
           n \in UpTo(MaxNull, pointers), l \in UpTo(1, Longs(request)), k \in Selections(request \cup response)}

CallsWithData == [v \in Versions |-> [f \in DOMAIN CallsOf[v] |-> DataOf(CallsOf[v][f])]]

(* Parts of its results the device may not have.                            *)
UnknownTo(c) ==
    UpTo(MaxNull, {p \in Nulls(Inputs(c.rsp.items, <<>>, "enc")) \cap PointersOf(c.fn.args) : Len(p) > 1})

Unknown == [v \in Versions |-> [f \in DOMAIN CallsOf[v] |-> UnknownTo(CallsOf[v][f])]]

DataOfEvent(event, types, items) ==
    LET members == types[event.group].members.params.members
        inputs  == Inputs(items, <<>>, "dec")
        there   == IF event.member = "" THEN {} ELSE PointersIn(members[event.member], <<event.member>>)
    IN  {[null |-> n, long |-> l, pick |-> k] :
           n \in UpTo(MaxNull, Nulls(inputs) \cap there), l \in UpTo(1, Longs(inputs)), k \in Selections(inputs)}

EventsWithData ==
    [v \in Versions |-> [e \in DOMAIN EventsOf[v] |->
       DataOfEvent(EventsOf[v][e], TypesOf[v], Decoders[v][e].items)]]

-----------------------------------------------------------------------------
Init ==
    /\ version \in Versions
    /\ pc = "idle" /\ name = "" /\ result = "none"
    /\ data = NoData /\ packet = NoPacket /\ device = Nothing /\ host = Nothing

(* Three wrappers read an argument themselves, without asking whether it is *)
(* there, and a NULL pointer ends the program: sd_ble_gap_adv_set_configure *)
(* its p_adv_data when it has a handle, and sd_ble_gap_scan_start its buffer*)
(* (version 6), around the encoder;                                         *)
CrashesToAsk(f, null) ==
    \/ f = "sd_ble_gap_adv_set_configure" /\ <<"p_adv_handle">> \notin null /\ <<"p_adv_data">> \in null
    \/ f = "sd_ble_gap_scan_start" /\ <<"p_adv_report_buffer">> \in null

(* sd_ble_gatts_hvx its parameters before it decodes any response, and      *)
(* sd_ble_gap_adv_set_configure its handle after a response it could decode,*)
(* be it an error.                                                          *)
CrashesOnReturn(decoded) ==
    \/ name = "sd_ble_gatts_hvx" /\ <<"p_hvx_params">> \in data.null
    \/ name = "sd_ble_gap_adv_set_configure" /\ <<"p_adv_handle">> \in data.null /\ decoded

(* sd_x(): the request is encoded; a refused argument ends the call here.   *)
Ask(f, req, d) ==
    LET body == Encode(req.items, <<>>, d)
    IN  /\ name' = f /\ data' = d
        /\ \/ /\ CrashesToAsk(f, d.null)
              /\ pc' = "crashed" /\ UNCHANGED <<packet, result>>
           \/ /\ ~CrashesToAsk(f, d.null) /\ Refused \in ToSet(body)
              /\ pc' = "returned" /\ result' = "refused" /\ UNCHANGED packet
           \/ /\ ~CrashesToAsk(f, d.null) /\ Refused \notin ToSet(body)
              /\ pc' = "request" /\ packet' = Packet(OpCode(req.op), "request", body, f) /\ UNCHANGED result
        /\ UNCHANGED <<version, device, host>>

(* The device: SER_REQ_DEC_BEGIN to SER_REQ_DEC_END.                        *)
Execute(req) ==
    /\ pc = "request" /\ pc' = "executed"
    /\ device' = Decode(req.items, <<>>, Decoding(packet.body), [NoData EXCEPT !.pick = data.pick])
    /\ UNCHANGED <<version, name, data, packet, host, result>>

(* SER_RSP_ENC_BEGIN: after the header, with success, the results.  The     *)
(* device knows from the request which of them the caller does not want,    *)
(* and may have no value for one inside a structure.                        *)
Answer(rsp, missing) ==
    /\ ~device.err /\ pc' = "response"
    /\ packet' = Packet(packet.op, "success",
                        Encode(rsp.items, <<>>,
                               [NoData EXCEPT !.null = missing \cup device.absent, !.pick = data.pick]), name)
    /\ UNCHANGED <<version, name, data, device, host, result>>

AnswerError ==
    /\ pc = "executed" /\ pc' = "response"
    /\ packet' = Packet(packet.op, "error", <<>>, name)
    /\ UNCHANGED <<version, name, data, device, host, result>>

(* The response to a request that was given up for lost, of a function      *)
(* without results.                                                         *)
AnswerToAnother(f, rsp) ==
    /\ pc' = "response"
    /\ f # name /\ rsp.items = <<>>
    /\ packet' = Packet(OpCode(rsp.op), "success", <<>>, f)
    /\ UNCHANGED <<version, name, data, device, host, result>>

(* SER_RSP_DEC_BEGIN to SER_RSP_DEC_END: the op code, the result code, and  *)
(* with success the results.                                                *)
AnyAnswer(op) == TRUE
Mine(op)      == packet.op = OpCode(op)

Return(rsp) ==
    LET d == Decode(rsp.items, <<>>, Decoding(packet.body), data)
        decoded == Mine(rsp.op) /\ (packet.code = "success" => Done(d))
    IN  /\ pc = "response"
        /\ \/ /\ CrashesOnReturn(decoded) /\ pc' = "crashed"
              /\ UNCHANGED <<host, result>>
           \/ /\ ~CrashesOnReturn(decoded) /\ pc' = "returned"
              /\ \/ ~Mine(rsp.op) /\ result' = "refused" /\ UNCHANGED host
                 \/ Mine(rsp.op) /\ packet.code = "error" /\ result' = "error" /\ UNCHANGED host
                 \/ /\ Mine(rsp.op) /\ packet.code = "success"
                    /\ host' = d /\ result' = IF Done(d) THEN "success" ELSE "refused"
        /\ UNCHANGED <<version, name, data, packet, device>>

-----------------------------------------------------------------------------
(* Events.  The device encodes ble_evt_t; ble_event_dec() chooses a decoder *)
(* by the id on the wire.  The decoder sets an id of its own in the header, *)
(* over which ble_event_dec() writes the one from the wire.                 *)
EventIdOfDecoder(decoder, id) == decoder
EventId(decoder, id)          == id

Raise(e, items, d) ==
    /\ pc' = "event"
    /\ name' = e /\ data' = d
    /\ packet' = Packet(EventsOf[version][e].number, "event",
                        Encode(items, <<>>, [d EXCEPT !.long = {}]), e)
    /\ UNCHANGED <<version, device, host, result>>

(* Bound: of the events that only a newer device has, the one numbered 255. *)
RaiseUnknown ==
    /\ pc = "idle" /\ pc' = "event"
    /\ name' = "unknown"
    /\ packet' = Packet(255, "event", <<>>, "unknown")
    /\ UNCHANGED <<version, data, device, host, result>>

Deliver(x, decoder) ==
    LET d == Decode(decoder.items, <<>>, Decoding(packet.body), data)
    IN  /\ EventsOf[version][x].number = packet.op
        /\ pc' = "delivered" /\ host' = d
        /\ result' = IF Done(d) THEN EventId(decoder.id, x) ELSE "refused"
        /\ UNCHANGED <<version, name, data, packet, device>>

DeliverUnknown ==
    /\ pc = "event" /\ pc' = "delivered"
    /\ packet.op \notin {EventsOf[version][x].number : x \in DOMAIN Decoders[version]}
    /\ result' = "refused"
    /\ UNCHANGED <<version, name, data, packet, device, host>>

-----------------------------------------------------------------------------
(* The program goes on, or is started again: nothing of the call is left in *)
(* the codecs.                                                              *)
Again ==
    /\ pc \in {"returned", "delivered", "crashed"}
    /\ pc' = "idle" /\ name' = "" /\ result' = "none"
    /\ data' = NoData /\ packet' = NoPacket /\ device' = Nothing /\ host' = Nothing
    /\ UNCHANGED version

Next ==
    \/ pc = "idle" /\ \E f \in DOMAIN CallsOf[version] :
          \E d \in CallsWithData[version][f] : Ask(f, CallsOf[version][f].req, d)
    \/ pc = "executed" /\ \E missing \in Unknown[version][name] : Answer(Called.rsp, missing)
    \/ pc = "executed" /\ \E f \in DOMAIN CallsOf[version] : AnswerToAnother(f, CallsOf[version][f].rsp)
    \/ Execute(Called.req) \/ AnswerError \/ Return(Called.rsp)
    \/ pc = "idle" /\ \E e \in DOMAIN EventsOf[version] :
          \E d \in EventsWithData[version][e] : Raise(e, Decoders[version][e].items, d)
    \/ pc = "event" /\ \E x \in DOMAIN Decoders[version] : Deliver(x, Decoders[version][x])
    \/ RaiseUnknown \/ DeliverUnknown \/ Again

Spec == Init /\ [][Next]_vars

-----------------------------------------------------------------------------
(* Properties.                                                              *)

(* Arguments that are not sent: the application's RAM on the chip, which is *)
(* not the caller's, a buffer that only receives, data without a length and *)
(* the length of no data.                                                   *)
Unsent ==
    CASE name = "sd_ble_enable"          -> {<<"p_app_ram_base">>}
      [] name = "sd_ble_cfg_set"         -> {<<"app_ram_base">>}
      [] name = "sd_ble_gatts_value_get" -> {<<"p_value", "p_value">>}
      [] name = "sd_ble_gatts_sys_attr_set" -> IF <<"p_sys_attr_data">> \in data.null THEN {<<"len">>} ELSE {}
      [] name = "sd_ble_gatts_hvx"       -> IF <<"p_hvx_params", "p_len">> \in data.null
                                            THEN {<<"p_hvx_params", "p_data">>} ELSE {}
      [] OTHER -> {}

(* Arguments declared in, out of which nothing, or one member, comes back.  *)
Kept ==
    CASE name = "sd_ble_enable"    -> {<<"p_app_ram_base">>, <<"p_ble_enable_params">>}
      [] name = "sd_ble_gatts_hvx" -> {<<"p_hvx_params">>}
      [] OTHER -> {}

(* The configuration of L2CAP channels goes without its tag (ble_app.c).    *)
Untagged == name = "sd_ble_cfg_set" /\ "BLE_CONN_CFG_L2CAP" \in {data.pick[p] : p \in DOMAIN data.pick}

(* include/sd_api_v6/ble.h calls the tag of ble_conn_cfg_t the one an       *)
(* application passes to connect "to select this configuration when creating*)
(* a connection", different "for all connection configurations added": it   *)
(* reaches the device with every configuration of connections.              *)
ConnectionConfigurations ==
    {"BLE_CONN_CFG_GAP", "BLE_CONN_CFG_GATTC", "BLE_CONN_CFG_GATTS", "BLE_CONN_CFG_GATT", "BLE_CONN_CFG_L2CAP"}

ConfigurationTagged ==
    pc = "executed" /\ name = "sd_ble_cfg_set" /\ <<"p_cfg">> \notin data.null
       /\ {data.pick[p] : p \in DOMAIN data.pick} \cap ConnectionConfigurations # {} =>
          \E x \in device.got : x.to = <<"p_cfg", "conn_cfg", "conn_cfg_tag">> /\ x.from = x.to

(* Members that the codecs of version 2 do not carry: link of the key       *)
(* distribution (ble_gap_sec_kdist_t_enc), lesc of an encryption key that   *)
(* an argument points to (ble_gap_encrypt_req_enc), the status of a GATT    *)
(* client timeout (ble_gattc_evt_timeout_dec).                              *)
Lost ==
    IF version # 2 THEN {}
    ELSE (IF name = "BLE_GATTC_EVT_TIMEOUT" THEN {<<"gatt_status">>, <<"error_handle">>} ELSE {}) \cup
         {<<"p_enc_info", "lesc">>} \cup
         {p \o <<k, "link">> : p \in {<<"p_sec_params">>, <<"sec_params_request", "peer_params">>, <<"auth_status">>},
                               k \in {"kdist_own", "kdist_peer"}}

Arrived(type, at, d, excused) ==
    Complete(type, at, d.got, data.null \cup d.absent \cup Lost \cup excused)

(* All of the arguments, as far as they are sent, arrived at the function.  *)
Given(args) ==
    \A a \in DOMAIN args :
       args[a].in /\ ~(Untagged /\ a = "p_cfg") =>
          Complete(args[a].type, <<a>>, device.got, data.null \cup Lost \cup Unsent)

(* Pointers that the wrappers need and that the headers do not offer to     *)
(* leave out; and the one they do offer: "If set to NULL, no advertising    *)
(* data will be used" (include/sd_api_v6/ble_gap.h; README, section 5).     *)
Needed == {<<"p_hvx_params">>, <<"p_adv_report_buffer">>, <<"p_adv_handle">>}

NoAdvData == name = "sd_ble_gap_adv_set_configure" /\ <<"p_adv_data">> \in data.null

(* Arguments of a call that is not refused reach the function whole and in  *)
(* their places, whatever optional parts are missing; but a set of          *)
(* advertising parameters without advertising data does not: there, and     *)
(* without a pointer that is not optional, the wrapper ends the program.    *)
ArgumentsArrive ==
    /\ pc = "executed" =>
          /\ Done(device) /\ Misplaced(device.got) = {}
          /\ device.absent \subseteq data.null
          /\ Given(Called.fn.args)
    /\ pc = "crashed" => NoAdvData \/ data.null \cap Needed # {}

(* Where a call has no room for a result, the wrapper has nowhere to decode *)
(* it to: only then is a successful response refused.  Of system attributes *)
(* and of an encoded UUID, the length alone can be asked for.               *)
Room(args) ==
    LET missing == {a \in DOMAIN args : args[a].out /\ <<a>> \in data.null}
    IN  missing = {} \/ data.null \in {{<<"p_sys_attr_data">>}, {<<"p_uuid_le">>}}

Returned(args) ==
    /\ result = "success" /\ Misplaced(host.got) = {}
    /\ \A a \in DOMAIN args : args[a].out => Arrived(args[a].type, <<a>>, host, Kept)

(* A successful answer fills every result the caller asked for, whole, in   *)
(* its place and from the same place of the device's (SER_RSP_DEC_END).     *)
ResultsArrive ==
    pc = "returned" /\ packet.code = "success" /\ packet.to = name /\ Room(Called.fn.args) =>
       Returned(Called.fn.args)

(* What the caller is told, success or an error, the device said of this    *)
(* call and not of an earlier one, given up for lost                        *)
(* (ser_ble_cmd_rsp_result_code_dec); the op codes of all functions differ. *)
OnlyOwnAnswer ==
    pc = "returned" /\ result \in {"success", "error"} => packet.to = name

(* The data of an event: the members of ble_evt_t outside the union params, *)
(* and the one in it.                                                       *)
Delivered(members, mine) ==
    LET released == IF "other" \in {data.pick[p] : p \in DOMAIN data.pick} THEN {<<"timeout", "params">>} ELSE {}
    IN  /\ \A m \in DOMAIN members \ {"params"} : Arrived(members[m], <<m>>, host, {})
        /\ mine # "" => Arrived(members.params.members[mine], <<mine>>, host, released)

(* An event is delivered under the id it was raised with, and all of its    *)
(* data with it, as the members of the union that the id stands for; an     *)
(* unknown one is not (ble_event_dec, which reads the id before a decoder   *)
(* knows the layout).                                                       *)
EventsArrive ==
    pc = "delivered" /\ data.long = {} =>
       IF name = "unknown" THEN result = "refused"
       ELSE /\ result = name /\ Misplaced(host.got) = {}
            /\ Delivered(TypesOf[version][EventsOf[version][name].group].members, EventsOf[version][name].member)
=============================================================================
