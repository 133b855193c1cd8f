---------------------------- MODULE MCCodecCalls ----------------------------
(***************************************************************************)
(* The codecs of the four API versions, for CodecCalls.                     *)
(***************************************************************************)
EXTENDS CodecCalls

V2 == INSTANCE SdCallsV2
V3 == INSTANCE SdCallsV3
V5 == INSTANCE SdCallsV5
V6 == INSTANCE SdCallsV6

Of(two, three, five, six) ==
    [v \in {2, 3, 5, 6} |-> CASE v = 2 -> two [] v = 3 -> three [] v = 5 -> five [] v = 6 -> six]

MCCalls      == Of(V2!Calls, V3!Calls, V5!Calls, V6!Calls)
MCNumbers    == Of(V2!Numbers, V3!Numbers, V5!Numbers, V6!Numbers)
MCEvents     == Of(V2!Events, V3!Events, V5!Events, V6!Events)
MCDecoders   == Of(V2!ble_event_dec, V3!ble_event_dec, V5!ble_event_dec, V6!ble_event_dec)
MCEventTypes == Of(V2!EventTypes, V3!EventTypes, V5!EventTypes, V6!EventTypes)
=============================================================================
