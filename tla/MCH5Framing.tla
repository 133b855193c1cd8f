----------------------------- MODULE MCH5Framing -----------------------------
(***************************************************************************)
(* H5Framing for TLC: a reliable packet whose first byte and payload have   *)
(* to be escaped, an acknowledgement, a link control packet, and a reliable *)
(* packet with an escape code in its payload.                               *)
(***************************************************************************)
EXTENDS H5Framing, Crc16

Reliable(seq, ack, payload) ==
    [seq |-> seq, ack |-> ack, crc |-> TRUE, reliable |-> TRUE, type |-> 14, payload |-> payload]
Unreliable(ack, type, payload) ==
    [seq |-> 0, ack |-> ack, crc |-> FALSE, reliable |-> FALSE, type |-> type, payload |-> payload]

MCPackets == <<Reliable(0, 0, <<END>>), Unreliable(1, 0, <<>>),
               Unreliable(0, 15, <<2, 125>>), Reliable(1, 1, <<ESC, ESC_END>>)>>
MCNoise   == {0, 1, 2, 4, 8, 16, 32, 64, 128, 255, END, ESC, ESC_END, ESC_ESC}
=============================================================================
