------------------------------ MODULE H5Packet -------------------------------
(***************************************************************************)
(* h5.cpp: a header, and on reliable packets a CRC, around a payload.  A    *)
(* packet is its fields seq, ack, crc, reliable, type and payload.          *)
(***************************************************************************)
EXTENDS Naturals, Sequences

CONSTANT Crc(_)   \* of a sequence of bytes, calculate_crc16_checksum() in the code

Bit(b) == IF b THEN 1 ELSE 0

calculate_header_checksum(h) == (256 - ((h[1] + h[2] + h[3]) % 256)) % 256

add_h5_header(p) ==
    LET len    == Len(p.payload)
        fields == <<(p.seq % 8) + 8 * (p.ack % 8) + 64 * Bit(p.crc) + 128 * Bit(p.reliable),
                    (p.type % 16) + 16 * (len % 16),
                    (len \div 16) % 256>>
    IN  Append(fields, calculate_header_checksum(fields))

add_crc16(s) == s \o <<Crc(s) % 256, Crc(s) \div 256>>

h5_encode(p) ==
    LET body == add_h5_header(p) \o p.payload
    IN  IF p.crc THEN add_crc16(body) ELSE body

HeaderRight(s)  == s[4] = calculate_header_checksum(s)
LengthRight(s, length, crc) == Len(s) = length + 4 + (IF crc THEN 2 ELSE 0)
CrcIgnored(s, length) == TRUE
CrcRight(s, length) ==
    s[length + 5] + 256 * s[length + 6] = Crc(SubSeq(s, 1, length + 4))

h5_decode(s) ==
    IF Len(s) < 4 THEN {}
    ELSE LET crc    == (s[1] \div 64) % 2 = 1
             length == (s[2] \div 16) + 16 * s[3]
         IN  IF LengthRight(s, length, crc) /\ HeaderRight(s) /\ (crc => CrcRight(s, length))
             THEN {[seq |-> s[1] % 8, ack |-> (s[1] \div 8) % 8, crc |-> crc,
                    reliable |-> s[1] \div 128 = 1, type |-> s[2] % 16,
                    payload |-> SubSeq(s, 5, length + 4)]}
             ELSE {}
=============================================================================
