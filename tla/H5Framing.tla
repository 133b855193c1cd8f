------------------------------ MODULE H5Framing ------------------------------
(***************************************************************************)
(* Packets as bytes: h5.cpp (H5Packet) encodes a packet, slip.cpp (Slip)    *)
(* puts it between END bytes, and dataHandler() of h5_transport.cpp cuts    *)
(* the packets out of whatever pieces of the byte stream the serial port    *)
(* gives it.  The line may damage bytes, and the port may be closed and     *)
(* opened again within a packet.                                            *)
(***************************************************************************)
EXTENDS Slip, H5Packet, SequencesExt

CONSTANTS
    Packets,     \* the packets the device sends after every open, in this order
    Noise,       \* the values a damaged or an extra byte can have
    Lengths      \* how many bytes dataHandler() can be given at once

(* Packets have fields that their header has room for.                      *)
Packet == [seq : 0..7, ack : 0..7, crc : BOOLEAN, reliable : BOOLEAN, type : 0..15,
           payload : {bytes \in Seq(Byte) : Len(bytes) < 4096}]

ASSUME PacketsAssumption == Packets \in Seq(Packet)
ASSUME NoiseAssumption == Noise \subseteq Byte
ASSUME LengthsAssumption == Lengths \subseteq Nat

VARIABLES
    line,             \* bytes on their way
    hit,              \* the packets of this session that the line damaged, 0 for what came before
    unprocessedData,  \* bytes of dataHandler() for which it waits for more
    c0Found,          \* the start of a packet was found
    accepted          \* the packets of this session that processPacket() goes on with

stream == <<line, hit, unprocessedData, c0Found, accepted>>

-----------------------------------------------------------------------------
(* h5_transport.cpp.                                                        *)

(* The first lines of processPacket(): a packet that both decoders accept.  *)
processPacket(packet, so_far) ==
    LET decoded == UNION {h5_decode(s) : s \in slip_decode(packet)}
    IN  IF decoded = {} THEN so_far ELSE Append(so_far, CHOOSE p \in decoded : TRUE)

AlwaysAnEnd(packet) == FALSE
NotAnEnd(packet)    == Len(packet) = 2

(* One turn of the loop of dataHandler(), d its variables.                  *)
NextByte(d, b) ==
    LET packet == Append(d.packet, b)
    IN  CASE b # END -> [d EXCEPT !.packet = packet]
          [] b = END /\ ~d.c0Found -> [d EXCEPT !.packet = <<END>>, !.c0Found = TRUE]
          [] b = END /\ d.c0Found /\ NotAnEnd(packet) -> [d EXCEPT !.packet = <<END>>]
          [] OTHER -> [packet |-> <<>>, unprocessedData |-> <<>>, c0Found |-> FALSE,
                       accepted |-> processPacket(packet, d.accepted)]

FromTheBytesAlone(unprocessed) == <<>>
Begin(unprocessed) == unprocessed

(* The loop of dataHandler(), and what a call makes of the three variables. *)
Looped(unprocessed, found, so_far, data) ==
    LET d[n \in 0..Len(data)] ==
          IF n = 0 THEN [packet |-> Begin(unprocessed), unprocessedData |-> unprocessed,
                         c0Found |-> found, accepted |-> so_far]
                   ELSE NextByte(d[n - 1], data[n])
    IN  d[Len(data)]

Handled(unprocessed, found, so_far, data) ==
    LET d == Looped(unprocessed, found, so_far, data)
    IN  <<IF d.packet # <<>> THEN d.packet ELSE d.unprocessedData, d.c0Found, d.accepted>>

dataHandler(n) ==
    LET h == Handled(unprocessedData, c0Found, accepted, SubSeq(line, 1, n))
    IN  /\ n <= Len(line)
        /\ unprocessedData' = h[1] /\ c0Found' = h[2] /\ accepted' = h[3]
        /\ line' = SubSeq(line, n + 1, Len(line))
        /\ UNCHANGED hit

-----------------------------------------------------------------------------
(* The line, and the packets it damages: none, or one byte of one of them   *)
(* changed, lost, or there that was not sent, also between two packets.     *)
Bytes(k) == slip_encode(h5_encode(Packets[k]))
Pieces   == [k \in DOMAIN Packets |-> Bytes(k)]

Joined(pieces) ==
    LET out[n \in 0..Len(pieces)] == IF n = 0 THEN <<>> ELSE out[n - 1] \o pieces[n]
    IN  out[Len(pieces)]

AllBytes == Joined(Pieces)

Damaged(bytes) ==
    {ReplaceAt(bytes, i, b) : i \in DOMAIN bytes, b \in Noise}
    \cup {RemoveAt(bytes, i) : i \in DOMAIN bytes}
    \cup {InsertAt(bytes, i, b) : i \in DOMAIN bytes \ {1}, b \in Noise}

With(k, bytes) == Joined([Pieces EXCEPT ![k] = bytes])

Line ==
    \/ line = AllBytes /\ hit = {}
    \/ \E k \in DOMAIN Packets :
          \/ \E bytes \in Damaged(Bytes(k)) : line = With(k, bytes) /\ hit = {k}
          \/ \E b \in Noise : line = With(k, <<b>> \o Bytes(k)) /\ hit = {}

StreamInit == Line /\ unprocessedData = <<>> /\ c0Found = FALSE /\ accepted = <<>>

(* close() and open() of the transport: neither touches what dataHandler()  *)
(* has kept.  Bound: of sessions without damage.                            *)
Reopen ==
    /\ hit \subseteq {0} /\ line # AllBytes
    /\ line' = AllBytes /\ hit' = {0} /\ accepted' = <<>>
    /\ UNCHANGED <<unprocessedData, c0Found>>

StreamNext == Reopen \/ \E n \in Lengths : dataHandler(n)

Stream == StreamInit /\ [][StreamNext]_stream

-----------------------------------------------------------------------------
(* Properties.                                                              *)

(* What of a packet the decoder can tell to be right: all with a CRC, else  *)
(* what the checksum of the header covers.                                  *)
Checked(p) == IF p.crc THEN p ELSE [p EXCEPT !.payload = [i \in DOMAIN p.payload |-> 0]]

Sent(some) ==
    \E S \in SUBSET DOMAIN Packets :
       LET chosen == SetToSortSeq(S, <)
       IN  [i \in DOMAIN some |-> Checked(some[i])] = [i \in DOMAIN chosen |-> Checked(Packets[chosen[i]])]

(* However the line damages a byte, packets are accepted as they were sent, *)
(* and in their order (h5_decode): none is made up from the pieces of two,  *)
(* none comes twice.  Where a session ends, a packet of which it lacks only *)
(* the last END can come first in the next one.                             *)
Intact ==
    \/ Sent(accepted)
    \/ 0 \in hit /\ accepted # <<>> /\ Sent(<<Head(accepted)>>) /\ Sent(Tail(accepted))

(* dataHandler() takes an END for the start or for the end of a packet by   *)
(* what came before.  After damage, and after a session cut short, it finds *)
(* the start again: no packet is lost but the damaged one and the next.     *)
OnlyNextLost ==
    line = <<>> =>
       \A k \in DOMAIN Packets : {k, k - 1} \cap hit = {} => Packets[k] \in ToSet(accepted)

(* It makes no difference to dataHandler() how the stream is cut: a call    *)
(* with some bytes does what one call for each of them does.                *)
OneByte(h, b) == Handled(h[1], h[2], h[3], <<b>>)

OneByOne(unprocessed, found, so_far, data) ==
    LET h[n \in 0..Len(data)] == IF n = 0 THEN <<unprocessed, found, so_far>> ELSE OneByte(h[n - 1], data[n])
    IN  h[Len(data)]

CutsDoNotMatter ==
    [][\A n \in Lengths : dataHandler(n) =>
         <<unprocessedData', c0Found', accepted'>> =
           OneByOne(unprocessedData, c0Found, accepted, SubSeq(line, 1, n))]_stream
=============================================================================
