-------------------------------- MODULE Slip ---------------------------------
(***************************************************************************)
(* slip.cpp: a packet between two END bytes, with END and ESC escaped.      *)
(***************************************************************************)
EXTENDS Naturals, Sequences

Byte == 0..255

END     == 192
ESC     == 219
ESC_END == 220
ESC_ESC == 221

escape(b) == CASE b = END -> <<ESC, ESC_END>>
               [] b = ESC -> <<ESC, ESC_ESC>>
               [] OTHER   -> <<b>>

Escaped(in) ==
    LET out[n \in 0..Len(in)] == IF n = 0 THEN <<>> ELSE out[n - 1] \o escape(in[n])
    IN  out[Len(in)]

slip_encode(in) == <<END>> \o Escaped(in) \o <<END>>

(* A byte at a time: out, and whether the byte before was ESC.              *)
NothingYet == [out |-> <<>>, esc |-> FALSE, err |-> FALSE]

Decode(d, b) ==
    LET push(c) == [out |-> Append(d.out, c), esc |-> FALSE, err |-> FALSE]
    IN  CASE d.err                -> d
          [] d.esc /\ b = ESC_END -> push(END)
          [] d.esc /\ b = ESC_ESC -> push(ESC)
          [] d.esc /\ b \notin {ESC_END, ESC_ESC} -> [d EXCEPT !.err = TRUE]
          [] ~d.esc /\ b = END    -> d
          [] ~d.esc /\ b = ESC    -> [d EXCEPT !.esc = TRUE]
          [] OTHER                -> push(b)

Decoded(packet) ==
    LET d[n \in 0..Len(packet)] == IF n = 0 THEN NothingYet ELSE Decode(d[n - 1], packet[n])
    IN  d[Len(packet)]

(* What a decoder gives: one result, or none when it fails.                 *)
slip_decode(packet) ==
    LET d == Decoded(packet)
    IN  IF d.err \/ d.esc THEN {} ELSE {d.out}
=============================================================================
