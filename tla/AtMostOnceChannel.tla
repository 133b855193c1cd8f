------------------------- MODULE AtMostOnceChannel --------------------------
(***************************************************************************)
(* What one direction of the reliable link promises: messages, numbered in *)
(* the order they are offered, reach the other end in that order and never *)
(* twice.  A message may be dropped: the sender is told, or finds out.     *)
(***************************************************************************)
EXTENDS Naturals, Sequences

VARIABLES
    offered,    \* how many messages have been offered
    delivered   \* the messages delivered, in order

Latest(s) == IF s = <<>> THEN 0 ELSE s[Len(s)]

Init == offered = 0 /\ delivered = <<>>

Offer ==
    /\ offered' = offered + 1
    /\ UNCHANGED delivered

Deliver ==
    /\ \E message \in (Latest(delivered) + 1)..offered :
          delivered' = Append(delivered, message)
    /\ UNCHANGED offered

Next == Offer \/ Deliver

Spec == Init /\ [][Next]_<<offered, delivered>>
=============================================================================
