------------------------------- MODULE H5Link --------------------------------
(***************************************************************************)
(* What the layer above can rely on of a link, H5Transport: it is opened,   *)
(* works until it breaks or is closed, and once it is down it can be closed *)
(* and opened, but never works again.                                       *)
(***************************************************************************)

VARIABLE link   \* "idle", "running", "down", or "spent" once closed after down

Init == link = "idle"

(* An open() that succeeds.                                                *)
Opens == link = "idle" /\ link' = "running"

(* An open() that does not: it may leave the link at work, for the         *)
(* transport is open whatever open() returns.                              *)
Fails ==
    \/ link = "idle" /\ link' \in {"running", "down"}
    \/ link = "spent" /\ link' = "down"
    \/ link \in {"running", "down"} /\ UNCHANGED link

Breaks == link = "running" /\ link' = "down"

Closes ==
    \/ link = "running" /\ link' = "idle"
    \/ link = "down" /\ link' = "spent"

Next == Opens \/ Fails \/ Breaks \/ Closes

Spec == Init /\ [][Next]_link
=============================================================================
