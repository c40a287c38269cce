---------------------------------- MODULE Feed ----------------------------------
(***************************************************************************)
(* What the flight-controller link promises its clients: frames come to    *)
(* each in the order they were sent; some may be missing.                  *)
(***************************************************************************)
EXTENDS Naturals

CONSTANT Client

VARIABLES
  sent,   \* number of the last frame the flight controller sent
  last    \* number of the last frame each client has

Init == sent = 0 /\ last = [c \in Client |-> 0]

Send == sent' = sent + 1 /\ UNCHANGED last

Deliver ==
  /\ last' \in [Client -> 1..sent \cup {0}]
  /\ \A c \in Client : last[c] <= last'[c]
  /\ UNCHANGED sent

Spec == Init /\ [][Send \/ Deliver]_<<sent, last>>
=============================================================================
