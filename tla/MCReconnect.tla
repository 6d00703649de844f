----------------------------- MODULE MCReconnect -----------------------------
(***************************************************************************)
(* Instances of Reconnect for TLC: White connects up to three times, or    *)
(* twice with rotations of its key; four times for the race of the seat    *)
(* that README.md section 6 tells.                                         *)
(***************************************************************************)
EXTENDS Reconnect

MCOwner(conns) == [k \in conns |-> IF k \in {"w1", "w2", "w3", "w4"} THEN "white" ELSE "black"]
MCFirst == [c \in Color |-> IF c = "white" THEN "w1" ELSE "b1"]

WhiteThrice      == {"w1", "w2", "w3", "b1"}
WhiteThriceOwner == MCOwner(WhiteThrice)

WhiteTwice       == {"w1", "w2", "b1"}
WhiteTwiceOwner  == MCOwner(WhiteTwice)

WhiteFour        == {"w1", "w2", "w3", "w4", "b1"}
WhiteFourOwner   == MCOwner(WhiteFour)

Nobody   == {}
WhiteBot == {"white"}

\* Rebinding is newest-wins (seat.py:70): a seat never goes back to an older session,
\* not even to one that is about to be closed.  Violated with four connections.
SeatNeverGoesBack ==
    [][\A c \in Color : seat'[c] # seat[c] => Newer(seat'[c], seat[c])]_vars
=============================================================================
