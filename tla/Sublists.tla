------------------------------ MODULE Sublists ------------------------------
(***************************************************************************)
(* What is left of a list when only some of its places are kept: the list  *)
(* comprehensions with a condition that the code filters its queues with.  *)
(***************************************************************************)
EXTENDS Integers, Sequences

\* What is kept of the first i items, for every i.
KeptUpTo(s, places) ==
    LET kept[i \in 0 .. Len(s)] ==
            IF i = 0 THEN <<>>
            ELSE IF i \in places THEN Append(kept[i - 1], s[i]) ELSE kept[i - 1]
    IN  kept

\* The items of s at the given places, in their order.
Keep(s, places) == KeptUpTo(s, places)[Len(s)]
=============================================================================
