------------------------------ MODULE RoundRobin ------------------------------
(***************************************************************************)
(* The schedule of a tournament: the circle method of                      *)
(* tournaments/schedule.py, with what it promises beside it.               *)
(***************************************************************************)
EXTENDS Integers, Sequences, FiniteSets

CONSTANT NoBot    \* the sentinel opposite the bot that sits a round out

\* The field, made even with a sentinel.
Field(players) ==
    IF Len(players) % 2 = 1 THEN Append(players, NoBot) ELSE players

\* All but the first move on, the last into the second place.
Rotate(arr) == <<arr[1], arr[Len(arr)]>> \o SubSeq(arr, 2, Len(arr) - 1)

\* Who is in which place, in each round.
Arrangement(players) ==
    LET arr[r \in 0 .. Len(Field(players)) - 2] ==
            IF r = 0 THEN Field(players) ELSE Rotate(arr[r - 1])
    IN  arr

\* The player in place i meets the one opposite; the colors alternate by round.
PairAt(arr, r, i) ==
    LET opposite == arr[Len(arr) + 1 - i] IN
    IF r % 2 = 0 THEN [round |-> r, white |-> arr[i], black |-> opposite]
                 ELSE [round |-> r, white |-> opposite, black |-> arr[i]]

\* The pairings of every round, one after the other.
Schedule(players) ==
    LET n    == Len(Field(players))
        half == n \div 2
    IN  IF Len(players) < 2 THEN <<>>
        ELSE [k \in 1 .. (n - 1) * half |->
                LET r == (k - 1) \div half
                IN  PairAt(Arrangement(players)[r], r, ((k - 1) % half) + 1)]

-----------------------------------------------------------------------------
(* What the schedule is for, over pairings of any kind.                    *)

PlayersOf(p) == {p.white, p.black}

\* Every two players meet in exactly one pairing.
MeetOnce(pairings, players) ==
    \A a, b \in players : a # b =>
        Cardinality({k \in DOMAIN pairings : PlayersOf(pairings[k]) = {a, b}}) = 1

\* In each of the rounds there are, a player has exactly one pairing.
OncePerRound(pairings, players) ==
    \A r \in {pairings[k].round : k \in DOMAIN pairings}, a \in players :
        Cardinality({k \in DOMAIN pairings :
            pairings[k].round = r /\ a \in PlayersOf(pairings[k])}) = 1
=============================================================================
