---------------------------- MODULE MCTournament ----------------------------
(***************************************************************************)
(* Instances of Tournament for TLC, and the schedule of larger fields than *)
(* they can play.                                                          *)
(***************************************************************************)
EXTENDS Tournament

MCBot == {"a", "b", "c"}
DrawOrNobody == {"draw", "aborted"}   \* a forfeit is a win like any other
BotA == {"a"}

\* The circle method keeps its promises for fields of up to nine players.
ASSUME ScheduleIsRoundRobin ==
    \A n \in 2 .. 9 :
        LET s == Schedule([i \in 1 .. n |-> i]) IN
        MeetOnce(s, 1 .. n) /\ OncePerRound(s, 1 .. n)
=============================================================================
