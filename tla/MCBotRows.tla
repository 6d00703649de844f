------------------------------ MODULE MCBotRows -----------------------------
(***************************************************************************)
(* BotRows with values for TLC: two games of the bots 1 and 2, with the    *)
(* colours reversed, and one of the bots 3 and 1, all of which may end at  *)
(* once.  Elo is replaced by a change of K for a win or a loss, less one   *)
(* against a weaker opponent.                                              *)
(***************************************************************************)
EXTENDS BotRows

TheRatings == 0..24
TheBots  == 1..3
TheGames == {"A", "B", "C"}
TheWhite == [g \in TheGames |-> CASE g = "A" -> 1 [] g = "B" -> 2 [] g = "C" -> 3]
TheBlack == [g \in TheGames |-> CASE g = "A" -> 2 [] g = "B" -> 1 [] g = "C" -> 1]
Shift(r, o, s, k) == LET to == r + k * s  fall == k + (IF r > o THEN 1 ELSE 0)
                     IN IF to < fall THEN 0 ELSE IF to - fall > 24 THEN 24 ELSE to - fall
=============================================================================
