---------------------------- MODULE MCMatchmaker ----------------------------
(***************************************************************************)
(* Instances of Matchmaker for TLC: three bots, two of one owner, rated so *)
(* that the window joins "a" to "b" at once and to "c" only after a while. *)
(***************************************************************************)
EXTENDS Matchmaker

MCBot    == {"a", "b", "c"}
MCRating == [b \in MCBot |-> CASE b = "a" -> 1 [] b = "b" -> 2 [] OTHER -> 4]
MCUser   == {"u", "v", "w"}
OwnersABC == [b \in MCBot |-> CASE b = "a" -> "u" [] b = "b" -> "v" [] OTHER -> "u"]
OwnersApart == [b \in MCBot |-> CASE b = "a" -> "u" [] b = "b" -> "v" [] OTHER -> "w"]
NoBot  == {}
BotA   == {"a"}
BotAC  == {"a", "c"}
=============================================================================
