----------------------------- MODULE MCHouseBots ----------------------------
(***************************************************************************)
(* HouseBots with values for TLC: three games to keep live, or the two    *)
(* residents of the lobby and a third client.                              *)
(***************************************************************************)
EXTENDS HouseBots

Residents == <<"jian_001", "jian_002", "third">>
=============================================================================
