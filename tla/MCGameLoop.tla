----------------------------- MODULE MCGameLoop -----------------------------
(***************************************************************************)
(* Instances of GameLoop for TLC.  Two moves, of which "a" is legal on     *)
(* White's plies and both are on Black's, so a frame that is legal at one  *)
(* ply is illegal at another.                                              *)
(***************************************************************************)
EXTENDS GameLoop

MCLegal == [p \in Ply |-> IF p % 2 = 0 THEN {"a"} ELSE {"a", "b"}]
MCUci   == {"a", "b"}
Frame(p, u, o) == [ply |-> p, uci |-> u, offer |-> o]
\* Every legal answer with and without an offer, an illegal one (legal a ply
\* later), and so, at each ply, duplicates and frames from the future.
MCFrames == {Frame(0, "a", FALSE), Frame(0, "a", TRUE), Frame(0, "b", FALSE),
             Frame(1, "b", FALSE), Frame(1, "b", TRUE), Frame(2, "a", FALSE)}
NoHouse == {}
HouseIsBlack == {"black"}
HouseIsBoth  == Color
=============================================================================
