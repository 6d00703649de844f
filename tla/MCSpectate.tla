----------------------------- MODULE MCSpectate -----------------------------
(***************************************************************************)
(* Spectate with values for TLC: the pages are interchangeable, but the    *)
(* run checks liveness, so no symmetry is used.                            *)
(***************************************************************************)
EXTENDS Spectate
=============================================================================
