----------------------------- MODULE MCSdkClient -----------------------------
(***************************************************************************)
(* SdkClient with values for TLC: a looping White that a runner restarts.  *)
(***************************************************************************)
EXTENDS SdkClient
=============================================================================
