----------------------------- MODULE MCJsonlLog -----------------------------
(***************************************************************************)
(* JsonlLog for TLC.                                                       *)
(***************************************************************************)
EXTENDS JsonlLog
=============================================================================
