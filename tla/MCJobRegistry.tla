--------------------------- MODULE MCJobRegistry ----------------------------
(***************************************************************************)
(* JobRegistry for TLC.  The run checks liveness, so it uses no symmetry.  *)
(***************************************************************************)
EXTENDS JobRegistry
=============================================================================
