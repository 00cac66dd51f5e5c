---------------------------- MODULE MCToolCalls -----------------------------
(***************************************************************************)
(* ToolCalls for TLC.  Reclassify may turn any call into an exclusive one  *)
(* and back at any time, so three calls over a pool of two meet every      *)
(* grouping: replenishing, a barrier in the middle of a group, and a call  *)
(* that is settled behind one that is not.                                 *)
(***************************************************************************)
EXTENDS ToolCalls
=============================================================================
