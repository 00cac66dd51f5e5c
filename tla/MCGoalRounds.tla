---------------------------- MODULE MCGoalRounds ----------------------------
(***************************************************************************)
(* GoalRounds for TLC.  The run checks liveness, so it uses no symmetry.   *)
(***************************************************************************)
EXTENDS GoalRounds
=============================================================================
