------------------------- MODULE MCScheduleRuntime -------------------------
(***************************************************************************)
(* ScheduleRuntime for TLC.                                                *)
(***************************************************************************)
EXTENDS ScheduleRuntime
=============================================================================
