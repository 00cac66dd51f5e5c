--------------------------- MODULE MCAgentDriver ----------------------------
(***************************************************************************)
(* AgentDriver for TLC.  The agent treats all messages alike, so they are  *)
(* interchangeable in the runs without a temporal property of one message. *)
(***************************************************************************)
EXTENDS AgentDriver

Messages == Permutations(Msg)
=============================================================================
