------------------------- MODULE MCPlatformAccounts -------------------------
(***************************************************************************)
(* PlatformAccounts for TLC.  Requests are interchangeable.                *)
(***************************************************************************)
EXTENDS PlatformAccounts, TLC

Requests == Permutations(Req)
=============================================================================
