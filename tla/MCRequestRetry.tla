--------------------------- MODULE MCRequestRetry ---------------------------
(***************************************************************************)
(* RequestRetry for TLC: a route of each kind of policy.                   *)
(***************************************************************************)
EXTENDS RequestRetry
=============================================================================
