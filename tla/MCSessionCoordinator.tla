----------------------- MODULE MCSessionCoordinator -------------------------
(***************************************************************************)
(* SessionCoordinator for TLC.  Callers are interchangeable; Sessions and  *)
(* preparations are not, as their next name is chosen.                     *)
(***************************************************************************)
EXTENDS SessionCoordinator

Symmetry == Permutations(Caller)
=============================================================================
