--------------------------- MODULE MCWriteBehind ----------------------------
(***************************************************************************)
(* WriteBehind for TLC: two concurrent callers of flush and three events,  *)
(* so that a batch can be in flight, another event pending behind it, and  *)
(* a third arrive while the first is being put back.                       *)
(***************************************************************************)
EXTENDS WriteBehind
=============================================================================
