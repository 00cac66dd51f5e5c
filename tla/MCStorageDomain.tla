-------------------------- MODULE MCStorageDomain --------------------------
(***************************************************************************)
(* StorageDomain for TLC.  Handles and clients are symmetric.              *)
(***************************************************************************)
EXTENDS StorageDomain, TLC

Symmetry == Permutations(Handle) \cup Permutations(Client)

(* NeverStuck says what may happen with the guards the actions start with. *)
(* Each of them holds just when its action is enabled, which is no         *)
(* statement about the code and therefore not part of the run.             *)
GuardsAreEnabled ==
    /\ \A h \in Handle :
          /\ HandleMay(h) <=> ENABLED HandleStep(h)
          /\ \A c \in Client : JobMay(c, h) <=> ENABLED Job(c, h)
    /\ MayUnmount <=> ENABLED Unmount
    /\ UnitsMay <=> ENABLED CloseUnits
    /\ MayEndClose <=> ENABLED BackendClosed
=============================================================================
