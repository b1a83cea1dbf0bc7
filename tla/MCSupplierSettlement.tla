------------------------ MODULE MCSupplierSettlement ------------------------
(* An instance of the settlement for TLC.                                  *)
EXTENDS SupplierSettlement, TLC

Symmetry == Permutations(Requests) \cup Permutations(Periods)
=============================================================================
