--------------------------- MODULE MCSupplierExport ---------------------------
(***************************************************************************)
(* Instances of SupplierExport for TLC.                                    *)
(***************************************************************************)
EXTENDS SupplierExport, TLC

Symmetry == Permutations(DryRunner)
===============================================================================
