----------------------------- MODULE MCDepositBook ----------------------------
(***************************************************************************)
(* Instances of DepositBook for TLC.                                       *)
(***************************************************************************)
EXTENDS DepositBook, TLC

Symmetry == Permutations(Proc) \cup Permutations(Row)
===============================================================================
