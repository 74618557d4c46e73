---------------------------- MODULE MCVoucherBook -----------------------------
(***************************************************************************)
(* Instances of VoucherBook for TLC: a year of two months, a year of one.   *)
(***************************************************************************)
EXTENDS VoucherBook, TLC

CONSTANTS notice, payment, cancel, correction, accrual, back

Months       == 1..3
Years        == 1..2
TwoMonths    == [m \in Months |-> IF m = 3 THEN 2 ELSE 1]
SecondMonth  == [y \in Years |-> y + 1]
Reversals    == (cancel :> notice) @@ (correction :> notice)
TakenBack    == (accrual :> [key |-> back, year |-> 1])
EventMonths  == (notice :> 2) @@ (payment :> 1)
Events       == <<3, 2, 0>>
Symmetry     == Permutations(Proc) \cup Permutations({cancel, correction})
=============================================================================
