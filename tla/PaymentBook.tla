----------------------------- MODULE PaymentBook ------------------------------
(***************************************************************************)
(* What bank reconciliation promises of the money on a bank row: a row is  *)
(* spent as a whole, in one step, only while nothing of it is spent, and   *)
(* its notices together get no more than it holds (Budget); what is taken  *)
(* back is the whole row again, never one notice's share of it.            *)
(***************************************************************************)
EXTENDS Naturals, Functions

CONSTANTS Notice, Payment, Budget

VARIABLE spent   \* spent[p][n]: what notice n has received from bank row p

Unspent == [n \in Notice |-> 0]

Init == spent = [p \in Payment |-> Unspent]

Spend(p) ==
    /\ spent[p] = Unspent
    /\ spent'[p] \in [Notice -> Nat] \ {Unspent}
    /\ SumFunction(spent'[p]) <= Budget[p]
    /\ spent' = [spent EXCEPT ![p] = spent'[p]]

TakeBack(p) ==
    /\ spent[p] # Unspent
    /\ spent' = [spent EXCEPT ![p] = Unspent]

Next == \E p \in Payment : Spend(p) \/ TakeBack(p)

Spec == Init /\ [][Next]_spent
===============================================================================
