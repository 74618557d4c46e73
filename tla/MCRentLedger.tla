---------------------------- MODULE MCRentLedger -----------------------------
(***************************************************************************)
(* Instances of RentLedger for TLC.                                        *)
(***************************************************************************)
EXTENDS RentLedger

Two == {1, 2}
One == {1}
TwoOnly == {2}

FourEach  == [n \in Notice |-> 4]
\* A bank row that covers two notices, and one that is part of a payment.
SixTwo    == [p \in Payment |-> IF p = 1 THEN 6 ELSE 2]
SevenTwo  == [p \in Payment |-> IF p = 1 THEN 7 ELSE 2]
FourRow   == [p \in Payment |-> 4]
TwoEach   == [p \in Payment |-> 2]

MatchCommands  == {"match", "auto", "pour", "spread", "unmatch", "ignore", "cash", "cancel"}
RaceCommands   == {"match", "auto", "spread", "unmatch", "cash", "remind", "strike"}
ClaimCommands  == Commands \ {"auto", "pour", "spread"}

\* The commands of the counterexamples.
CancelRace == {"match", "cancel"}
SecondFee  == {"send", "remind", "strike", "match", "unmatch"}
UndoRace   == {"match", "unmatch"}
===============================================================================
