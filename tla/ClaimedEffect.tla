---------------------------- MODULE ClaimedEffect -----------------------------
(***************************************************************************)
(* What a claim promises of an effect outside the table it is made in: the *)
(* effect of an item happens once at most and only while the item is       *)
(* claimed; a claim is given back only while the effect has not happened;  *)
(* that it happened is said only if it did and for good, that it did not   *)
(* only if it did not, and then it cannot until the claim is given back.   *)
(* Whether it happened may stay unsaid for ever.                           *)
(***************************************************************************)
EXTENDS Naturals

CONSTANT Item

VARIABLES
    held,   \* the items that are claimed
    times,  \* how often the effect of each has happened
    told    \* what is said of it

vars == <<held, times, told>>

Init ==
    /\ held = {}
    /\ times = [i \in Item |-> 0]
    /\ told = [i \in Item |-> "nothing"]

Claim(i) ==
    /\ i \notin held /\ times[i] = 0
    /\ held' = held \cup {i}
    /\ UNCHANGED <<times, told>>

GiveBack(i) ==
    /\ i \in held /\ times[i] = 0
    /\ held' = held \ {i}
    /\ told' = [told EXCEPT ![i] = "nothing"]
    /\ UNCHANGED times

Happen(i) ==
    /\ i \in held /\ times[i] = 0 /\ told[i] = "nothing"
    /\ times' = [times EXCEPT ![i] = 1]
    /\ UNCHANGED <<held, told>>

Tell(i) ==
    /\ i \in held /\ told[i] = "nothing"
    /\ told' = [told EXCEPT ![i] = IF times[i] = 1 THEN "happened" ELSE "did not"]
    /\ UNCHANGED <<held, times>>

Next == \E i \in Item : Claim(i) \/ GiveBack(i) \/ Happen(i) \/ Tell(i)

Spec == Init /\ [][Next]_vars
===============================================================================
