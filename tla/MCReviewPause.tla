---------------------------- MODULE MCReviewPause -----------------------------
(***************************************************************************)
(* Instances of ReviewPause for TLC.                                       *)
(***************************************************************************)
EXTENDS ReviewPause, TLC

Symmetry == Permutations(Row) \cup Permutations(Pause)

Deciding  == {"match", "unmatch", "flag"}
MatchFlag == {"match", "flag"}
===============================================================================
