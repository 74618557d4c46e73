-------------------------- MODULE MCAgentExecution --------------------------
(* Instances of AgentExecution for TLC. *)
EXTENDS AgentExecution

CONSTANTS a1, a2, d1, d2, q1, q2, w1, w2

YesNo        == {"APPROVED", "REJECTED"}
OffOn        == {<<"off", "keep">>, <<"on", "on">>}
FirstCovered == Delegation \X {a1}
AllCovered   == Delegation \X Assignment
=============================================================================
