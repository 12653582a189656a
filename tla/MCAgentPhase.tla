---------------------------- MODULE MCAgentPhase ----------------------------
(* AgentPhase for TLC: a probe of two turns and a probe of one. *)
EXTENDS AgentPhase

CONSTANTS p1, p2

TwoProbes == {p1, p2}
TwoAndOne == [p \in TwoProbes |-> IF p = p1 THEN 2 ELSE 1]

NoOldSessions  == <<>>
TwoOldSessions == <<"old1", "old2">>
===============================================================================
