---------------------------- MODULE MCAgentTeam ----------------------------
(* Small instances of AgentTeam for TLC. *)
EXTENDS AgentTeam

MCRunOf == [d \in Delegations |-> IF d = "d3" THEN "r2" ELSE "r1"]
MCConfigs == {[rag |-> TRUE, web |-> "read_only"], [rag |-> FALSE, web |-> "unmarked"]}
=============================================================================
