--------------------------- MODULE MCAgentLifecycle ---------------------------
(***************************************************************************)
(* Instances of AgentLifecycle for TLC: three agents, two of which want    *)
(* the same name.                                                          *)
(***************************************************************************)
EXTENDS AgentLifecycle

CONSTANTS a1, a2, a3, n1, n2

NameOf == [a \in Agents |-> IF a = a3 THEN n2 ELSE n1]
=============================================================================
