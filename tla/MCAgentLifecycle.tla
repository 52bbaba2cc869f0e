--------------------------- MODULE MCAgentLifecycle ---------------------------
(* Model-checking instance of AgentLifecycle.                              *)
EXTENDS AgentLifecycle, TLC

Symmetry == Permutations(Agents) \cup Permutations(Tasks)
===============================================================================
