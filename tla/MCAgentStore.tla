----------------------------- MODULE MCAgentStore -----------------------------
(* Instances of AgentStore for TLC. *)
EXTENDS AgentStore, TLC

CONSTANTS a1, a2, o1, o2

TwoAgents == {a1, a2}
TwoOps == {o1, o2}
Symmetry == Permutations(TwoAgents) \cup Permutations(TwoOps)
=============================================================================
