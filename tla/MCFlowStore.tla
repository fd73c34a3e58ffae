----------------------------- MODULE MCFlowStore -----------------------------
(* Instances of FlowStore for TLC. *)
EXTENDS FlowStore, TLC

CONSTANTS n1, n2, n3, f1, f2, o1, o2

Order == <<n1, n2, n3>>
TwoFlows == {f1, f2}
TwoOps == {o1, o2}
Forward == {<<n1, n2>>}
SomePatches == {[nodes |-> {n1, n2}, edges |-> {}],
                [nodes |-> {n1}, edges |-> None], [nodes |-> None, edges |-> Forward]}

(* validateFlowDefinition accepts exactly the definitions that can be      *)
(* executed, of at most three nodes.                                       *)
ASSUME ValidatorAssumption == \A def \in Definitions : Validates(def) <=> Executable(def)

Symmetry == Permutations(TwoFlows) \cup Permutations(TwoOps)
=============================================================================
