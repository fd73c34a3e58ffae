--------------------------- MODULE MCFlowExecutor ---------------------------
(* Instances of FlowExecutor for TLC. *)
EXTENDS FlowExecutor, TLC

CONSTANTS n1, n2, n3, n4

OneNode == <<n1>>
OneRetry == (n1 :> 0)

TwoNodes == <<n1, n2>>
TwoRetries == (n1 :> 0) @@ (n2 :> 1)
TwoFlows == {{<<n1, n2>>}, {<<n2, n1>>}}

(* topologicalSort of every acyclic flow of four nodes: each node once, a  *)
(* node after its sources.                                                 *)
FourNodes == <<n1, n2, n3, n4>>
FourSet == {n1, n2, n3, n4}
Acyclic(es) ==
  LET Closed[k \in 0..3] == IF k = 0 THEN es
                            ELSE Closed[k - 1] \cup {<<e[1], d[2]>> : e \in Closed[k - 1], d \in es}
  IN \A n \in FourSet : \A m \in FourSet :
       ~(<<n, m>> \in Closed[3] /\ <<m, n>> \in Closed[3])
ASSUME SortAssumption ==
  \A es \in SUBSET {e \in FourSet \X FourSet : e[1] # e[2]} :
    Acyclic(es) => LET order == TopologicalSort(FourNodes, es) IN
      /\ Len(order) = 4 /\ {order[i] : i \in 1..4} = FourSet
      /\ \A i, j \in 1..4 : <<order[i], order[j]>> \in es => i < j
=============================================================================
