------------------------------ MODULE MCCluster ------------------------------
(* Cluster with the proxy's "self" member and one TiDB pod: a tp pod       *)
(* (MCPodClass, the ap pool empty) or an ap pod (MCPodClassAp).            *)
EXTENDS Cluster

CONSTANTS a1

MCAddr == {a1}
MCPodClass == [a \in MCAddr |-> "tp"]

\* The same pod as an ap TiDB: the tp pool holds only the proxy.
MCPodClassAp == [a \in MCAddr |-> "ap"]
MCPodOrder == <<a1>>
====
