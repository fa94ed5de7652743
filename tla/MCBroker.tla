------------------------------ MODULE MCBroker ------------------------------
(* Instances of Broker for TLC: the topologies and the scan order.           *)
EXTENDS Broker, TLC

\* Every worker in the one process.
OneProcess == [w \in Workers |-> CHOOSE p \in Procs : TRUE]

\* Every worker is a process of its own: one request per replica.
Replicas == [w \in Workers |-> w]

\* The table scan returns the instances in an order that does not change.
ScanOrder == CHOOSE f \in [Instances -> 1..Cardinality(Instances)] :
                \A i, j \in Instances : i # j => f[i] # f[j]

ParamsSymmetry == Permutations(Params)
=============================================================================
