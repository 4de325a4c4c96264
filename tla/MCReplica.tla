----------------------------- MODULE MCReplica -----------------------------
(* Model-checking instance of Replica: three replicas as model values.    *)
EXTENDS Replica

CONSTANTS n1, n2, n3

Nodes3 == {n1, n2, n3}

NodeSymmetry == Permutations(Node)

\* Keeps the network small: at most this many messages in flight.
MaxInFlight == 2
NetworkBound == Cardinality(msgs) <= MaxInFlight
=============================================================================
