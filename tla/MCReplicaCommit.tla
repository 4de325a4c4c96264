-------------------------- MODULE MCReplicaCommit --------------------------
(* Model-checking instance of ReplicaCommit: the followers are model      *)
(* values, interchangeable for safety properties.                          *)
EXTENDS ReplicaCommit

CONSTANTS f1, f2, f3, f4, l1

\* A two-replica group: quorum() is 2, so the follower must hold an index.
TwoReplicas == {f1}
\* A five-replica group.
FiveReplicas == {f1, f2, f3, f4}

\* One learner catching up, or none.
OneLearner == {l1}
NoLearner == {}

FollowerSymmetry == Permutations(Follower)
=============================================================================
