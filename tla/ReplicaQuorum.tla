--------------------------- MODULE ReplicaQuorum ---------------------------
(***************************************************************************)
(* Pure operators of the replica commit rules in                           *)
(* pkg/cluster/replica/replica_step.go: the quorum size, the leader's      *)
(* commit-index search over lastSyncInfoMap, and the follower's commit     *)
(* update.  A Go map lastSyncInfoMap is a TLA+ function whose DOMAIN is    *)
(* the set of keys present; its value is SyncInfo.LastSyncIndex, the next  *)
(* index the follower asked for (its last log index + 1).                  *)
(***************************************************************************)
EXTENDS Naturals, FiniteSets, FiniteSetsExt, TLC

\* Bit width of the uint64 log indices.  Model indices stay far below
\* 2^UintWidth, so wrap-around happens exactly where it does in the code.
CONSTANT UintWidth

\* uint64 subtraction: 0 - 1 wraps to the largest value.
U64Sub(a, b) == (a - b) % (2 ^ UintWidth)

(* Fault variants of the operators below, each a plausible slip in the Go  *)
(* code; every property of a passing run is violated by one of them.       *)
QuorumOfHalf(replicas) == (Cardinality(replicas) + 1) \div 2
ReplicSyncInfoNextIndex(info, from, index) ==
    IF from \in DOMAIN info
    THEN [info EXCEPT ![from] = IF index + 1 > @ THEN index + 1 ELSE @]
    ELSE info @@ (from :> index + 1)
ReplicSyncInfoFirstOnly(info, from, index) ==
    IF from \in DOMAIN info THEN info ELSE info @@ (from :> index)

\* quorum(): replicas excludes the local node.
QuorumOf(replicas) == (Cardinality(replicas) + 1) \div 2 + 1

\* getMaxLogIndexLessThanParam: the largest LastSyncIndex below maxIndex
\* (any, when maxIndex = 0), minus one; 0 when there is none.
MaxLogIndexLessThan(syncInfo, maxIndex) ==
    LET below  == {g \in DOMAIN syncInfo : syncInfo[g] < maxIndex \/ maxIndex = 0}
        second == Max({syncInfo[g] : g \in below} \cup {0})
    IN  IF second > 0 THEN second - 1 ELSE second

\* The inner loop of committedIndexForLeader: the followers whose
\* LastSyncIndex-1 (uint64) reaches the candidate, plus the leader itself,
\* make a quorum.
CandidateHasQuorum(syncInfo, candidate, quorum) ==
    Cardinality({g \in DOMAIN syncInfo :
                    U64Sub(syncInfo[g], 1) >= candidate}) + 1 >= quorum

\* The outer for-loop of committedIndexForLeader.  It does not stop at the
\* first candidate with a quorum: every lower candidate above committed is
\* visited too and overwrites newCommitted.
RECURSIVE CommitSearch(_, _, _, _, _, _)
CommitSearch(syncInfo, maxLogIndex, newCommitted, committed, lastLogIndex, quorum) ==
    LET next == MaxLogIndexLessThan(syncInfo, maxLogIndex)
    IN  IF next = 0 \/ next <= committed
        THEN newCommitted
        ELSE CommitSearch(syncInfo, next,
                          IF next <= lastLogIndex
                             /\ CandidateHasQuorum(syncInfo, next, quorum)
                          THEN next ELSE newCommitted,
                          committed, lastLogIndex, quorum)

\* updateReplicSyncInfo: LastSyncIndex only grows; a new follower is added.
ReplicSyncInfo(info, from, index) ==
    IF from \in DOMAIN info
    THEN [info EXCEPT ![from] = IF index > @ THEN index ELSE @]
    ELSE info @@ (from :> index)

\* committedIndexForLeader
CommittedIndexForLeader(replicas, syncInfo, committed, lastLogIndex) ==
    LET quorum == QuorumOf(replicas)
    IN  IF quorum <= 1
        THEN lastLogIndex
        ELSE LET newCommitted == CommitSearch(syncInfo, 0, 0, committed,
                                              lastLogIndex, quorum)
             IN  IF newCommitted > committed
                 THEN Min({newCommitted, lastLogIndex})
                 ELSE committed

\* updateFollowCommittedIndex with committedIndexForFollow folded in.
FollowCommittedIndex(leaderCommitted, committed, lastLogIndex) ==
    IF leaderCommitted = 0 \/ leaderCommitted <= committed
    THEN committed
    ELSE Max({committed, Min({leaderCommitted, lastLogIndex})})

-----------------------------------------------------------------------------
(* Reference definition, from the spec: the commit index is the greatest   *)
(* i <= lastLogIndex held by a quorum of replicas (leader included), never *)
(* below the current commit index.  `held[g]` is the true number of       *)
(* entries follower g holds.                                               *)

ReferenceCommitted(replicas, held, committed, lastLogIndex) ==
    LET ok(i) == 2 * (Cardinality({g \in replicas : held[g] >= i}) + 1)
                   > Cardinality(replicas) + 1
    IN  Max({i \in committed..lastLogIndex : i = committed \/ ok(i)})
=============================================================================
