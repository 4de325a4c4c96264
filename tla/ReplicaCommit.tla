--------------------------- MODULE ReplicaCommit ---------------------------
(***************************************************************************)
(* One replication group inside one term, with a fixed leader: how the     *)
(* leader learns how far each follower has replicated (Pong and SyncReq in *)
(* stepLeader), how it advances its commit index (updateLeaderCommitted-   *)
(* Index), and how followers pull logs and adopt the leader's commit index *)
(* (MsgPing / MsgSyncResp in stepFollower).  Elections, term changes and   *)
(* log conflicts are left to module Replica; here the question is only     *)
(* whether the leader's commit index is backed by a quorum of copies, and  *)
(* how learners pull logs without counting towards it until the leader     *)
(* asks for their promotion (AutoRoleSwith in stepLeader, stepLearner).    *)
(*                                                                         *)
(* Log entries of one term are identical on every node, so a log is its    *)
(* length and a SyncResp carries the index range of the logs it returns.   *)
(***************************************************************************)
EXTENDS Naturals, FiniteSets, TLC, ReplicaQuorum

CONSTANTS
    Follower,      \* the leader's replicas (r.replicas excludes the leader)
    MaxIndex,      \* bound on the number of proposals
    AckModeNone,   \* r.opts.AckMode == AckModeNone
    Learner,       \* the learners of the group, not in r.replicas
    LearnerToFollowerMinLogGap,  \* r.opts.LearnerToFollowerMinLogGap
    AutoRoleSwitch,              \* r.opts.AutoRoleSwith
    MigrateFromLeader            \* r.cfg.MigrateFrom == r.leader

VARIABLES
    lastLogIndex,      \* leader: replicaLog.lastLogIndex
    committedIndex,    \* leader: replicaLog.committedIndex
    lastSyncInfoMap,   \* leader: follower -> LastSyncIndex, keys present only
    followerLast,      \* follower or learner: replicaLog.lastLogIndex
    followerCommitted, \* follower: replicaLog.committedIndex
    syncing,           \* follower or learner: r.syncing
    roleSwitch,        \* learners the leader sent a role-switch message for
    msgs               \* messages in flight

vars == <<lastLogIndex, committedIndex, lastSyncInfoMap, followerLast,
          followerCommitted, syncing, roleSwitch, msgs>>

\* Every node that pulls logs from the leader.
Puller == Follower \cup Learner

Index == 0..MaxIndex

Msg ==
    [type : {"Ping"}, to : Puller, committed : Index]
    \cup [type : {"Pong"}, from : Puller]
    \cup [type : {"SyncReq"}, from : Puller, index : 1..MaxIndex + 1]
    \cup [type : {"SyncResp"}, to : Puller, first : 1..MaxIndex + 1,
          last : Index, committed : Index]

TypeOK ==
    /\ lastLogIndex \in Index
    /\ committedIndex \in Index
    /\ DOMAIN lastSyncInfoMap \subseteq Puller
    /\ \A g \in DOMAIN lastSyncInfoMap : lastSyncInfoMap[g] \in 0..MaxIndex + 1
    /\ followerLast \in [Puller -> Index]
    /\ followerCommitted \in [Follower -> Index]
    /\ syncing \in [Puller -> BOOLEAN]
    /\ roleSwitch \subseteq Learner
    /\ msgs \subseteq Msg

\* isSingleNode(): no replicas besides the leader.
IsSingleNode == Follower = {}

Init ==
    /\ lastLogIndex = 0
    /\ committedIndex = 0
    /\ lastSyncInfoMap = <<>>
    /\ followerLast = [g \in Puller |-> 0]
    /\ followerCommitted = [g \in Follower |-> 0]
    /\ syncing = [g \in Puller |-> FALSE]
    /\ roleSwitch = {}
    /\ msgs = {}

-----------------------------------------------------------------------------
(* Leader *)

\* stepLeader MsgPropose with appendLog: one log per proposal; a single
\* node or AckModeNone commits at once.
Propose ==
    /\ lastLogIndex < MaxIndex
    /\ lastLogIndex' = lastLogIndex + 1
    /\ committedIndex' =
         IF IsSingleNode \/ AckModeNone
         THEN CommittedIndexForLeader(Follower, lastSyncInfoMap,
                                      committedIndex, lastLogIndex + 1)
         ELSE committedIndex
    /\ UNCHANGED <<lastSyncInfoMap, followerLast, followerCommitted,
                   syncing, roleSwitch, msgs>>

\* stepLeader MsgBeat: sendPing to one follower, carrying the commit index.
\* Heartbeats are periodic; the model keeps one ping round per follower in
\* flight at a time.
PingInFlight(g) ==
    \E m \in msgs : (m.type = "Ping" /\ m.to = g) \/ (m.type = "Pong" /\ m.from = g)

SendPing(g) ==
    /\ ~PingInFlight(g)
    /\ msgs' = msgs \cup {[type |-> "Ping", to |-> g,
                           committed |-> committedIndex]}
    /\ UNCHANGED <<lastLogIndex, committedIndex, lastSyncInfoMap,
                   followerLast, followerCommitted, syncing, roleSwitch>>

\* stepLeader MsgPong: an unknown follower gets an empty SyncInfo.
RecvPong(m) ==
    /\ m.type = "Pong"
    /\ msgs' = msgs \ {m}
    /\ lastSyncInfoMap' =
         IF m.from \in DOMAIN lastSyncInfoMap
         THEN lastSyncInfoMap
         ELSE lastSyncInfoMap @@ (m.from :> 0)
    /\ UNCHANGED <<lastLogIndex, committedIndex, followerLast,
                   followerCommitted, syncing, roleSwitch>>

\* Fault variant: the gap is added on the leader's side.
LearnerCaughtUpPastGap(index) ==
    IF MigrateFromLeader
    THEN index >= lastLogIndex + 1
    ELSE index > lastLogIndex + LearnerToFollowerMinLogGap

\* The AutoRoleSwith test of stepLeader MsgSyncReq: a learner migrating
\* from the leader must have every log; otherwise it may trail the leader
\* by less than LearnerToFollowerMinLogGap.
LearnerCaughtUp(index) ==
    IF MigrateFromLeader
    THEN index >= lastLogIndex + 1
    ELSE index + LearnerToFollowerMinLogGap > lastLogIndex

\* stepLeader MsgSyncReq: answer with logs [m.index, k] (k short of the
\* last log when SyncLimitSize cuts the answer), or with no logs; then,
\* for a follower, record its position and recompute the commit index, and
\* for a caught-up learner send NewMsgLearnerToFollower/ToLeader.
RecvSyncReq(m) ==
    /\ m.type = "SyncReq"
    /\ \E k \in m.index..lastLogIndex \cup {m.index - 1} :
         /\ m.index <= lastLogIndex => k >= m.index
         /\ msgs' = (msgs \ {m}) \cup
                {[type |-> "SyncResp", to |-> m.from, first |-> m.index,
                  last |-> k, committed |-> committedIndex]}
    /\ IF m.from \in Learner
       THEN /\ roleSwitch' =
                 IF AutoRoleSwitch /\ LearnerCaughtUp(m.index)
                 THEN roleSwitch \cup {m.from} ELSE roleSwitch
            /\ UNCHANGED <<lastSyncInfoMap, committedIndex>>
       ELSE /\ lastSyncInfoMap' =
                 ReplicSyncInfo(lastSyncInfoMap, m.from, m.index)
            /\ committedIndex' = CommittedIndexForLeader(Follower,
                                     lastSyncInfoMap', committedIndex,
                                     lastLogIndex)
            /\ UNCHANGED roleSwitch
    /\ UNCHANGED <<lastLogIndex, followerLast, followerCommitted, syncing>>

-----------------------------------------------------------------------------
(* Followers *)

\* The follower's sync tick: one SyncReq for the next index at a time.
SendSyncReq(g) ==
    /\ ~syncing[g]
    /\ syncing' = [syncing EXCEPT ![g] = TRUE]
    /\ msgs' = msgs \cup {[type |-> "SyncReq", from |-> g,
                           index |-> followerLast[g] + 1]}
    /\ UNCHANGED <<lastLogIndex, committedIndex, lastSyncInfoMap,
                   followerLast, followerCommitted, roleSwitch>>

\* stepFollower MsgPing: answer with a Pong, adopt the leader's commit index.
RecvPing(m) ==
    /\ m.type = "Ping"
    /\ m.to \in Follower
    /\ msgs' = (msgs \ {m}) \cup {[type |-> "Pong", from |-> m.to]}
    /\ followerCommitted' = [followerCommitted EXCEPT ![m.to] =
         FollowCommittedIndex(m.committed, @, followerLast[m.to])]
    /\ UNCHANGED <<lastLogIndex, committedIndex, lastSyncInfoMap,
                   followerLast, syncing, roleSwitch>>

\* stepFollower MsgSyncResp: append the logs, adopt the commit index.
\* The single outstanding SyncReq means the panic branch (last log at or
\* below the local last index) cannot be taken here.
RecvSyncResp(m) ==
    /\ m.type = "SyncResp"
    /\ m.to \in Follower
    /\ LET g == m.to
           newLast == IF m.last >= m.first THEN m.last ELSE followerLast[g]
       IN  /\ m.last >= m.first => m.last > followerLast[g]
           /\ followerLast' = [followerLast EXCEPT ![g] = newLast]
           /\ followerCommitted' = [followerCommitted EXCEPT ![g] =
                FollowCommittedIndex(m.committed, @, newLast)]
           /\ syncing' = [syncing EXCEPT ![g] = FALSE]
    /\ msgs' = msgs \ {m}
    /\ UNCHANGED <<lastLogIndex, committedIndex, lastSyncInfoMap, roleSwitch>>

-----------------------------------------------------------------------------
(* Learners *)

\* stepLearner MsgPing: answer with a Pong; a learner keeps no commit index
\* from the leader.
LearnerRecvPing(m) ==
    /\ m.type = "Ping"
    /\ m.to \in Learner
    /\ msgs' = (msgs \ {m}) \cup {[type |-> "Pong", from |-> m.to]}
    /\ UNCHANGED <<lastLogIndex, committedIndex, lastSyncInfoMap,
                   followerLast, followerCommitted, syncing, roleSwitch>>

\* stepLearner MsgSyncResp: append the logs; unlike stepFollower, the
\* commit index is not adopted.
LearnerRecvSyncResp(m) ==
    /\ m.type = "SyncResp"
    /\ m.to \in Learner
    /\ m.last >= m.first => m.last > followerLast[m.to]
    /\ followerLast' = [followerLast EXCEPT ![m.to] =
                          IF m.last >= m.first THEN m.last ELSE @]
    /\ syncing' = [syncing EXCEPT ![m.to] = FALSE]
    /\ msgs' = msgs \ {m}
    /\ UNCHANGED <<lastLogIndex, committedIndex, lastSyncInfoMap,
                   followerCommitted, roleSwitch>>

Next ==
    \/ Propose
    \/ \E g \in Puller : SendPing(g) \/ SendSyncReq(g)
    \/ \E m \in msgs : RecvPong(m) \/ RecvSyncReq(m) \/ RecvPing(m)
                       \/ RecvSyncResp(m) \/ LearnerRecvPing(m)
                       \/ LearnerRecvSyncResp(m)

\* Followers and learners pull on every sync tick and each node drains its
\* queue, so every enabled message step and sync request is eventually
\* taken; the leader serves each puller's SyncReq, not only some puller's.
Fairness ==
    /\ \A g \in Puller :
          /\ WF_vars(SendSyncReq(g))
          /\ WF_vars(\E m \in msgs : m.type = "SyncReq" /\ m.from = g
                                      /\ RecvSyncReq(m))
    /\ WF_vars(\E m \in msgs : RecvSyncResp(m))
    /\ WF_vars(\E m \in msgs : LearnerRecvSyncResp(m))

Spec == Init /\ [][Next]_vars
FairSpec == Spec /\ Fairness

-----------------------------------------------------------------------------
(* Properties *)

\* What the followers really hold, as the leader's commit must reflect it.
QuorumHeld == ReferenceCommitted(Follower, followerLast, 0, lastLogIndex)

\* Commit soundness of committedIndexForLeader: the leader never commits an
\* index that fewer than a quorum of replicas (itself included) hold.  A
\* follower known only from a Pong has LastSyncIndex 0, and 0-1 wraps.
CommitBackedByQuorum == committedIndex <= QuorumHeld

\* The followers' positions as the leader knows them from lastSyncInfoMap
\* (LastSyncIndex - 1 entries each; a follower known only from a Pong, 0).
LeaderView(info) ==
    [g \in Follower |-> IF g \in DOMAIN info /\ info[g] > 0
                        THEN info[g] - 1 ELSE 0]

\* The spec's commit rule (4.1, commit advancement), checked at every
\* MsgSyncReq step: the new commit index is no lower than the greatest index
\* a quorum holds by lastSyncInfoMap.  committedIndexForLeader takes its
\* candidates from getMaxLogIndexLessThanParam, which compares LastSyncIndex
\* (a log index + 1) with the previous candidate (a log index).
CommitNotBehind ==
    [][\A m \in msgs : RecvSyncReq(m) =>
          committedIndex' >= ReferenceCommitted(Follower,
                                LeaderView(lastSyncInfoMap'),
                                committedIndex, lastLogIndex)]_vars

\* Every proposed log is eventually committed by the leader once the
\* followers keep pulling.
EveryLogCommitted ==
    \A i \in 1..MaxIndex : (lastLogIndex >= i) ~> (committedIndex >= i)

\* Learner promotion (AutoRoleSwith): a learner that keeps pulling is
\* eventually asked to become a follower (or the leader), however the
\* proposals interleave with its SyncReqs; the leader tests the learner's
\* position only when a SyncReq of it arrives.
LearnerEventuallySwitched ==
    AutoRoleSwitch => \A l \in Learner : <>(l \in roleSwitch)
=============================================================================
