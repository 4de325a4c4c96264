------------------------------ MODULE Replica ------------------------------
(***************************************************************************)
(* One replication group (a slot or a channel) of pkg/cluster/replica:     *)
(* every node runs Replica.Step (replica_step.go) over its replicaLog      *)
(* (log.go).  Elections (MsgVoteReq / MsgVoteResp / poll), leader          *)
(* heartbeats (MsgPing / MsgPong), pull replication (MsgSyncReq /          *)
(* MsgSyncResp), commit advancement and the log conflict check are         *)
(* modelled over an unreliable network that loses and reorders messages.   *)
(*                                                                         *)
(* Each node's state is one record, so that a handler reads like the Go    *)
(* method: the term check at the top of Step may first turn the node into  *)
(* a follower, and the message is then handled on the resulting state.     *)
(* A log entry is its term: payloads are irrelevant to the properties and  *)
(* one leader per term proposes at most one entry per index.               *)
(*                                                                         *)
(* The role transitions (becomeFollower, becomeCandidate, becomeLeader),   *)
(* hup/campaign, sendPing, the tick-driven sync request and the leader's   *)
(* answer to a conflict check live outside replica_step.go; they follow    *)
(* the spec (section 4.1).                                                 *)
(***************************************************************************)
EXTENDS Naturals, Sequences, FiniteSets, TLC, ReplicaQuorum

CONSTANTS
    Node,           \* the replicas of the group
    None,           \* "no node" (replica.None)
    MaxTerm,        \* bound on elections
    MaxLogLen,      \* bound on proposals
    SyncRetry,      \* TRUE: a follower may give up on an unanswered SyncReq
    AckModeNone     \* r.opts.AckMode == AckModeNone

ASSUME None \notin Node

\* replica.NoConflict
NoConflict == 0

Follower  == "Follower"
Candidate == "Candidate"
Leader    == "Leader"
Ready            == "Ready"              \* StatusReady
LogConflictCheck == "LogConflictCheck"   \* StatusLogCoflictCheck

VARIABLES
    replica,   \* node -> its Replica state (record, see ReplicaState)
    halted,    \* nodes that hit r.Panic (the process stops)
    msgs       \* messages in flight

vars == <<replica, halted, msgs>>

Term  == 0..MaxTerm
Index == 0..MaxLogLen

ReplicaState ==
    [role : {Follower, Candidate, Leader},
     term : Term,
     voteFor : Node \cup {None},
     leader : Node \cup {None},
     log : Seq(1..MaxTerm),                 \* replicaLog: entry i has term log[i]
     committed : Index,                     \* replicaLog.committedIndex
     votes : UNION {[S -> BOOLEAN] : S \in SUBSET Node},
     syncInfo : UNION {[S -> 0..MaxLogLen + 1] : S \in SUBSET Node},
     syncing : BOOLEAN,
     status : {Ready, LogConflictCheck}]

TypeOK ==
    /\ replica \in [Node -> ReplicaState]
    /\ \A n \in Node : Len(replica[n].log) <= MaxLogLen
    /\ halted \subseteq Node

Init ==
    /\ replica = [n \in Node |->
                    [role |-> Follower, term |-> 0, voteFor |-> None,
                     leader |-> None, log |-> <<>>, committed |-> 0,
                     votes |-> <<>>, syncInfo |-> <<>>, syncing |-> FALSE,
                     status |-> Ready]]
    /\ halted = {}
    /\ msgs = {}

LastIndex(s) == Len(s.log)
Replicas(n) == Node \ {n}     \* r.replicas: the other members
\* isSingleNode()
IsSingleNodeOf(n) == Replicas(n) = {}

-----------------------------------------------------------------------------
(* Role transitions (replica.go, modelled from the spec).                  *)

\* becomeFollower: a new term clears the vote; a follower that learns its
\* leader with a non-empty log first checks its log for conflicts.
\* lastSyncInfoMap is only read by a leader and becomeLeader resets it, so
\* the model clears it on every other transition as well.
BecomeFollower(s, t, l) ==
    [s EXCEPT !.role = Follower,
              !.term = t,
              !.voteFor = IF t # s.term THEN None ELSE s.voteFor,
              !.leader = l,
              !.votes = <<>>,
              !.syncInfo = <<>>,
              !.status = IF l # None /\ Len(s.log) > 0
                         THEN LogConflictCheck ELSE Ready]

\* becomeCandidate with the vote for itself.
BecomeCandidate(s, n) ==
    [s EXCEPT !.role = Candidate, !.term = s.term + 1, !.voteFor = n,
              !.leader = None, !.votes = (n :> TRUE), !.syncInfo = <<>>,
              !.status = Ready]

BecomeLeader(s, n) ==
    [s EXCEPT !.role = Leader, !.leader = n, !.votes = <<>>,
              !.syncInfo = <<>>, !.status = Ready]

PingMsg(s, from, to) ==
    [type |-> "Ping", from |-> from, to |-> to, term |-> s.term,
     committed |-> s.committed]

-----------------------------------------------------------------------------
(* Handlers of replica_step.go.  Each returns the node's new state, the    *)
(* messages it sends, and whether it panicked.                             *)

Result(s, out) == [state |-> s, out |-> out, panic |-> FALSE]
Panic(s) == [state |-> s, out |-> {}, panic |-> TRUE]

\* Fault variant: a vote is granted whoever the node already voted for.
CanVoteAnyVote(s, m) ==
    /\ m.index >= LastIndex(s)
    /\ m.term >= s.term

\* Fault variant: the candidate's last index is not compared.
CanVoteAnyIndex(s, m) ==
    /\ s.voteFor = None \/ (s.voteFor = m.from /\ s.leader = None)
    /\ m.term >= s.term

\* canVote
CanVote(s, m) ==
    /\ s.voteFor = None \/ (s.voteFor = m.from /\ s.leader = None)
    /\ m.index >= LastIndex(s)
    /\ m.term >= s.term

VoteResp(m, reject) ==
    [type |-> "VoteResp", from |-> m.to, to |-> m.from, term |-> m.term,
     reject |-> reject]

\* Step, case MsgVoteReq (taken in every role).
HandleVoteReq(s, m) ==
    IF CanVote(s, m)
    THEN Result([s EXCEPT !.voteFor = m.from], {VoteResp(m, FALSE)})
    ELSE Result(s, {VoteResp(m, TRUE)})

\* poll: count the answers; a quorum of answers decides the election.
Poll(s, n, m) ==
    LET votes   == [g \in DOMAIN s.votes \cup {m.from} |->
                      IF g = m.from THEN ~m.reject ELSE s.votes[g]]
        granted == Cardinality({g \in DOMAIN votes : votes[g]})
        quorum  == QuorumOf(Replicas(n))
        s1      == [s EXCEPT !.votes = votes]
    IN  IF Cardinality(DOMAIN votes) < quorum
        THEN Result(s1, {})
        ELSE IF granted >= quorum
             THEN LET l == BecomeLeader(s1, n)
                  IN  Result(l, {PingMsg(l, n, g) : g \in Replicas(n)})
             ELSE Result(BecomeFollower(s1, s1.term, None), {})

\* appendLog (replica_step.go) with replicaLog.appendLog (log.go): the
\* continuity check and the check against the commit index are panics.
AppendLog(s, first, entries) ==
    IF first # LastIndex(s) + 1 \/ first < s.committed
    THEN Panic(s)
    ELSE Result([s EXCEPT !.log = s.log \o entries], {})

\* stepLeader, MsgPropose: append one entry of the current term; a single
\* node or AckModeNone commits at once.
HandlePropose(s, n) ==
    LET r == AppendLog(s, LastIndex(s) + 1, <<s.term>>)
        t == r.state
    IN  IF IsSingleNodeOf(n) \/ AckModeNone
        THEN [r EXCEPT !.state.committed =
                CommittedIndexForLeader(Replicas(n), t.syncInfo, t.committed,
                                        LastIndex(t))]
        ELSE r

\* stepLeader, MsgPong addressed to this node in its term.
HandlePong(s, n, m) ==
    IF m.to # n \/ m.term # s.term
    THEN Result(s, {})
    ELSE Result(IF m.from \in DOMAIN s.syncInfo THEN s
                ELSE [s EXCEPT !.syncInfo = s.syncInfo @@ (m.from :> 0)], {})

SyncResp(s, m, first, entries) ==
    [type |-> "SyncResp", from |-> m.to, to |-> m.from, term |-> s.term,
     index |-> first, logs |-> entries, committed |-> s.committed]

\* stepLeader, MsgSyncReq: answer with the logs from m.index on (a prefix
\* when SyncLimitSize cuts them; the SyncGet detour through storage
\* returns the same logs), record the follower's position and recompute the
\* commit index.  `k` is the last index the answer carries.
HandleSyncReq(s, n, m, k) ==
    LET entries == IF m.index <= LastIndex(s) THEN SubSeq(s.log, m.index, k)
                   ELSE <<>>
        info    == ReplicSyncInfo(s.syncInfo, m.from, m.index)
        s1      == [s EXCEPT !.syncInfo = info,
                             !.committed = CommittedIndexForLeader(
                                 Replicas(n), info, s.committed, LastIndex(s))]
    IN  Result(s1, {SyncResp(s, m, m.index, entries)})

\* The answer sizes a leader may choose for a SyncReq.
SyncCuts(s, m) ==
    IF m.index <= LastIndex(s) THEN m.index..LastIndex(s) ELSE {m.index - 1}

\* stepFollower, MsgPing.
HandlePingFollower(s, m) ==
    LET s1 == IF s.leader = None THEN BecomeFollower(s, m.term, m.from) ELSE s
    IN  Result([s1 EXCEPT !.committed =
                    FollowCommittedIndex(m.committed, s1.committed, LastIndex(s1))],
               {[type |-> "Pong", from |-> m.to, to |-> m.from, term |-> s1.term]})

\* stepCandidate, MsgPing.
HandlePingCandidate(s, m) ==
    LET s1 == BecomeFollower(s, m.term, m.from)
    IN  Result(s1, {[type |-> "Pong", from |-> m.to, to |-> m.from,
                     term |-> s1.term]})

\* stepFollower, MsgSyncResp: logs that end at or below the local last
\* index are a panic; otherwise append and adopt the leader's commit index.
HandleSyncRespFollower(s, m) ==
    LET s1 == [s EXCEPT !.syncing = FALSE]
        withCommit(t) ==
            [t EXCEPT !.committed =
                FollowCommittedIndex(m.committed, t.committed, LastIndex(t))]
    IN  IF m.logs = <<>>
        THEN Result(withCommit(s1), {})
        ELSE IF m.index + Len(m.logs) - 1 <= LastIndex(s1)
        THEN Panic(s1)
        ELSE LET r == AppendLog(s1, m.index, m.logs)
             IN  IF r.panic THEN r ELSE Result(withCommit(r.state), {})

\* replicaLog.updateLastIndex: the log ends at `last` (the unstable slice is
\* truncated there) and the commit index is pulled down to it.
UpdateLastIndex(s, last) ==
    [s EXCEPT !.log = SubSeq(s.log, 1, last),
              !.committed = IF s.committed > last THEN last ELSE s.committed]

\* stepFollower, MsgLogConflictCheckResp: truncate to m.index - 1.
HandleConflictResp(s, m) ==
    LET s1 == [s EXCEPT !.status = Ready]
    IN  IF m.index # NoConflict /\ m.index > 0
        THEN Result(UpdateLastIndex(s1, m.index - 1), {})
        ELSE Result(s1, {})

\* The leader's answer to a conflict check (spec_modelled): the first index
\* at which the follower's log differs from the leader's, or NoConflict.
ConflictIndex(leaderLog, followerLog) ==
    LET diff == {i \in 1..Len(followerLog) :
                    i > Len(leaderLog) \/ leaderLog[i] # followerLog[i]}
    IN  IF diff = {} THEN NoConflict ELSE Min(diff)

HandleConflictReq(s, m) ==
    Result(s, {[type |-> "ConflictResp", from |-> m.to, to |-> m.from,
                term |-> s.term, index |-> ConflictIndex(s.log, m.logs)]})

\* Step: the term check, then the message switch and the role's stepFunc.
\* Ping and SyncResp from a higher term name their sender as leader.
StepTerm(s, m) ==
    IF m.term > s.term
    THEN BecomeFollower(s, m.term,
                        IF m.type \in {"Ping", "SyncResp"} THEN m.from ELSE None)
    ELSE s

Handle(s, n, m, k) ==
    CASE m.type = "VoteReq" -> HandleVoteReq(s, m)
      [] s.role = Leader /\ m.type = "Pong" -> HandlePong(s, n, m)
      [] s.role = Leader /\ m.type = "SyncReq" -> HandleSyncReq(s, n, m, k)
      [] s.role = Leader /\ m.type = "ConflictReq" -> HandleConflictReq(s, m)
      [] s.role = Follower /\ m.type = "Ping" -> HandlePingFollower(s, m)
      [] s.role = Follower /\ m.type = "SyncResp" -> HandleSyncRespFollower(s, m)
      [] s.role = Follower /\ m.type = "ConflictResp" -> HandleConflictResp(s, m)
      [] s.role = Candidate /\ m.type = "Ping" -> HandlePingCandidate(s, m)
      [] s.role = Candidate /\ m.type = "VoteResp" -> Poll(s, n, m)
      [] OTHER -> Result(s, {})

-----------------------------------------------------------------------------
(* Actions *)

Live(n) == n \notin halted

\* Apply a handler result to node n; the message m is consumed.
Apply(n, m, r) ==
    /\ replica' = [replica EXCEPT ![n] = r.state]
    /\ halted' = IF r.panic THEN halted \cup {n} ELSE halted
    /\ msgs' = (msgs \ m) \cup r.out

\* Replica.Step on a message from the network.  Messages of a lower term are
\* dropped.  `k` is the cut of a SyncResp when m is a SyncReq.
Receive(n, m) ==
    /\ m.to = n
    /\ Live(n)
    /\ IF m.term < replica[n].term
       THEN /\ msgs' = msgs \ {m}
            /\ UNCHANGED <<replica, halted>>
       ELSE LET s == StepTerm(replica[n], m)
            IN  \E k \in IF s.role = Leader /\ m.type = "SyncReq"
                          THEN SyncCuts(s, m) ELSE {0} :
                   Apply(n, {m}, Handle(s, n, m, k))

\* MsgPropose at the leader (a local message).
Propose(n) ==
    /\ Live(n)
    /\ replica[n].role = Leader
    /\ LastIndex(replica[n]) < MaxLogLen
    /\ Apply(n, {}, HandlePropose(replica[n], n))

\* Election timeout of a follower: hup, campaign for the next term.
Campaign(n) ==
    /\ Live(n)
    /\ replica[n].role = Follower
    /\ replica[n].term < MaxTerm
    /\ LET s == BecomeCandidate(replica[n], n)
       IN  Apply(n, {}, Result(s,
              {[type |-> "VoteReq", from |-> n, to |-> g, term |-> s.term,
                index |-> LastIndex(s)] : g \in Replicas(n)}))

\* A candidate without a quorum by its timeout reverts to follower.
CandidateTimeout(n) ==
    /\ Live(n)
    /\ replica[n].role = Candidate
    /\ Apply(n, {}, Result(BecomeFollower(replica[n], replica[n].term, None), {}))

\* MsgBeat: the leader pings one replica; one ping round per pair in flight.
Heartbeat(n, g) ==
    /\ Live(n)
    /\ replica[n].role = Leader
    /\ g \in Replicas(n)
    /\ ~\E m \in msgs : m.type \in {"Ping", "Pong"} /\ {m.from, m.to} = {n, g}
    /\ Apply(n, {}, Result(replica[n], {PingMsg(replica[n], n, g)}))

\* The follower's sync tick: pull from the leader once its log is checked.
SendSyncReq(n) ==
    LET s == replica[n]
    IN  /\ Live(n)
        /\ s.role = Follower /\ s.leader # None
        /\ s.status = Ready /\ ~s.syncing
        /\ Apply(n, {}, Result([s EXCEPT !.syncing = TRUE],
              {[type |-> "SyncReq", from |-> n, to |-> s.leader, term |-> s.term,
                index |-> LastIndex(s) + 1]}))

\* An unanswered SyncReq times out and may be sent again.
SyncTimeout(n) ==
    /\ SyncRetry
    /\ Live(n)
    /\ replica[n].syncing
    /\ Apply(n, {}, Result([replica[n] EXCEPT !.syncing = FALSE], {}))

\* A follower in LogConflictCheck asks its leader where the logs diverge.
SendConflictReq(n) ==
    LET s == replica[n]
    IN  /\ Live(n)
        /\ s.role = Follower /\ s.leader # None
        /\ s.status = LogConflictCheck
        /\ ~\E m \in msgs : m.type \in {"ConflictReq", "ConflictResp"} /\ n \in {m.from, m.to}
        /\ Apply(n, {}, Result(s,
              {[type |-> "ConflictReq", from |-> n, to |-> s.leader,
                term |-> s.term, logs |-> s.log]}))

\* The network loses a message.
Lose(m) ==
    /\ msgs' = msgs \ {m}
    /\ UNCHANGED <<replica, halted>>

Next ==
    \/ \E n \in Node :
          \/ Propose(n) \/ Campaign(n) \/ CandidateTimeout(n)
          \/ SendSyncReq(n) \/ SyncTimeout(n) \/ SendConflictReq(n)
          \/ \E g \in Node : Heartbeat(n, g)
    \/ \E m \in msgs : Receive(m.to, m) \/ Lose(m)

Spec == Init /\ [][Next]_vars

-----------------------------------------------------------------------------
(* Properties *)

\* Election safety (spec 8): at most one leader is elected in a term.  It
\* rests on canVote granting one vote per term and on poll's quorum.
ElectionSafety ==
    \A i, j \in Node :
        replica[i].role = Leader /\ replica[j].role = Leader
        /\ replica[i].term = replica[j].term => i = j

\* Committed logs agree (spec 3, replication group): two nodes never hold
\* different entries at an index both have committed.
CommittedLogsAgree ==
    \A i, j \in Node :
        \A x \in 1..Min({replica[i].committed, replica[j].committed}) :
            replica[i].log[x] = replica[j].log[x]

\* Leader commit soundness across elections (spec 3, commit advancement):
\* every entry a leader counts as committed (committedIndexForLeader over
\* lastSyncInfoMap) is held, with the same term, by a majority of replicas.
\* Stale terms, lost SyncResps and followers known only from a Pong all
\* feed lastSyncInfoMap.
HoldsPrefix(n, l) ==
    /\ Len(replica[n].log) >= replica[l].committed
    /\ SubSeq(replica[n].log, 1, replica[l].committed)
         = SubSeq(replica[l].log, 1, replica[l].committed)

LeaderCommittedHeldByQuorum ==
    \A l \in Node :
        replica[l].role = Leader /\ l \notin halted =>
            2 * Cardinality({n \in Node : HoldsPrefix(n, l)}) > Cardinality(Node)

\* No replica panics (spec 4.1: a SyncResp whose logs are not past the local
\* log is rejected, not fatal).  stepFollower panics on it instead.
NoPanic == halted = {}
\* Leader completeness (spec 4.1, election): a leader of a later term holds
\* every entry a leader of an earlier term has counted as committed.  It
\* rests on canVote refusing a candidate whose log is behind the voter's;
\* canVote compares only the last index, not the last term.
LeaderCompleteness ==
    \A i, j \in Node :
        /\ replica[i].role = Leader /\ replica[j].role = Leader
        /\ replica[i].term < replica[j].term
        => /\ Len(replica[j].log) >= replica[i].committed
           /\ SubSeq(replica[j].log, 1, replica[i].committed)
                = SubSeq(replica[i].log, 1, replica[i].committed)
=============================================================================
