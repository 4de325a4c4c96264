# TLA+ models of WuKongIM

This directory holds TLA+ models of the WuKongIM sources under `src/`. The
models are checked with TLC. `PROJECT.json` lists the components, the runs,
the map from each definition to the Go lines it models, the findings, and the
hazards.

## 1. Inventory

| Component | Source | State it keeps | Operations | Interacts with |
|---|---|---|---|---|
| Replica state machine | `pkg/cluster/replica/replica_step.go` | role, term, voteFor, leader, votes, lastSyncInfoMap (follower → LastSyncIndex), syncing, status (Ready / LogConflictCheck), uncommittedSize | `Step` (term check, VoteReq, StoreAppendResp, ApplyLogsResp, ConfigResp, ChangeRole), `stepLeader` (Propose, Beat, Pong, SyncReq, SyncGetResp), `stepFollower` (Ping, LogConflictCheckResp, SyncResp), `stepLearner`, `stepCandidate` (Ping, VoteResp), `poll`, `appendLog`, commit updates, `canVote` | other replicas (messages); storage and apply layer (local messages) |
| Replica log | `pkg/cluster/replica/log.go` | lastLogIndex, committedIndex, storaging/storaged, applying/applied indices, unstable slice | `appendLog`, `updateLastIndex` (truncate and clamp commit), `storagedTo`, `appliedTo`, `getLogsFromUnstable` | replica state machine |
| User handler | `internal/server/user.go` | role leader/proxy, leader id, status, four queues (auth, ping, recvack, recv-fanout) with processing cursors, conns, conn node ids, per-node pong-timeout ticks | `becomeLeader`, `becomeProxy`, `reset`, `tick` (leader and proxy), `ready`, conn add and remove, UserAction codec | user reactor, cluster routes |
| Cluster routes (server2) | `internal/server2/server_cluster.go` | none of its own | channel forward, forward sendack, conn write, user action, auth result | user handler, channel reactor |
| Channel listener | `pkg/cluster/cluster/channel_listener.go` | channel set, ready queue, readyCh (capacity 1000) | `Add`, `Remove`, `Wait`, `loopEvent` (ready detection, removal of inactive channels) | channel replicas |
| Conversation store | `pkg/wkdb/conversation.go` | conversations per uid, channel index, updated-at index, global conversation count | `AddOrUpdateConversations`, `DeleteConversation(s)`, queries | pebble batches |
| Migrate task | `internal/server/task_migrate.go` | step/stepFnc, stop, currentTryCount, lastErr; the legacy data written to the store | `Run`, `stepMessageImport`, `stepUserImport`, `stepChannelImport`, `importMessage` | old-version HTTP API, wkdb |
| Options, generated code, HTTP API | `internal/server/options.go`, `pkg/cluster/reactor/options.go`, `internal/logicclient/proto.pb.go`, `pkg/cluster/clusterserver/server_api.go` | configuration | loading and defaults | none (not modelled) |

### What makes each component hard

- **Replica**:
  - messages are lost, reordered and delivered late;
  - elections happen concurrently;
  - followers pull logs, so what the leader knows of them is stale;
  - commit arithmetic uses uint64;
  - a deposed leader rejoins with a divergent log;
  - a sync request is retried;
  - several invariant checks in the code are panics.
- **User handler**:
  - a role change resets the queues;
  - tick-driven timeouts;
  - proxy and leader disagree about the leader.
- **Conversation store**:
  - reads from the committed DB while a batch is pending;
  - a counter updated outside the batch;
  - concurrent callers.
- **Migrate task**:
  - restart of a failed step;
  - an unbounded retry loop;
  - a shared error written by concurrent goroutines.

### The properties each component needs

- **Replica**:
  - at most one leader per term;
  - a committed entry is held by a quorum;
  - committed entries never differ between nodes and are never truncated;
  - the commit index is never behind the greatest quorum-held index;
  - every proposal is eventually committed;
  - no panic on legal message orders.
- **User handler**:
  - whenever `hasReady` says a handler is ready, `ready()` hands out work;
  - every queued receive message is eventually delivered, across a role
    change;
  - a silent proxy node is eventually timed out, and never before
    `UserNodePongTimeoutTick` silent ticks.
- **Conversation store**:
  - one conversation per (uid, channel);
  - the count equals the number of conversations;
  - the channel index and the rows agree;
  - the queries return exactly the committed conversations.
- **Channel listener**:
  - `Wait` never blocks while a Ready is queued and no wake-up token is
    on the way;
  - every Ready that `loopEvent` takes is eventually handed to the reactor.
- **Migrate task**:
  - a step is left, and the task reports completed, only with all of its
    legacy data in the store;
  - the task ends once failures stop.

## 2. Plan

The modules are listed in the order they were built. The most important
behaviour, the replica group's safety, comes first.

1. `ReplicaQuorum`: pure operators (`quorum`, the leader's commit search,
   the follower's commit update, `updateReplicSyncInfo`) and a reference
   definition of the commit index. **Done.**
2. `ReplicaCommit`: one leader in a fixed term, the followers and learners
   pulling. It isolates the commit rule and the learner's promotion test.
   **Done.**
3. `Replica`: the whole group. It covers elections, heartbeats, sync, sync
   retry and the conflict check over a lossy network. **Done**, without
   learners.
4. `UserHandler`: one user's handler on the node that runs it. **Done**,
   without the UserAction codec.
5. `Conversation`: one user's conversation table in wkdb. **Done** for the
   write path and the id and channel read paths; `GetLastConversations`
   and the type and keyword queries are not modelled.
6. `MigrateTask`: the import from a legacy server. **Done.**
7. `ChannelListener`: `loopEvent` and `Wait`. **Done**; the channel and
   its callers are modelled from the spec.
8. Still open:
   - learners in `Replica` (they are in `ReplicaCommit`), and the
     storage/apply cursors;
   - a run for the listener's removal race (below);
   - an abstract replicated log (one growing committed sequence), which
     `Replica` is to refine with `INSTANCE ... WITH` once the divergences
     found below are separated into their own configurations.

## 3. Modules and their correspondence to the code

### ReplicaQuorum

A Go map `lastSyncInfoMap` is a function whose DOMAIN is the set of keys
present.

- `CommitSearch` is the `for` loop of `committedIndexForLeader`. It is
  RECURSIVE and visits every candidate index. Each candidate comes from
  `MaxLogIndexLessThan`, the closure `getMaxLogIndexLessThanParam`, with
  its comparison of a LastSyncIndex against a log index kept as written.
- `ReferenceCommitted` is the spec's rule (4.1): the greatest index a
  quorum holds. `CommitNotBehind` compares the two.
- `U64Sub` keeps the uint64 wrap of `LastSyncIndex-1`. The width is
  `UintWidth = 16`, which is far above any model index.

### ReplicaCommit

The variables are the leader's `lastLogIndex`, `committedIndex` and
`lastSyncInfoMap`, each follower's last index, commit index and `syncing`
flag, each learner's last index and `syncing` flag, and `roleSwitch`, the
learners the leader has sent `NewMsgLearnerToFollower` (or `ToLeader`) for.
Messages are Ping, Pong, SyncReq and SyncResp.

Entries of one term are identical, so a log is its length. Each of these
actions is the whole `stepLeader` or `stepFollower` case:

- `RecvSyncReq` (answer; for a follower `updateReplicSyncInfo` and
  `updateLeaderCommittedIndex`; for a learner the `AutoRoleSwith` test,
  `LearnerCaughtUp`);
- `RecvPong`, which adds any sender, a learner too, to `lastSyncInfoMap`;
- `RecvPing` and `RecvSyncResp` of `stepFollower`;
- `LearnerRecvPing` and `LearnerRecvSyncResp` of `stepLearner`, which
  append but, unlike `stepFollower`, never adopt the leader's commit index.

### Replica

Each node's state is one record. The handlers are operators from a state
and a message to `[state, out, panic]`, in the order Go runs them:

1. `StepTerm` is the term check at the top of `Step`.
2. `Handle` is the message switch and the role's `stepFunc`.

`Receive` applies both to a message from the network. A panic adds the
node to `halted`; it takes no further steps.

Some definitions follow the spec, because their code is not under `src/`.
They are marked `spec_modelled` in the map:

- the role transitions;
- hup/campaign;
- `sendPing`;
- the sync tick and its retry;
- the leader's answer to a conflict check.

### UserHandler

The handler's fields (role, leader id, status, the four queues with their
`lastIndex`/`processedIndex`/in-progress flags, conns, the per-node pong
ticks and the tick counters) are one record `u`. The queues keep only their
cursors; messages are not needed by the properties.

- `HasReady` and `ReadyStep` are `hasReady` and `ready()`. The actions a
  `ready()` hands out go to `inflight`; `Complete(a)` is their result
  coming back (batch done, init, leader check, node ping, proxy timeout,
  close). Results are modelled from the spec, since the reactor is not
  under `src/`.
- `Tick` is `tick`: `TickLeader` and `TickProxy`, with the node pong
  counters and `TimedOutNodes`.
- `Reset` is `reset()` after `becomeLeader` and `becomeProxy`. The queue
  reset (`ResetIndex`) is not under `src/`. Following spec 4.3, it keeps
  the receive queue's cursor; for the other queues it either keeps the
  cursor or moves it to the end.
- `AddConn`, `RemoveConn` and `RecvNodePing` are the conn operations and a
  ping from a proxy node.
- `silent` is a history variable: the ticks since the node's last pong.

### Conversation

A pebble batch is a sequence of write records, applied in order by the
RECURSIVE `ApplyBatch` at `Commit`. The ids looked up and the rows read
while the batch is built come from the committed state; the count is
changed before the batch commits, as in the code.

- `Start(c)` enters `AddOrUpdateConversations` or `DeleteConversation(s)`.
- `AddOne(c)` is one conversation of `AddOrUpdateConversations`:
  `getConversationByChannel`, a new id when there is none, and
  `writeConversation` with its two `time.Now()` readings.
- `Inc(c)` is `IncConversationCount(createCount)`.
- `DelOne(c)` is `deleteConversation`, with its early return for an unknown
  channel.
- `Commit(c)` is `batch.Commit`.

The read paths are operators over the committed state:

- `IterCols` is `iterateConversation`. It runs over the column keys in key
  order (`ColumnKeys`), groups them by id, hands each group to `iterFnc`,
  and hands over the last group after the loop.
- `GetConversations`, `getConversation` and `GetConversation` are built on
  `IterCols`.

`ReadsReturnEveryRow` compares these operators with a reference definition
(`RankedRows`), which ranks the rows by id.

The updatedAt index is written (`WriteIndexWrites`, `DelUpdWrites`) but no
property reads it. Its two `time.Now()` readings make it inexact even with
one caller (see section 5).

### ChannelListener

`loopEvent` is modelled one channel at a time:

- `Scan(c)` is one visit of `channels.foreach`:
  - a destroyed channel is skipped;
  - a channel with work has its Ready taken and appended to
    `readyChannels`, and `ppc` moves to "send";
  - an inactive channel without work is removed.
- `SendToken` is `readyCh <- struct{}{}`. It blocks while `tokens = Cap`.

For `Wait`:

- `WaitCall` pops at once if a Ready is queued, and takes no token.
  Otherwise it blocks.
- `WaitWoken` takes a token, then pops a Ready, or returns an empty one.

The channel is not under `src/`: `HasReady`, `Propose`, `Age` and `Destroy`
come from the spec (section 8, open question b), and so does the caller that
re-adds a channel before it proposes (`AddIfAbsent`). `taken` and
`delivered` are history variables.

### MigrateTask

The task's fields (`currentStep`/`stepFnc`, `stop`, `currentTryCount`,
`lastErr`) are variables; `pc` says where `run()` is: fetching a list,
waiting for the errgroup, waiting for the ticker, or returned. `gr` holds
the errgroup's goroutines and their results, `seq` each topic goroutine's
`startMessageSeq` counted in pages. The store keeps the message pages and
the parts of each user and channel that were written.

- `FetchTopics`, `FetchUsers` and `FetchChannels` are the fetches at the
  start of the three steps; `FetchFailed` is their error return.
- `ImportPage(t)` is one round of `importMessage`'s loop, with the
  `continue` after a failed `AppendMessages`.
- `ImportUser(x)` and `ImportChannel(x)` are `importUser` and
  `importChannel`: ordered writes that may stop at the first error.
- `WaitTopics`, `WaitUsers` and `WaitChannels` are `requestGroup.Wait()`
  and what follows: the next slot, the error return, or the end of the
  step (`StepOver`).
- `Tick` is the ticker in `run()`, with its loop condition `!m.stop`.
- `Restart` is a process restart: `Run` again. `IsMigrated` is always
  false, because no code under `src/` writes the marker.
- `Status` is `GetMigrateResult`'s status.

## 4. Runs

| Run | Config | Result | Shows |
|---|---|---|---|
| commit_learner | `ReplicaCommitLearner.cfg` | pass (39k states) | With 2 replicas, 1 learner and 2 proposals, under fair pulling: every proposal is eventually committed (`EveryLogCommitted`), and the learner is eventually asked to become a follower (`LearnerEventuallySwitched`). |
| commit_overcommit_5 | `ReplicaCommit5Overcommit.cfg` | violation | With 5 replicas, a follower known only from a Pong (LastSyncIndex 0) wraps `0-1`. The leader commits index 1 when 2 of 5 hold it. |
| commit_lag_5 | `ReplicaCommit5Lag.cfg` | violation | With 5 replicas and 2 proposals, the followers are at LastSyncIndex 2 and 3. `getMaxLogIndexLessThanParam` compares LastSyncIndex with a log index and skips candidate 1. Index 1, held by 3 of 5, stays uncommitted (`CommitNotBehind`, depth 13). |
| replica_election | `ReplicaElection.cfg` | pass (590k states) | Covers 3 nodes, 2 terms, 1 entry per leader, loss and sync retry. There is at most one leader per term (`ElectionSafety`). |
| replica_follower_commit | `ReplicaLogsAgree.cfg` | violation | A deposed leader gets the new leader's Ping. It adopts the commit index over its own divergent entry before its conflict check, so two nodes hold different committed entries at index 1. |
| replica_sync_panic | `ReplicaSyncPanic.cfg` | violation | The sync request is retried and both answers arrive. The follower panics on the second; spec 4.1 says it should reject it. |
| replica_canvote | `ReplicaCanVote.cfg` | violation | Uses the election configuration with a third term. n3 commits its term-2 entry at index 1 with n2. n1 holds a term-1 entry at index 1. `canVote` compares indexes only, so n2 votes for n1, and n1 leads term 3 without the committed entry. A conflict check would then truncate it on the followers. |
| user_handler | `UserHandler.cfg` | pass (65k states, about 3 min) | One device connects through the other node, one receive message is queued, and there is one role change. `hasReady` never reports a handler ready when `ready()` would hand out nothing. Under a fair reactor, every queued receive message is delivered unless the handler is closed, across batch results that arrive after the reset. A proxy node that stops answering is timed out. |
| conv_indexes | `Conversation.cfg` | pass (56k states) | One caller makes five add/delete calls, and the clock may move between the two `time.Now()` readings of a write. The count, the channel index and the rows agree. `GetConversations` and `GetConversation` return exactly the committed rows. |
| conv_concurrent_create | `ConversationConcurrent.cfg` | violation | Two concurrent `AddOrUpdateConversations` for a new channel both find no id and create two rows. One caller passing the same channel twice does the same. |
| migrate | `Migrate.cfg` | pass (8k states) | Covers failed fetches, failed appends, partial imports, retries from slot 0 and restarts. A step is only left, and the task only reports completed, with all of its data in the store. The task ends once failures stop. |
| channel_listener | `ChannelListener.cfg` | pass (141k states) | Covers 2 channels, 3 proposals and `readyCh` of capacity 2. `Wait` never blocks on a queued Ready with no token on the way, even when `readyCh` is full. Every Ready taken is eventually delivered. |

### Bounds

- `ReplicaCommit` uses `MaxIndex = 2`:
  - 1 follower and 1 learner in `commit_learner` (4 followers in the
    5-replica runs, with `MaxIndex = 1` and `2`);
  - one ping round per follower or learner in flight;
  - `LearnerToFollowerMinLogGap = 1`, not migrating from the leader.

  A third puller multiplies the state space: 3 followers and a learner
  give more than 1.2M states and the liveness check does not end in 30
  minutes. So the learner run has a 2-replica group, and it checks only
  liveness. With one follower the commit rule has a single candidate, so
  no commit-rule invariant is checked there.

  The commit rule is checked at 5 replicas, where it goes wrong. At 3
  replicas the highest candidate always has a quorum: the leader and the
  follower that reported it. A lower candidate never overwrites it, and
  no candidate is skipped.
- `Replica` uses three nodes, `MaxTerm = 2`, `MaxLogLen = 1` and at most 2
  messages in flight (`NetworkBound`):
  - The bounds are enough for two candidates in one term (with loss) and for
    a deposed leader with a divergent entry.
  - They are also enough for a retried sync and a panic.
  - Each larger bound (3 terms, or 2 entries) gives more than 3M states, so
    the pass run cannot explore it exhaustively. `replica_canvote` uses
    `MaxTerm = 3`. It only has to reach the violation, which TLC finds at
    depth 26 after 360k states (about 25 s).
  - Two terms are too few for the `canVote` flaw. A voter that holds an
    entry of term 2 has to meet a candidate whose entry is of term 1, and
    that candidate must then win term 3.
- Symmetry over the node and follower model values is used. None of the
  properties names a particular node.
- The `Replica` runs set `CHECK_DEADLOCK FALSE`. With terms bounded, a group
  whose nodes all reached `MaxTerm` without a leader has nothing left to do.
  The unbounded code would campaign again.
- `UserHandler` uses the node itself and one other node, one device that
  connects through the other node, and one receive message
  (`MaxQueued = 1`). It allows one role change. The tick thresholds are 1
  to 3, enough for a ping, a pong timeout and a leader check to fall due.
  Only the receive queue is fed: with any other queue also fed, the
  liveness check runs for more than 15 minutes.
  - One message is enough for the hazard: a Recv batch is out when the role
    changes, and its result comes back after the reset.
  - With a device, the handler is not closed by `tickLeader` at once, so
    the message is delivered in most behaviours. It is not removed with
    the handler before anything happens.

  `MaxInFlight` caps the actions in flight. It is at least what one
  `ready()` hands out, so it never blocks a ready handler.
- `Conversation` uses two channels, up to 5 calls of one or two
  conversations, ids up to 4 and a clock up to 3. The clock may advance
  between the two `time.Now()` readings of a write. The clock is bounded, so
  the runs set `CHECK_DEADLOCK FALSE`: the process has stopped once all
  calls are made.
- `ChannelListener` uses two channels, three proposals and `Cap = 2` for
  `readyCh`'s 1000:
  - three Readys can fill `readyCh` and block `loopEvent`;
  - a proposal can go to a channel that has been aged, removed or
    destroyed.
- `MigrateTask` uses two slots: one with two topics (2 pages and 1 page),
  one with a topic `importMessage` skips. It has one user and one channel,
  at most 3 failures and 2 restarts. That is enough for a failure in a
  later slot after an earlier one was imported, a failed append in the
  middle of a topic, a partial user import, and a restart after completion.

### Fairness

`FairSpec` of `ReplicaCommit` has weak fairness on these steps:

- each follower's and learner's sync request;
- the leader's handling of each puller's SyncReq; fairness on handling
  some SyncReq is not enough, because the leader could then serve the
  follower forever and never the learner;
- a follower's and a learner's handling of SyncResp.

The code justifies it: the sync tick fires periodically while `syncing` is
false, and every replica's reactor drains its inbox.

Message loss is not part of `ReplicaCommit`, so the liveness property
assumes a reliable transport for the current leader.

`FairSpec` of `UserHandler` has weak fairness on three things:

- `Tick`, because the reactor ticks every handler;
- `Ready`, because the reactor calls `ready()` on a handler that has work;
- the completion of each action type, because the reactor answers every
  action it takes.

`MigrateTask` has weak fairness on every step of the task. The goroutines
run, and the 5 s ticker fires. Restarts are not forced. Failures are bounded
by `MaxFails`, so `EventuallyDone` says the task ends once failures stop.

`ChannelListener` has weak fairness on:

- each `Scan(c)`, because the 1 ms ticker visits every channel;
- `SendToken`, `WaitCall` and `WaitWoken`, because the reactor calls
  `Wait` in a loop and a Go channel operation that can proceed eventually
  does.

The callers (`Propose`, `Age`, `Destroy`) are not forced.

## 5. What is not modelled, and why

- In the replica:
  - learners in the election model `Replica`, and the role switch itself
    (`ChangeRole`, a config change made outside `src/`);
  - config changes;
  - the uncommitted-size quota;
  - speed levels;
  - the storage/apply acknowledgements.

  They are the next additions to `Replica`. The quota and the
  storage/apply acknowledgements would give every node an applied index,
  an `applying` flag and `uncommittedSize`. Even a learner, one more
  puller, takes `ReplicaCommit` past a million states. So they need a
  model that fixes the log replication, and no run is left for one.
- `TimeoutOnlyAfterSilence` in `UserHandler` says a proxy node is timed out
  only after `UserNodePongTimeoutTick` silent ticks. Earlier work found it
  violated when a node's connections are closed and reopened: the old pong
  counter resumes. The project does not have a run for it at present. Its
  hazard (`user.go:360`) explains this. The run went to the `canVote`
  check, which shows the loss of a committed entry.
- The UserAction codec (`user.go` `Encode`/`Decode`) is not modelled. Its
  round trip drops fields (a hazard in `PROJECT.json`), but checking it
  needs the byte layout, and the project has no run to spare for a
  conversion that has no state of its own.
- In `Conversation`, three of the observed faults are kept as hazards, not
  runs:
  - a failed commit (its count stays changed; `CommitMayFail` switches it
    on);
  - the updatedAt index: the row and its index key take separate
    `time.Now()` readings. After a millisecond boundary, the next update
    deletes a key that does not exist, and the conversation is listed
    twice;
  - the createdAt index `DeleteRange`.

  The runs do not check the updatedAt index, so `GetLastConversations`,
  the only reader of that index, is not modelled. It also reads the index
  and then each row outside one snapshot: a delete committed in between
  makes it fail with `ErrNotFound`. Both are hazards in `PROJECT.json`.
- `GetConversationsByType` and `SearchConversation` filter on columns the
  rows do not keep (type, keywords).
- In `MigrateTask`, message contents, the fake channel id conversion and the
  HTTP/JSON layer are abstracted to success or failure of each call. The
  `migrated` marker file is not written by any code under `src/`.
- In `ChannelListener`, the removal race of `Exist`/`Add` against
  `loopEvent` is not checked by a run:
  1. A caller sees the channel listed.
  2. `loopEvent` removes it as inactive.
  3. The proposal then gives work to a channel that nobody scans.

  TLC finds `ProposalServed` violated in 10 steps. It is a hazard in
  `PROJECT.json`. A run that checks it is still to be added.
- A destroyed channel is skipped and never removed. `Stop` and
  `IsEmptyReady` are not modelled.
- The cluster routes of server2 are not modelled yet.
- Options, generated protobuf code and the HTTP API are not modelled. They
  are configuration and I/O with no protocol state.
