---------------------------- MODULE UserHandler ----------------------------
(***************************************************************************)
(* One user's handler on one node (internal/server/user.go): the status    *)
(* (uninitialized, initializing, initialized), the role (leader or proxy), *)
(* the four queues with their processing cursors and in-progress flags,    *)
(* the tick counters, the connection set and the per-proxy-node pong       *)
(* timeout counters.  ready() hands the handler's actions to the user      *)
(* reactor, which runs them and steps the results back in; the results'    *)
(* effects (stepLeader/stepProxy, not under src/) follow the spec.        *)
(*                                                                         *)
(* u.actions is kept as a set: the reactor runs the actions of one ready() *)
(* concurrently, so their order is not observable.  Tick counters that     *)
(* are only compared against a threshold saturate at it.                   *)
(***************************************************************************)
EXTENDS Naturals, FiniteSets

CONSTANTS
    Node,                   \* node ids of the cluster
    Self,                   \* this node (opts.Cluster.NodeId)
    NoNode,                 \* realNodeId 0
    DeviceId,               \* device ids of the user's connections
    ConnNode,               \* realNodeIds a connection may carry
    ProcessIntervalTick,    \* Reactor.UserProcessIntervalTick
    CheckLeaderIntervalTick,\* Reactor.CheckUserLeaderIntervalTick
    NodePingTick,           \* Reactor.UserNodePingTick
    NodePongTimeoutTick,    \* Reactor.UserNodePongTimeoutTick
    MaxQueued,              \* bound on the messages appended to a queue
    MaxRoleChanges,         \* bound on leader changes of the user's slot
    MaxInFlight,            \* bound on the actions the reactor runs at once
    ClientQueue             \* the queues clients append to in a model

ASSUME ClientQueue \subseteq {"auth", "ping", "recvack", "recv"}
ASSUME Self \in Node /\ NoNode \notin Node /\ ConnNode \subseteq Node \cup {NoNode}

Queue == {"auth", "ping", "recvack", "recv"}

\* Batch actions and the queue each one drains.
BatchQueue == [Auth |-> "auth", Ping |-> "ping", Recvack |-> "recvack",
               Recv |-> "recv", ForwardSend |-> "recvack",
               ForwardConnect |-> "auth"]
BatchType == DOMAIN BatchQueue
ActionType == BatchType \cup {"Init", "CheckLeader", "NodePing", "Close",
                              "ProxyNodeTimeout"}

\* A UserAction: its type, the last queue index of its batch, and the node
\* ids its messages name (NodePing, ProxyNodeTimeout).
Action(t, hi, ns) == [type |-> t, hi |-> hi, nodes |-> ns]

VARIABLES
    u,          \* the userHandler's fields (record)
    inflight,   \* actions handed out by ready() whose result is pending
    silent,     \* history: ticks each proxy node has had connections and no pong
    changes     \* leader changes so far

vars == <<u, inflight, silent, changes>>

Uninitialized == "uninitialized"
Initializing  == "initializing"
Initialized   == "initialized"

\* newUserHandler: the counters start at UserProcessIntervalTick.
InitState ==
    [status |-> Uninitialized, role |-> "none", leaderId |-> NoNode,
     proc |-> [q \in Queue |-> 0], last |-> [q \in Queue |-> 0],
     busy |-> [q \in Queue |-> FALSE],
     initTick |-> ProcessIntervalTick, authTick |-> ProcessIntervalTick,
     recvMsgTick |-> ProcessIntervalTick,
     sendRecvackTick |-> ProcessIntervalTick,
     checkLeaderTick |-> 0, nodePingTick |-> 0,
     pongTick |-> [n \in {} |-> 0],
     conns |-> {}, actions |-> {}]

Init ==
    /\ u = InitState
    /\ inflight = {}
    /\ silent = [n \in Node |-> 0]
    /\ changes = 0

Conn == [dev : DeviceId, node : ConnNode]

TypeOK ==
    /\ u.status \in {Uninitialized, Initializing, Initialized}
    /\ u.role \in {"none", "leader", "proxy"}
    /\ u.leaderId \in Node \cup {NoNode}
    /\ \A q \in Queue : u.proc[q] <= u.last[q] /\ u.last[q] <= MaxQueued
    /\ u.busy \in [Queue -> BOOLEAN]
    /\ DOMAIN u.pongTick \subseteq Node
    /\ u.conns \subseteq Conn
    /\ \A a \in u.actions \cup inflight : a.type \in ActionType
    /\ changes \in 0..MaxRoleChanges

-----------------------------------------------------------------------------
(* Readiness (hasReady, ready and the has* helpers).                       *)

Sat(x, cap) == IF x >= cap THEN cap ELSE x

HasQueued(s, q) == s.proc[q] < s.last[q]

HasRecvack(s) == ~s.busy.recvack /\ s.sendRecvackTick >= ProcessIntervalTick
                 /\ HasQueued(s, "recvack")
HasAuth(s) == ~s.busy.auth /\ s.authTick >= ProcessIntervalTick
              /\ HasQueued(s, "auth")
HasPing(s) == ~s.busy.ping /\ HasQueued(s, "ping")
\* Fault variant: an off-by-one on the receive tick.
HasRecvMsgLate(s) == ~s.busy.recv /\ s.recvMsgTick > ProcessIntervalTick
                     /\ HasQueued(s, "recv")
HasRecvMsg(s) == ~s.busy.recv /\ s.recvMsgTick >= ProcessIntervalTick
                 /\ HasQueued(s, "recv")

IsInitialized(s) == s.status = Initialized

\* Fault variant: an uninitialized handler whose Init is out counts as
\* ready again.
HasReadyWhileInitializing(s) ==
    IF ~IsInitialized(s)
    THEN s.initTick >= ProcessIntervalTick
    ELSE \/ HasAuth(s) \/ HasRecvack(s) \/ HasRecvMsg(s)
         \/ (s.role = "leader" /\ HasPing(s))
         \/ s.actions # {}

HasReady(s) ==
    IF ~IsInitialized(s)
    THEN s.initTick >= ProcessIntervalTick /\ s.status # Initializing
    ELSE \/ HasAuth(s) \/ HasRecvack(s) \/ HasRecvMsg(s)
         \/ (s.role = "leader" /\ HasPing(s))
         \/ s.actions # {}

\* The batches ready() starts, as (action type, queue) pairs: a leader runs
\* auth, ping and recvack itself; any other role forwards recvack (as
\* UserActionSend) and auth (as UserActionConnect) to the leader.
ReadyBatches(s) ==
    LET leader == s.role = "leader"
    IN  {t \in BatchType :
            \/ t = "Auth" /\ leader /\ HasAuth(s)
            \/ t = "Ping" /\ leader /\ HasPing(s)
            \/ t = "Recvack" /\ leader /\ HasRecvack(s)
            \/ t = "ForwardSend" /\ ~leader /\ HasRecvack(s)
            \/ t = "ForwardConnect" /\ ~leader /\ HasAuth(s)
            \/ t = "Recv" /\ HasRecvMsg(s)}

\* ready(): the state after it and the actions it hands out.
ReadyStep(s) ==
    IF ~IsInitialized(s)
    THEN IF s.status = Initializing
         THEN [state |-> s, out |-> {}]
         ELSE [state |-> [s EXCEPT !.initTick = 0, !.status = Initializing,
                                   !.actions = {}],
               out |-> s.actions \cup {Action("Init", 0, {})}]
    ELSE LET ts == ReadyBatches(s)
             qs == {BatchQueue[t] : t \in ts}
         IN  [state |-> [s EXCEPT
                 !.busy = [q \in Queue |-> @[q] \/ q \in qs],
                 !.authTick = IF "auth" \in qs THEN 0 ELSE @,
                 !.sendRecvackTick = IF "recvack" \in qs THEN 0 ELSE @,
                 !.recvMsgTick = IF "recv" \in qs THEN 0 ELSE @,
                 !.actions = {}],
              out |-> s.actions \cup
                      {Action(t, s.last[BatchQueue[t]], {}) : t \in ts}]

-----------------------------------------------------------------------------
(* Role changes and ticks.                                                 *)

\* resetIndex of userMsgQueue is not under src/.  The spec (4.3, role
\* determination) has reset clear the ping, recvack and auth progress but
\* preserve the receive queue, as the comment in reset() says: whether the
\* cursor of the other queues stays or moves to the end is left open.
\* Fault variant: the cursor is moved one past the queue's end.
ResetIndexPastEnd(s, q) == {s.proc[q], s.last[q] + 1}

ResetIndex(s, q) == IF q = "recv" THEN {s.proc[q]} ELSE {s.proc[q], s.last[q]}

\* reset(): cursors, in-progress flags, init/auth/node-ping ticks and the
\* pong timeout map.  uniqueNo is not renewed.
Reset(s) ==
    { [s EXCEPT !.proc = p,
                !.busy = [q \in Queue |-> FALSE],
                !.initTick = 0, !.authTick = 0, !.nodePingTick = 0,
                !.pongTick = [n \in {} |-> 0]]
      : p \in {f \in [Queue -> 0..MaxQueued] : \A q \in Queue : f[q] \in ResetIndex(s, q)} }

BecomeLeader(s) == {[r EXCEPT !.leaderId = NoNode, !.role = "leader"] : r \in Reset(s)}
BecomeProxy(s, l) == {[r EXCEPT !.leaderId = l, !.role = "proxy"] : r \in Reset(s)}

\* resetConnNodeIds: the distinct non-zero realNodeIds of the connections.
ConnNodeIds(s) == {c.node : c \in s.conns} \ {NoNode}

TickProxy(s) ==
    LET t == s.nodePingTick + 1
    IN  IF t >= NodePingTick + NodePingTick \div 2
        THEN [s EXCEPT !.nodePingTick = 0,
                       !.actions = @ \cup {Action("Close", 0, {})}]
        ELSE [s EXCEPT !.nodePingTick = t]

\* tickLeader: count a tick against every proxy node (a missing map key
\* counts from 0), ping the remote connections' nodes every NodePingTick
\* ticks (or close when no connection is left), then report every proxy
\* node whose count reached the pong timeout.
\* Fault variant: a node is reported only after more than the timeout.
TimedOutNodesStrict(ids, pong) == {m \in ids : pong[m] > NodePongTimeoutTick}

\* The nodes whose pong count reached the timeout.
TimedOutNodes(ids, pong) == {m \in ids : pong[m] >= NodePongTimeoutTick}

TickLeader(s) ==
    LET ids   == ConnNodeIds(s)
        pong  == [n \in DOMAIN s.pongTick \cup ids |->
                    IF n \in ids
                    THEN Sat((IF n \in DOMAIN s.pongTick THEN s.pongTick[n] ELSE 0) + 1,
                             NodePongTimeoutTick)
                    ELSE s.pongTick[n]]
        t     == s.nodePingTick + 1
        remote == {c.node : c \in s.conns} \ {NoNode, Self}
        ping  == IF t < NodePingTick THEN {}
                 ELSE IF s.conns # {}
                      THEN IF remote # {} THEN {Action("NodePing", 0, remote)} ELSE {}
                      ELSE {Action("Close", 0, {})}
        timeouts == {Action("ProxyNodeTimeout", 0, {n}) :
                        n \in TimedOutNodes(ids, pong)}
    IN  [s EXCEPT !.pongTick = pong,
                  !.nodePingTick = IF t >= NodePingTick THEN 0 ELSE t,
                  !.actions = @ \cup ping \cup timeouts]

\* tick(): the process counters, the periodic CheckLeader, then tickFnc
\* (nil until a role is set).
TickState(s) ==
    LET c  == s.checkLeaderTick + 1
        s1 == [s EXCEPT
                 !.initTick = Sat(@ + 1, ProcessIntervalTick),
                 !.authTick = Sat(@ + 1, ProcessIntervalTick),
                 !.recvMsgTick = Sat(@ + 1, ProcessIntervalTick),
                 !.sendRecvackTick = Sat(@ + 1, ProcessIntervalTick),
                 !.checkLeaderTick = IF c >= CheckLeaderIntervalTick THEN 0 ELSE c,
                 !.actions = IF c >= CheckLeaderIntervalTick
                             THEN @ \cup {Action("CheckLeader", 0, {})} ELSE @]
    IN  CASE s.role = "leader" -> TickLeader(s1)
          [] s.role = "proxy"  -> TickProxy(s1)
          [] OTHER             -> s1

-----------------------------------------------------------------------------
(* Connections.                                                            *)

AddConnIfNotExist(s, c) ==
    IF \E x \in s.conns : x.dev = c.dev THEN s ELSE [s EXCEPT !.conns = @ \cup {c}]

RemoveConnById(s, d) == [s EXCEPT !.conns = {x \in @ : x.dev # d}]

RemoveConnsByNodeId(s, n) == [s EXCEPT !.conns = {x \in @ : x.node # n}]

-----------------------------------------------------------------------------
(* Results of the actions (the user reactor's step functions, modelled     *)
(* from the spec: sections 4.3 and 5).  Results carry the handler's        *)
(* uniqueNo, which reset() keeps, so a result of a batch started before a  *)
(* role change is still applied.                                          *)

\* A batch result: the queue is processed up to the batch's last index.
CompleteBatch(s, a) ==
    LET q == BatchQueue[a.type]
    IN  [s EXCEPT !.proc[q] = a.hi, !.busy[q] = FALSE]

\* The user's slot leader as the Init and CheckLeader results report it.
RoleFor(s, l) == IF l = Self THEN BecomeLeader(s) ELSE BecomeProxy(s, l)
RoleChanged(s, l) ==
    IF l = Self THEN s.role # "leader" ELSE s.role # "proxy" \/ s.leaderId # l

-----------------------------------------------------------------------------
(* Actions *)

\* Keeps the history variable: a node's silence ends when it has no
\* connection left or the handler is not leading.
SilenceAfter(s) ==
    [n \in Node |-> IF s.role = "leader" /\ n \in ConnNodeIds(s) THEN silent[n] ELSE 0]

\* The reactor loop: when hasReady(), take ready()'s actions.
Ready ==
    /\ HasReady(u)
    /\ LET r == ReadyStep(u)
       IN  /\ Cardinality(inflight \cup r.out) <= MaxInFlight
           /\ u' = r.state
           /\ inflight' = inflight \cup r.out
    /\ UNCHANGED <<silent, changes>>

\* One reactor tick.
Tick ==
    /\ u' = TickState(u)
    /\ silent' = [n \in Node |->
                    IF u.role = "leader" /\ n \in ConnNodeIds(u)
                    THEN Sat(silent[n] + 1, NodePongTimeoutTick) ELSE 0]
    /\ UNCHANGED <<inflight, changes>>

\* A client message enters a queue (pings only reach a leader).
Enqueue(q) ==
    /\ u.last[q] < MaxQueued
    /\ q = "ping" => u.role = "leader"
    /\ u' = [u EXCEPT !.last[q] = @ + 1]
    /\ UNCHANGED <<inflight, silent, changes>>

AddConn(c) ==
    /\ u' = AddConnIfNotExist(u, c)
    /\ UNCHANGED <<inflight, silent, changes>>

RemoveConn(d) ==
    /\ u' = RemoveConnById(u, d)
    /\ silent' = SilenceAfter(u')
    /\ UNCHANGED <<inflight, changes>>

\* Results of the actions handed out by ready().
Complete(a) ==
    /\ a \in inflight
    /\ inflight' = inflight \ {a}
    /\ \/ /\ a.type \in BatchType
          /\ u' = CompleteBatch(u, a)
          /\ UNCHANGED <<silent, changes>>
       \/ /\ a.type = "Init"
          /\ \E l \in Node : \E r \in RoleFor(u, l) :
                u' = [r EXCEPT !.status = Initialized]
          /\ silent' = [n \in Node |-> 0]
          /\ UNCHANGED changes
       \/ /\ a.type = "CheckLeader"
          /\ \E l \in Node :
                IF u.role # "none" /\ RoleChanged(u, l)
                THEN /\ changes < MaxRoleChanges
                     /\ changes' = changes + 1
                     /\ u' \in RoleFor(u, l)
                     /\ silent' = [n \in Node |-> 0]
                ELSE UNCHANGED <<u, silent, changes>>
       \/ /\ a.type = "NodePing"
          \* the proxies that answer with a NodePong reset their count
          /\ \E answered \in SUBSET a.nodes :
                /\ u' = [u EXCEPT !.pongTick =
                          [n \in DOMAIN @ \cup answered |->
                              IF n \in answered THEN 0 ELSE @[n]]]
                /\ silent' = [n \in Node |-> IF n \in answered THEN 0 ELSE silent[n]]
          /\ UNCHANGED changes
       \/ /\ a.type = "ProxyNodeTimeout"
          \* the connections of the timed-out node are closed
          /\ u' = RemoveConnsByNodeId(u, CHOOSE n \in a.nodes : TRUE)
          /\ silent' = SilenceAfter(u')
          /\ UNCHANGED changes
       \/ /\ a.type = "Close"
          \* the handler is removed; a later use starts a new one, which
          \* ignores the old handler's results
          /\ u' = InitState
          /\ inflight' = {}
          /\ silent' = [n \in Node |-> 0]
          /\ UNCHANGED changes

\* A proxy hears the leader's NodePing and restarts its ping count.
RecvNodePing ==
    /\ u.role = "proxy"
    /\ u' = [u EXCEPT !.nodePingTick = 0]
    /\ UNCHANGED <<inflight, silent, changes>>

Next ==
    \/ Ready \/ Tick \/ RecvNodePing
    \/ \E q \in ClientQueue : Enqueue(q)
    \/ \E c \in Conn : AddConn(c)
    \/ \E d \in DeviceId : RemoveConn(d)
    \/ \E a \in inflight : Complete(a)

\* The reactor ticks and drains ready handlers, and the reactor's workers
\* finish every action they are given; clients and the slot leader are
\* not fair.
Fairness ==
    /\ WF_vars(Tick)
    /\ WF_vars(Ready)
    /\ \A t \in ActionType : WF_vars(\E a \in inflight : a.type = t /\ Complete(a))

Spec == Init /\ [][Next]_vars
FairSpec == Spec /\ Fairness

-----------------------------------------------------------------------------
(* Properties *)

\* hasReady and ready agree: whenever the reactor sees the handler ready,
\* ready() hands out at least one action (otherwise the reactor loop spins
\* on a handler that never makes progress).  It is violated if hasReady
\* counts work that ready() does not start for the current role.
ReadyMakesProgress == HasReady(u) => ReadyStep(u).out # {}

\* Every message appended to the receive queue is eventually handed out in
\* a Recv batch whose result is applied (user.go 271-272: after a role
\* change "the data must still be delivered"), across role changes that
\* clear recvMsging while a batch is out and results that arrive after the
\* reset.  Only Close, which tickLeader sends when no connection is left and
\* tickProxy when the leader stops pinging, removes the handler with its
\* queue (last falls back to 0).
RecvDelivered ==
    \A i \in 1..MaxQueued :
        (u.last.recv >= i /\ u.proc.recv < i) ~> (u.proc.recv >= i \/ u.last.recv < i)

\* A proxy node that stays silent for NodePongTimeoutTick ticks while it has
\* connections to a leader is eventually reported by tickLeader, and the
\* ProxyNodeTimeout result closes its connections (or the handler stops
\* leading).
SilentProxyDropped ==
    \A n \in Node :
        (u.role = "leader" /\ silent[n] >= NodePongTimeoutTick)
            ~> (n \notin ConnNodeIds(u) \/ u.role # "leader")

\* tickLeader reports a proxy node as timed out only after it has had
\* connections for NodePongTimeoutTick ticks without a pong.  The count of
\* a node whose connections were closed is never cleared.
TimeoutOnlyAfterSilence ==
    [][\A a \in u'.actions \ u.actions :
          a.type = "ProxyNodeTimeout" => \A n \in a.nodes :
              silent'[n] >= NodePongTimeoutTick]_vars
=============================================================================
