-------------------------- MODULE ChannelListener --------------------------
(***************************************************************************)
(* The channel listener of the cluster (pkg/cluster/cluster/               *)
(* channel_listener.go).  Its loopEvent goroutine walks the channels on    *)
(* every 1 ms tick: a channel with work has its Ready() taken, queued in   *)
(* readyChannels and signalled by a token on readyCh (capacity 1000, the   *)
(* send blocks when full); a destroyed channel is skipped, and a channel   *)
(* without work that has been inactive for ChannelInactiveTimeout is       *)
(* removed.  The reactor                                                   *)
(* calls Wait in a loop: it pops a queued Ready at once if there is one,   *)
(* else it blocks for a token and then pops one if there is one.           *)
(*                                                                         *)
(* The channel itself (HasReady, Ready, lastActivity, IsDestroy) and its   *)
(* callers are not under src/: from the spec, a proposal makes the channel *)
(* active and gives it work, and a caller re-adds a channel the listener   *)
(* no longer holds before it proposes to it (spec 8, open question b).     *)
(* Work is a set of proposal ids; a Ready carries the ids it took.         *)
(***************************************************************************)
EXTENDS Naturals, Sequences, FiniteSets

CONSTANTS
    Ch,         \* channels
    Prop,       \* proposal ids
    Cap         \* capacity of readyCh (1000)

VARIABLES
    listed,     \* the channels in the listener's channel queue
    work,       \* ch -> proposal ids not yet taken by Ready()
    idle,       \* ch -> lastActivity older than ChannelInactiveTimeout
    destroyed,  \* ch -> IsDestroy()
    queue,      \* readyChannels: Ready records [ch, ids], in order
    tokens,     \* tokens in readyCh
    ppc,        \* loopEvent: "scan", or "send" (blocked on readyCh <-)
    cpc,        \* the reactor in Wait: "call", or "wait" (on <-readyCh)
    callers,    \* proposal -> "new", "added" (Exist/Add done), "proposed"
    taken,      \* history: proposals taken by Ready()
    delivered   \* history: proposals in a Ready returned by Wait

vars == <<listed, work, idle, destroyed, queue, tokens, ppc, cpc,
          callers, taken, delivered>>

Init ==
    /\ listed = {}
    /\ work = [c \in Ch |-> {}]
    /\ idle = [c \in Ch |-> FALSE]
    /\ destroyed = [c \in Ch |-> FALSE]
    /\ queue = <<>>
    /\ tokens = 0
    /\ ppc = "scan"
    /\ cpc = "call"
    /\ callers = [p \in Prop |-> [ch |-> CHOOSE c \in Ch : TRUE, st |-> "new"]]
    /\ taken = {}
    /\ delivered = {}

-----------------------------------------------------------------------------
(* loopEvent                                                               *)

HasReady(c) == work[c] # {}

\* isInactiveChannel
IsInactive(c) == destroyed[c] \/ idle[c]

\* One channel of channels.foreach: a destroyed channel is skipped; with
\* work, Ready() is taken and queued, then a token is sent; without work,
\* an inactive channel is removed.
Scan(c) ==
    /\ ppc = "scan" /\ c \in listed
    /\ ~destroyed[c]
    /\ \/ /\ HasReady(c)
          /\ queue' = Append(queue, [ch |-> c, ids |-> work[c]])
          /\ taken' = taken \cup work[c]
          /\ work' = [work EXCEPT ![c] = {}]
          /\ ppc' = "send"
          /\ UNCHANGED listed
       \/ /\ ~HasReady(c) /\ IsInactive(c)
          /\ listed' = listed \ {c}
          /\ UNCHANGED <<queue, taken, work, ppc>>
    /\ UNCHANGED <<idle, destroyed, tokens, cpc, callers, delivered>>

\* Fault variant: the token is not sent.
SendTokenNone ==
    /\ ppc = "send"
    /\ ppc' = "scan"
    /\ UNCHANGED <<listed, work, idle, destroyed, queue, tokens, cpc, callers, taken, delivered>>

\* Fault variant: the send never blocks (readyCh without a bound).
SendTokenUnbounded ==
    /\ ppc = "send"
    /\ tokens' = tokens + 1
    /\ ppc' = "scan"
    /\ UNCHANGED <<listed, work, idle, destroyed, queue, cpc, callers, taken, delivered>>

\* c.readyCh <- struct{}{}: blocks while readyCh is full.
SendToken ==
    /\ ppc = "send" /\ tokens < Cap
    /\ tokens' = tokens + 1
    /\ ppc' = "scan"
    /\ UNCHANGED <<listed, work, idle, destroyed, queue, cpc, callers, taken, delivered>>

-----------------------------------------------------------------------------
(* Wait                                                                    *)

Pop ==
    /\ delivered' = delivered \cup Head(queue).ids
    /\ queue' = Tail(queue)

\* Wait: a queued Ready is returned at once, without taking a token;
\* else the reactor blocks on readyCh.
WaitCall ==
    /\ cpc = "call"
    /\ \/ /\ queue # <<>> /\ Pop
          /\ UNCHANGED cpc
       \/ /\ queue = <<>>
          /\ cpc' = "wait"
          /\ UNCHANGED <<queue, delivered>>
    /\ UNCHANGED <<listed, work, idle, destroyed, tokens, ppc, callers, taken>>

\* A token arrives: a queued Ready is returned, or an empty channelReady
\* when the queue has been emptied meanwhile.
WaitWoken ==
    /\ cpc = "wait" /\ tokens > 0
    /\ tokens' = tokens - 1
    /\ \/ queue # <<>> /\ Pop
       \/ queue = <<>> /\ UNCHANGED <<queue, delivered>>
    /\ cpc' = "call"
    /\ UNCHANGED <<listed, work, idle, destroyed, ppc, callers, taken>>

-----------------------------------------------------------------------------
(* The channel and its callers (from the spec)                             *)

\* A caller about to propose p to channel c re-adds c if the listener no
\* longer holds it (Exist, Add).
AddIfAbsent(p, c) ==
    /\ callers[p].st = "new"
    /\ callers' = [callers EXCEPT ![p] = [ch |-> c, st |-> "added"]]
    /\ listed' = listed \cup {c}
    /\ UNCHANGED <<work, idle, destroyed, queue, tokens, ppc, cpc, taken, delivered>>

\* The proposal reaches the channel: it has work and is active again; a
\* destroyed channel refuses it and the caller gets an error.
Propose(p) ==
    /\ callers[p].st = "added"
    /\ LET c == callers[p].ch
       IN  IF destroyed[c]
           THEN UNCHANGED <<work, idle>>
           ELSE /\ work' = [work EXCEPT ![c] = @ \cup {p}]
                /\ idle' = [idle EXCEPT ![c] = FALSE]
    /\ callers' = [callers EXCEPT ![p].st = "proposed"]
    /\ UNCHANGED <<listed, destroyed, queue, tokens, ppc, cpc, taken, delivered>>

\* ChannelInactiveTimeout passes without activity on c.
Age(c) ==
    /\ ~idle[c]
    /\ idle' = [idle EXCEPT ![c] = TRUE]
    /\ UNCHANGED <<listed, work, destroyed, queue, tokens, ppc, cpc, callers, taken, delivered>>

\* The channel is stopped (IsDestroy) once it has no work left.
Destroy(c) ==
    /\ ~destroyed[c] /\ work[c] = {}
    /\ destroyed' = [destroyed EXCEPT ![c] = TRUE]
    /\ UNCHANGED <<listed, work, idle, queue, tokens, ppc, cpc, callers, taken, delivered>>

\* Every proposal has been made and both goroutines wait: the ticker keeps
\* ticking over channels with nothing to do.
Quiet ==
    /\ \A p \in Prop : callers[p].st = "proposed"
    /\ queue = <<>> /\ ppc = "scan" /\ cpc = "wait" /\ tokens = 0
    /\ UNCHANGED vars

Next ==
    \/ \E c \in Ch : Scan(c) \/ Age(c) \/ Destroy(c)
    \/ Quiet
    \/ SendToken \/ WaitCall \/ WaitWoken
    \/ \E p \in Prop : Propose(p) \/ \E c \in Ch : AddIfAbsent(p, c)

\* The 1 ms ticker visits every listed channel, the reactor keeps calling
\* Wait, and a Go channel send or receive that can go ahead does.
Fairness ==
    /\ \A c \in Ch : WF_vars(Scan(c))
    /\ WF_vars(SendToken) /\ WF_vars(WaitCall) /\ WF_vars(WaitWoken)

Spec == Init /\ [][Next]_vars /\ Fairness

-----------------------------------------------------------------------------
(* Properties *)

TypeOK ==
    /\ listed \subseteq Ch
    /\ work \in [Ch -> SUBSET Prop]
    /\ \A i \in DOMAIN queue : queue[i].ch \in Ch /\ queue[i].ids \subseteq Prop
    /\ tokens \in 0..Cap
    /\ ppc \in {"scan", "send"} /\ cpc \in {"call", "wait"}

\* Wait never blocks on readyCh while a Ready is queued and no token for it
\* is on the way: the fast path of Wait pops without taking a token, so the
\* tokens in readyCh (plus the one loopEvent is sending) always cover the
\* queued Readys, even when readyCh fills up and blocks loopEvent.
NoLostWakeup ==
    cpc = "wait" /\ queue # <<>> => tokens > 0 \/ ppc = "send"

\* Every proposal whose Ready loopEvent took is eventually handed to the
\* reactor by Wait.
EveryTakenDelivered == \A p \in Prop : p \in taken ~> p \in delivered

\* Every proposal made to a live channel is eventually handed to the
\* reactor (spec 8, open question b).
ProposalServed ==
    \A p \in Prop :
        (callers[p].st = "proposed" /\ p \in work[callers[p].ch]) ~> p \in delivered
====
