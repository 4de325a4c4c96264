---------------------------- MODULE Conversation ----------------------------
(***************************************************************************)
(* The conversation table of one user in wkdb (pkg/wkdb/conversation.go): *)
(* the conversation columns keyed by id, the channel index (channel -> id),*)
(* the updatedAt second index, and the conversation count.                *)
(* AddOrUpdateConversations, DeleteConversation and DeleteConversations   *)
(* collect their writes in a pebble batch; the ids they look up and the    *)
(* rows they read come from the committed database, and the count is      *)
(* changed before the batch commits.  Several callers may run at once.     *)
(*                                                                         *)
(* A conversation row keeps the fields the indexes are built from: its    *)
(* channel and updatedAt.  Timestamps are ticks of a clock; time.Now()     *)
(* reads it.  The other columns, the type index and the createdAt index    *)
(* are written together with the row and read by nothing under src/.      *)
(***************************************************************************)
EXTENDS Integers, Sequences, FiniteSets, TLC, SequencesExt

CONSTANTS
    Channel,        \* (channelId, channelType) pairs of the user
    Caller,         \* goroutines calling the store for this user
    MaxId,          \* bound on the ids prmaryKeyGen hands out
    MaxTime,        \* bound on the clock (UnixMilli)
    MaxCalls,       \* bound on the calls made
    DistinctInput,  \* whether a call's channels are distinct
    CommitMayFail,  \* whether batch.Commit may return an error
    NowMayAdvance   \* whether the clock may move between two time.Now()

VARIABLES
    chanIdx,    \* committed channel index: channel -> id
    rows,       \* committed columns: id -> [ch, updated]
    updIdx,     \* committed updatedAt index: set of <<updatedAt, id>>
    count,      \* the user's conversation count
    clock,      \* time.Now()
    nextId,     \* the next id prmaryKeyGen hands out
    calls,      \* calls made so far
    pc,         \* per caller: "idle", "add", "del", "inc", "commit"
    todo,       \* per caller: the channels its call has still to handle
    batch,      \* per caller: the writes of its pebble batch, in order
    created     \* per caller: createCount of AddOrUpdateConversations

vars == <<chanIdx, rows, updIdx, count, clock, nextId, calls,
          pc, todo, batch, created>>

Init ==
    /\ chanIdx = [ch \in {} |-> 0]
    /\ rows = [i \in {} |-> 0]
    /\ updIdx = {}
    /\ count = 0
    /\ clock = 1
    /\ nextId = 1
    /\ calls = 0
    /\ pc = [c \in Caller |-> "idle"]
    /\ todo = [c \in Caller |-> <<>>]
    /\ batch = [c \in Caller |-> <<>>]
    /\ created = [c \in Caller |-> 0]

-----------------------------------------------------------------------------
(* Writes of a batch and their effect when it commits.                     *)

\* getConversationByChannel: 0 when the channel index has no entry.
IdOfChannel(ch) == IF ch \in DOMAIN chanIdx THEN chanIdx[ch] ELSE 0

\* One write to a batch, applied to the committed state d.
ApplyWrite(d, w) ==
    CASE w.op = "setCols" ->
            [d EXCEPT !.rows = (w.id :> [ch |-> w.ch, updated |-> w.t]) @@ @]
      [] w.op = "delCols" ->
            [d EXCEPT !.rows = [i \in DOMAIN @ \ {w.id} |-> @[i]]]
      [] w.op = "setChan" -> [d EXCEPT !.chanIdx = (w.ch :> w.id) @@ @]
      [] w.op = "delChan" ->
            [d EXCEPT !.chanIdx = [ch \in DOMAIN @ \ {w.ch} |-> @[ch]]]
      [] w.op = "setUpd" -> [d EXCEPT !.upd = @ \cup {w.key}]
      [] w.op = "delUpd" -> [d EXCEPT !.upd = @ \ {w.key}]

RECURSIVE ApplyBatch(_, _)
ApplyBatch(d, ws) == IF ws = <<>> THEN d ELSE ApplyBatch(ApplyWrite(d, Head(ws)), Tail(ws))

DbRecord == [chanIdx |-> chanIdx, rows |-> rows, upd |-> updIdx]

-----------------------------------------------------------------------------
(* The writes each helper adds to a batch.                                 *)

\* deleteConversationUpdatedAtIndex: the row is read from the committed
\* database and the entry of its updatedAt is deleted.
DelUpdWrites(id) ==
    IF id \in DOMAIN rows
    THEN <<[op |-> "delUpd", key |-> <<rows[id].updated, id>>]>>
    ELSE <<>>

\* writeConversationIndex, with its own time.Now() nw2.
WriteIndexWrites(ch, id, nw2) ==
    <<[op |-> "setChan", ch |-> ch, id |-> id]>>
    \o DelUpdWrites(id)
    \o <<[op |-> "setUpd", key |-> <<nw2, id>>]>>

\* writeConversation: the columns stamped with nw, then the indexes.
WriteConversationWrites(ch, id, nw, nw2) ==
    <<[op |-> "setCols", id |-> id, ch |-> ch, t |-> nw]>>
    \o WriteIndexWrites(ch, id, nw2)

\* Fault variant: the channel index entry is left behind.
DeleteWritesKeepChan(ch) ==
    LET id == chanIdx[ch]
    IN  DelUpdWrites(id) \o <<[op |-> "delCols", id |-> id]>>

\* deleteConversation of a channel that has an id: deleteConversationIndex
\* (the channel index, the updatedAt entry), then the columns.
DeleteWrites(ch) ==
    LET id == chanIdx[ch]
    IN  <<[op |-> "delChan", ch |-> ch]>> \o DelUpdWrites(id) \o <<[op |-> "delCols", id |-> id]>>

\* Fault variant: the count is decreased for a channel without a row.
DeleteCountDeltaNoCheck(id) == -1

\* deleteConversation returns early for an unknown channel, else
\* IncConversationCount(-1).
DeleteCountDelta(id) == IF id = 0 THEN 0 ELSE -1

-----------------------------------------------------------------------------
(* The read paths, over the committed database.  A conversation is the     *)
(* function from column names to values that iterateConversation builds.  *)

\* The column keys of the rows with ids in S, in key order: by id, then
\* by column.
ColumnKeys(S) ==
    LET ids == SetToSortSeq(S \cap DOMAIN rows, <)
    IN  FlattenSeq([j \in DOMAIN ids |->
            <<[id |-> ids[j], col |-> "ch", val |-> rows[ids[j]].ch],
              [id |-> ids[j], col |-> "updated", val |-> rows[ids[j]].updated]>>])

\* Fault variant: the conversation being assembled when the keys run out
\* is dropped (no lastNeedAppend/hasData append).
RECURSIVE IterColsNoFlush(_, _, _, _, _)
IterColsNoFlush(keys, preId, pre, out, stopAfter) ==
    IF keys = <<>> THEN out
    ELSE LET k == Head(keys)
             new == (k.col :> k.val) @@ ("id" :> k.id)
         IN  IF preId = k.id
             THEN IterColsNoFlush(Tail(keys), preId, (k.col :> k.val) @@ pre, out, stopAfter)
             ELSE IF preId = 0
             THEN IterColsNoFlush(Tail(keys), k.id, new, out, stopAfter)
             ELSE IF stopAfter > 0 /\ Len(out) + 1 >= stopAfter
             THEN Append(out, pre)
             ELSE IterColsNoFlush(Tail(keys), k.id, new, Append(out, pre), stopAfter)

\* iterateConversation: the columns of one id are gathered into
\* preConversation; when the id changes, the previous conversation is
\* handed to iterFnc, which stops the walk by returning false after
\* stopAfter conversations (never when stopAfter = 0); the last one is
\* handed over after the loop unless the walk was stopped.  Returns the
\* conversations iterFnc received.
RECURSIVE IterCols(_, _, _, _, _)
IterCols(keys, preId, pre, out, stopAfter) ==
    IF keys = <<>> THEN IF preId # 0 THEN Append(out, pre) ELSE out
    ELSE LET k == Head(keys)
             new == (k.col :> k.val) @@ ("id" :> k.id)
         IN  IF preId = k.id
             THEN IterCols(Tail(keys), preId, (k.col :> k.val) @@ pre, out, stopAfter)
             ELSE IF preId = 0
             THEN IterCols(Tail(keys), k.id, new, out, stopAfter)
             ELSE IF stopAfter > 0 /\ Len(out) + 1 >= stopAfter
             THEN Append(out, pre)
             ELSE IterCols(Tail(keys), k.id, new, Append(out, pre), stopAfter)

\* GetConversations: every conversation of the user, in id order.
GetConversations == IterCols(ColumnKeys(DOMAIN rows), 0, <<>>, <<>>, 0)

\* The error a read returns for a missing conversation.
ErrNotFound == [err |-> "not found"]

\* getConversation: the columns of one id; ErrNotFound when it has none.
getConversation(id) ==
    LET out == IterCols(ColumnKeys({id}), 0, <<>>, <<>>, 1)
    IN  IF out = <<>> THEN ErrNotFound ELSE out[1]

\* GetConversation: the id from the channel index, then its columns.
GetConversation(ch) ==
    IF IdOfChannel(ch) = 0 THEN ErrNotFound ELSE getConversation(IdOfChannel(ch))

-----------------------------------------------------------------------------
(* Actions *)

Inputs ==
    {s \in UNION {[1..k -> Channel] : k \in 1..2} :
        DistinctInput => \A i, j \in DOMAIN s : i # j => s[i] # s[j]}

\* time.Now() read a second time: the clock may have moved meanwhile.
LaterNow == IF NowMayAdvance /\ clock < MaxTime THEN {clock, clock + 1} ELSE {clock}

\* A caller enters AddOrUpdateConversations, DeleteConversation (one
\* channel) or DeleteConversations with a new batch.
Start(c) ==
    /\ pc[c] = "idle"
    /\ calls < MaxCalls
    /\ \E kind \in {"add", "del"}, chs \in Inputs :
         /\ pc' = [pc EXCEPT ![c] = kind]
         /\ todo' = [todo EXCEPT ![c] = chs]
    /\ calls' = calls + 1
    /\ batch' = [batch EXCEPT ![c] = <<>>]
    /\ created' = [created EXCEPT ![c] = 0]
    /\ UNCHANGED <<chanIdx, rows, updIdx, count, clock, nextId>>

\* One conversation of AddOrUpdateConversations: look the id up, take a
\* new id if there is none, write the conversation to the batch.
AddOne(c) ==
    /\ pc[c] = "add"
    /\ LET ch == Head(todo[c])
           id0 == IdOfChannel(ch)
           isCreate == id0 = 0
           id == IF isCreate THEN nextId ELSE id0
       IN  /\ isCreate => nextId <= MaxId
           /\ nextId' = IF isCreate THEN nextId + 1 ELSE nextId
           /\ created' = [created EXCEPT ![c] = @ + (IF isCreate THEN 1 ELSE 0)]
           /\ \E nw2 \in LaterNow :
                /\ batch' = [batch EXCEPT ![c] = @ \o
                               WriteConversationWrites(ch, id, clock, nw2)]
                /\ clock' = nw2
    /\ todo' = [todo EXCEPT ![c] = Tail(@)]
    /\ pc' = [pc EXCEPT ![c] = IF Tail(todo[c]) = <<>> THEN "inc" ELSE "add"]
    /\ UNCHANGED <<chanIdx, rows, updIdx, count, calls>>

\* IncConversationCount(createCount), before the batch commits.
Inc(c) ==
    /\ pc[c] = "inc"
    /\ count' = count + created[c]
    /\ pc' = [pc EXCEPT ![c] = "commit"]
    /\ UNCHANGED <<chanIdx, rows, updIdx, clock, nextId, calls,
                   todo, batch, created>>

\* One channel of DeleteConversation(s): deleteConversation.
DelOne(c) ==
    /\ pc[c] = "del"
    /\ LET ch == Head(todo[c])
           id == IdOfChannel(ch)
       IN  /\ batch' = [batch EXCEPT ![c] = @ \o (IF id = 0 THEN <<>> ELSE DeleteWrites(ch))]
           /\ count' = count + DeleteCountDelta(id)
    /\ todo' = [todo EXCEPT ![c] = Tail(@)]
    /\ pc' = [pc EXCEPT ![c] = IF Tail(todo[c]) = <<>> THEN "commit" ELSE "del"]
    /\ UNCHANGED <<chanIdx, rows, updIdx, clock, nextId, calls, created>>

\* batch.Commit: all writes or, on an error, none.
Commit(c) ==
    /\ pc[c] = "commit"
    /\ \/ LET d == ApplyBatch(DbRecord, batch[c])
          IN  /\ chanIdx' = d.chanIdx /\ rows' = d.rows
              /\ updIdx' = d.upd
       \/ /\ CommitMayFail
          /\ UNCHANGED <<chanIdx, rows, updIdx>>
    /\ pc' = [pc EXCEPT ![c] = "idle"]
    /\ batch' = [batch EXCEPT ![c] = <<>>]
    /\ UNCHANGED <<count, clock, nextId, calls, todo, created>>

\* The wall clock moves on.
Tick ==
    /\ clock < MaxTime
    /\ clock' = clock + 1
    /\ UNCHANGED <<chanIdx, rows, updIdx, count, nextId, calls,
                   pc, todo, batch, created>>

Next ==
    \/ Tick
    \/ \E c \in Caller : Start(c) \/ AddOne(c) \/ Inc(c) \/ DelOne(c) \/ Commit(c)

Spec == Init /\ [][Next]_vars

-----------------------------------------------------------------------------
(* Properties *)

TypeOK ==
    /\ DOMAIN rows \subseteq 1..MaxId
    /\ \A i \in DOMAIN rows : rows[i].ch \in Channel
    /\ count \in Nat
    /\ pc \in [Caller -> {"idle", "add", "del", "inc", "commit"}]

Quiet == \A c \in Caller : pc[c] = "idle"

\* A user has one conversation per channel (spec 3: a row keyed by uid,
\* channel id and channel type): AddOrUpdateConversations looks the channel
\* up in the committed index before it takes a new id.
OneRowPerChannel ==
    \A i, j \in DOMAIN rows : i # j => rows[i].ch # rows[j].ch

\* When no call is in progress, the conversation count equals the number of
\* conversations: AddOrUpdateConversations counts each row it creates and
\* deleteConversation each row it deletes.
CountMatches == Quiet => count = Cardinality(DOMAIN rows)

\* The channel index and the rows agree: every entry names a row of that
\* channel and every row is reachable from its channel.
ChannelIndexMatchesRows ==
    /\ \A ch \in DOMAIN chanIdx :
          chanIdx[ch] \in DOMAIN rows /\ rows[chanIdx[ch]].ch = ch
    /\ \A i \in DOMAIN rows : rows[i].ch \in DOMAIN chanIdx

\* The conversation of row i as the read paths should return it.
ConvOf(i) == [id |-> i, ch |-> rows[i].ch, updated |-> rows[i].updated]

\* The rows ranked by a strict order: the row with j-1 rows before it.
RankedRows(S, before(_, _), n) ==
    [j \in 1..n |-> ConvOf(CHOOSE i \in S :
                        Cardinality({k \in S : before(k, i)}) = j - 1)]

IdBefore(k, i) == k < i

\* GetConversations returns every conversation once, in id order, with the
\* columns its row holds, and GetConversation finds a channel's
\* conversation exactly when it has one: iterateConversation's grouping of
\* column keys by id hands over every group, the last one included.
ReadsReturnEveryRow ==
    /\ GetConversations = RankedRows(DOMAIN rows, IdBefore, Cardinality(DOMAIN rows))
    /\ \A ch \in Channel :
          GetConversation(ch) =
              IF \E i \in DOMAIN rows : rows[i].ch = ch
              THEN ConvOf(CHOOSE i \in DOMAIN rows : rows[i].ch = ch)
              ELSE ErrNotFound
====
