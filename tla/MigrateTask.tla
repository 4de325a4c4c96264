---------------------------- MODULE MigrateTask ----------------------------
(***************************************************************************)
(* The import of a legacy (v1) server's data (internal/server/             *)
(* task_migrate.go).  Run picks the step to start from; run() calls the    *)
(* current step, waits for the 5 s ticker and calls it again until a step  *)
(* sets stop.  The message step walks the slots, fetches each slot's       *)
(* topics and imports them in an errgroup, one goroutine per topic, each   *)
(* paging through the topic's messages; the user and channel steps fetch   *)
(* their lists and import every entry in an errgroup.  A step that meets   *)
(* an error records it in lastErr and returns; the next tick calls it again *)
(* from the start.  A successful step moves stepFnc on and resets          *)
(* currentTryCount and lastErr.                                            *)
(*                                                                         *)
(* The legacy server is a set of topics per slot, a number of message     *)
(* pages per topic, and lists of users and channels; every fetch and every *)
(* store write may fail, at most MaxFails times in all.  The process may   *)
(* stop and start again (MaxCrashes times): the in-memory task is lost,    *)
(* the store keeps what was written.  The store keys messages by (channel, *)
(* seq) and users and channels by their ids, so writing again is an        *)
(* overwrite.                                                              *)
(***************************************************************************)
EXTENDS Naturals, FiniteSets

CONSTANTS
    Topic,       \* topics of the legacy server
    User,        \* users of the legacy server
    Chan,        \* channels of the legacy server
    NumSlots,    \* slotNum
    TopicsOf,    \* slot -> the topics getTopicsFromOldVersion returns
    SkipTopic,   \* topics importMessage returns nil for (invalid, userqueue_)
    Pages,       \* topic -> number of non-empty messagesync pages
    StartStep,   \* opts.MigrateStartStep
    MaxFails,    \* bound on the failed fetches and writes
    MaxCrashes   \* bound on process restarts

Steps == <<"message", "user", "channel">>
StepIdx == [s \in {"message", "user", "channel"} |-> CHOOSE i \in 1..3 : Steps[i] = s]
Slot == 0..(NumSlots - 1)
Item == Topic \cup User \cup Chan
UserParts == <<"info", "allow", "deny", "convs">>
ChanParts == <<"info", "subs", "allow", "deny">>

ASSUME StartStep \in {"message", "user", "channel"}
ASSUME TopicsOf \in [Slot -> SUBSET Topic] /\ SkipTopic \subseteq Topic

VARIABLES
    step,       \* currentStep, and the stepFnc it names
    stop,       \* m.stop
    tryCount,   \* currentTryCount
    lastErr,    \* lastErr # nil
    pc,         \* "fetch", "import" (errgroup running), "wait" (ticker), "done"
    slot,       \* the slot of the message step's loop
    gr,         \* errgroup goroutines: item -> "run" | "ok" | "err"
    seq,        \* per topic goroutine: startMessageSeq, as a page number
    msgs,       \* store: the message pages written, <<topic, page>>
    userDone,   \* store: user -> the parts importUser has written
    chanDone,   \* store: channel -> the parts importChannel has written
    fails,      \* failures so far
    crashes     \* restarts so far

vars == <<step, stop, tryCount, lastErr, pc, slot, gr, seq, msgs,
          userDone, chanDone, fails, crashes>>

\* Run, with IsMigrated() false (no code writes the migrated marker), then
\* the first round of run(): currentTryCount++ and a call of stepFnc.
StartTask ==
    /\ step = StartStep
    /\ stop = FALSE
    /\ tryCount = 1
    /\ lastErr = FALSE
    /\ pc = "fetch"
    /\ slot = 0
    /\ gr = [x \in {} |-> "run"]
    /\ seq = [t \in {} |-> 1]

Init ==
    /\ StartTask
    /\ msgs = {}
    /\ userDone = [x \in User |-> {}]
    /\ chanDone = [x \in Chan |-> {}]
    /\ fails = 0
    /\ crashes = 0

Prefix(s, k) == {s[i] : i \in 1..k}
CanFail == fails < MaxFails
Fail == fails' = fails + 1

-----------------------------------------------------------------------------
(* Fetching the lists.                                                     *)

\* A fetch from the legacy server fails: lastErr = err, return.
FetchFailed ==
    /\ CanFail /\ Fail
    /\ lastErr' = TRUE
    /\ pc' = "wait"
    /\ UNCHANGED <<step, stop, tryCount, slot, gr, seq, msgs, userDone, chanDone, crashes>>

\* The errgroup starts one goroutine per fetched item.
Spawn(items) ==
    /\ gr' = [x \in items |-> "run"]
    /\ seq' = [t \in items \cap Topic |-> 1]
    /\ pc' = "import"
    /\ UNCHANGED <<step, stop, tryCount, lastErr, slot, msgs, userDone, chanDone, fails, crashes>>

\* stepMessageImport: getTopicsFromOldVersion(slot).
FetchTopics ==
    /\ pc = "fetch" /\ step = "message"
    /\ FetchFailed \/ Spawn(TopicsOf[slot])

\* stepUserImport: getUserFromOldVersion.
FetchUsers ==
    /\ pc = "fetch" /\ step = "user"
    /\ FetchFailed \/ Spawn(User)

\* stepChannelImport: getChannelFromOldVersion.
FetchChannels ==
    /\ pc = "fetch" /\ step = "channel"
    /\ FetchFailed \/ Spawn(Chan)

-----------------------------------------------------------------------------
(* The goroutines of an errgroup.                                          *)

\* The end of a goroutine: on an error it sets lastErr and returns it.
Finish(x, ok) ==
    /\ gr' = [gr EXCEPT ![x] = IF ok THEN "ok" ELSE "err"]
    /\ lastErr' = (lastErr \/ ~ok)

\* Fault variant: startMessageSeq moves past a page whose append failed.
AppendFailedSkip(t) == seq' = [seq EXCEPT ![t] = @ + 1]

\* AppendMessages failed: continue, the same page is fetched again.
AppendFailed(t) == UNCHANGED seq

\* One round of importMessage's loop for topic t: a topic it does not
\* import returns nil; messagesync fails (return err) or returns no
\* messages (break, return nil) or a page, which is appended; on success
\* startMessageSeq moves past the page.
ImportPage(t) ==
    /\ pc = "import" /\ step = "message"
    /\ t \in DOMAIN gr /\ gr[t] = "run"
    /\ \/ /\ t \in SkipTopic
          /\ Finish(t, TRUE)
          /\ UNCHANGED <<seq, msgs, fails>>
       \/ /\ t \notin SkipTopic /\ CanFail /\ Fail
          /\ Finish(t, FALSE)
          /\ UNCHANGED <<seq, msgs>>
       \/ /\ t \notin SkipTopic /\ seq[t] > Pages[t]
          /\ Finish(t, TRUE)
          /\ UNCHANGED <<seq, msgs, fails>>
       \/ /\ t \notin SkipTopic /\ seq[t] <= Pages[t]
          /\ \/ /\ msgs' = msgs \cup {<<t, seq[t]>>}
                /\ seq' = [seq EXCEPT ![t] = @ + 1]
                /\ UNCHANGED fails
             \/ /\ CanFail /\ Fail
                /\ AppendFailed(t)
                /\ UNCHANGED msgs
          /\ UNCHANGED <<gr, lastErr>>
    /\ UNCHANGED <<step, stop, tryCount, pc, slot, userDone, chanDone, crashes>>

\* importUser / importChannel: the relation data and each store write in
\* turn; a failure returns after the writes made so far.
ImportEntry(x, parts, done) ==
    /\ \/ /\ done' = [done EXCEPT ![x] = @ \cup Prefix(parts, 4)]
          /\ Finish(x, TRUE)
          /\ UNCHANGED fails
       \/ /\ CanFail /\ Fail
          /\ \E k \in 0..3 : done' = [done EXCEPT ![x] = @ \cup Prefix(parts, k)]
          /\ Finish(x, FALSE)
    /\ UNCHANGED <<step, stop, tryCount, pc, slot, seq, msgs, crashes>>

ImportUser(x) ==
    /\ pc = "import" /\ step = "user"
    /\ x \in DOMAIN gr /\ gr[x] = "run"
    /\ ImportEntry(x, UserParts, userDone)
    /\ UNCHANGED chanDone

ImportChannel(x) ==
    /\ pc = "import" /\ step = "channel"
    /\ x \in DOMAIN gr /\ gr[x] = "run"
    /\ ImportEntry(x, ChanParts, chanDone)
    /\ UNCHANGED userDone

-----------------------------------------------------------------------------
(* requestGroup.Wait() and the end of a step.                              *)

Settled == pc = "import" /\ \A x \in DOMAIN gr : gr[x] # "run"
AnyErr == \E x \in DOMAIN gr : gr[x] = "err"

\* Wait returned an error: lastErr = err, return.
GroupFailed ==
    /\ AnyErr
    /\ pc' = "wait"
    /\ UNCHANGED <<step, stop, tryCount, lastErr, slot, gr, seq, msgs, userDone, chanDone, fails, crashes>>

\* A step has imported everything: stepFnc and currentStep move on,
\* currentTryCount = 0, lastErr = nil; run() waits for the ticker.
StepOver(next, stp) ==
    /\ ~AnyErr
    /\ step' = next /\ stop' = stp
    /\ tryCount' = 0 /\ lastErr' = FALSE
    /\ pc' = "wait"
    /\ UNCHANGED <<slot, gr, seq, msgs, userDone, chanDone, fails, crashes>>

\* Fault variant: the loop runs one slot past the last (i <= slotNum).
MoreSlotsPast == slot < NumSlots

\* for i := 0; i < slotNum; i++
MoreSlots == slot + 1 < NumSlots

\* stepMessageImport after the errgroup of a slot: the next slot, or the
\* step is over.
WaitTopics ==
    /\ Settled /\ step = "message"
    /\ \/ GroupFailed
       \/ /\ ~AnyErr /\ MoreSlots
          /\ slot' = slot + 1
          /\ pc' = "fetch"
          /\ UNCHANGED <<step, stop, tryCount, lastErr, gr, seq, msgs, userDone, chanDone, fails, crashes>>
       \/ /\ ~MoreSlots
          /\ StepOver("user", FALSE)

WaitUsers ==
    /\ Settled /\ step = "user"
    /\ GroupFailed \/ StepOver("channel", FALSE)

WaitChannels ==
    /\ Settled /\ step = "channel"
    /\ GroupFailed \/ StepOver("channel", TRUE)

\* Fault variant: run() loops without checking stop.
TickNoStopCheck ==
    /\ pc = "wait"
    /\ pc' = "fetch" /\ slot' = 0
    /\ tryCount' = tryCount + 1
    /\ UNCHANGED <<step, stop, lastErr, gr, seq, msgs, userDone, chanDone, fails, crashes>>

\* run(): the ticker fires; the loop ends when stop is set, else
\* currentTryCount++ and stepFnc runs again from its start.
Tick ==
    /\ pc = "wait"
    /\ IF stop
       THEN pc' = "done" /\ UNCHANGED <<slot, tryCount>>
       ELSE pc' = "fetch" /\ slot' = 0 /\ tryCount' = tryCount + 1
    /\ UNCHANGED <<step, stop, lastErr, gr, seq, msgs, userDone, chanDone, fails, crashes>>

\* The server stops and starts again: the task starts over with Run; the
\* store keeps what was written.
Restart ==
    /\ crashes < MaxCrashes
    /\ crashes' = crashes + 1
    /\ step' = StartStep /\ stop' = FALSE /\ tryCount' = 1 /\ lastErr' = FALSE
    /\ pc' = "fetch" /\ slot' = 0
    /\ gr' = [x \in {} |-> "run"] /\ seq' = [t \in {} |-> 1]
    /\ UNCHANGED <<msgs, userDone, chanDone, fails>>

\* run() has returned.
Terminated ==
    /\ pc = "done"
    /\ UNCHANGED vars

Next ==
    \/ FetchTopics \/ FetchUsers \/ FetchChannels
    \/ \E t \in Topic : ImportPage(t)
    \/ \E x \in User : ImportUser(x)
    \/ \E x \in Chan : ImportChannel(x)
    \/ WaitTopics \/ WaitUsers \/ WaitChannels
    \/ Tick \/ Restart \/ Terminated

\* Every step of the task is taken once enabled: goroutines run, the
\* ticker fires.  Restarts are not forced.
Fairness ==
    /\ WF_vars(FetchTopics) /\ WF_vars(FetchUsers) /\ WF_vars(FetchChannels)
    /\ \A t \in Topic : WF_vars(ImportPage(t))
    /\ \A x \in User : WF_vars(ImportUser(x))
    /\ \A x \in Chan : WF_vars(ImportChannel(x))
    /\ WF_vars(WaitTopics) /\ WF_vars(WaitUsers) /\ WF_vars(WaitChannels)
    /\ WF_vars(Tick)

Spec == Init /\ [][Next]_vars /\ Fairness

\* GetMigrateResult's status (IsMigrated() is false).
Status == IF stop THEN "completed" ELSE "running"

-----------------------------------------------------------------------------
(* Properties *)

TypeOK ==
    /\ step \in {"message", "user", "channel"}
    /\ pc \in {"fetch", "import", "wait", "done"}
    /\ slot \in Slot
    /\ DOMAIN gr \subseteq Item /\ \A x \in DOMAIN gr : gr[x] \in {"run", "ok", "err"}
    /\ DOMAIN seq \subseteq Topic
    /\ \A m \in msgs : m[1] \in Topic /\ m[2] \in 1..Pages[m[1]]
    /\ tryCount \in Nat /\ lastErr \in BOOLEAN /\ stop \in BOOLEAN

\* What a finished step has put in the store.
StepComplete(s) ==
    CASE s = "message" ->
            \A sl \in Slot : \A t \in TopicsOf[sl] \ SkipTopic :
                \A p \in 1..Pages[t] : <<t, p>> \in msgs
      [] s = "user" -> \A x \in User : userDone[x] = Prefix(UserParts, 4)
      [] s = "channel" -> \A x \in Chan : chanDone[x] = Prefix(ChanParts, 4)

\* A step run() has moved past (or every step, once the status is
\* "completed") has imported all of the legacy data: every message page of
\* every topic of every slot, and every part of every user and channel,
\* across failed appends, failed fetches, retries and restarts.
StepsComplete ==
    \A s \in {"message", "user", "channel"} :
        /\ StepIdx[StartStep] <= StepIdx[s]
        /\ StepIdx[s] < StepIdx[step] \/ Status = "completed"
        => StepComplete(s)

\* When failures and restarts stop, the task ends: run() returns with
\* stop set.
EventuallyDone == <>[](pc = "done")
====
