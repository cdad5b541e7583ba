-------------------------------- MODULE Reducer --------------------------------
(***************************************************************************)
(* The reduce transform of utils/dataflow/src/index.js, which is both the  *)
(* accumulator and the aggregator: calls that post a usage, the batches    *)
(* they are gathered in, the locks, and the output database.               *)
(*                                                                         *)
(* A call is serialised with the calls of the same usage, looks for a      *)
(* duplicate, logs its input and joins a batch.  The calls of a batch are  *)
(* reduced together, group by group, under the lock of the group: the last *)
(* documents of the month are read, the usages are added, the results      *)
(* posted to the sink and logged; and all calls of a batch are answered    *)
(* when the last of its groups is done.  Every database or network call in *)
(* between is a step of its own, which may fail.                           *)
(***************************************************************************)
EXTENDS UsageOutput

CONSTANTS
    Calls,             \* calls that can be in progress at once, of clients and of replay
    LockOf,            \* opt.input.groups[0]: the lock of a group
    HasSink,           \* the accumulator posts to the aggregator, which posts nowhere
    HasSlack, Slack,   \* the accumulator refuses usage of a month that ended Slack ago
    CallsSpanPeriods,  \* a period may begin while calls are in progress
    MaxFaults          \* bounds the failures and crashes

ASSUME ReducerAssumption ==
    /\ HasSink \in BOOLEAN /\ HasSlack \in BOOLEAN /\ CallsSpanPeriods \in BOOLEAN
    /\ Slack \in Nat /\ MaxFaults \in Nat

VARIABLES
    clock,         \* the current period
    call,          \* what each call is doing
    queue,         \* the calls of each group that wait for their batch
    runs,          \* the groups of calls being reduced
    batches,       \* the calls that were flushed together, and are answered together
    cache,         \* ddup: the usages known to be duplicates
    inputs,        \* the usages in the input database
    sink,          \* the usages the sink has taken in
    toReplay,      \* the inputs a restarted instance has still to look at
    acknowledged,  \* ghost: usages answered 201 or 409, which the meter takes as done
    torn,          \* ghost: keys of groups of which only some outputs were logged
    faults

inputVars == <<cache, inputs, sink, toReplay>>
vars == <<outputVars, inputVars, clock, call, queue, runs, batches, acknowledged, torn, faults>>

Idle == [at |-> "idle", usage |-> None, period |-> 0, client |-> TRUE]

\* What the group of a call came to: the call is done and its usage a duplicate from now
\* on, or done like a duplicate, or in error.
Outcomes == {"succeeded", "conflicting", "failing"}

Call == {Idle} \cup [at : {"locking", "logging", "batched", "reducing"} \cup Outcomes,
                     usage : Usages, period : Periods, client : BOOLEAN]

\* calls in the order in which they were batched, the last documents of their keys,
\* and how many were reduced without a business error.
Run == [batch : Seq(Calls), at : {"waiting", "reduced", "posted"},
        base : [Keys -> LastDoc \cup {None}], good : Nat]

TypeOK ==
    /\ OutputTypeOK
    /\ clock \in Periods
    /\ call \in [Calls -> Call]
    /\ queue \in [Groups -> Seq(Calls)]
    /\ runs \subseteq Run
    /\ batches \subseteq SUBSET Calls
    /\ cache \subseteq Usages /\ inputs \subseteq Usages /\ sink \subseteq Usages
    /\ toReplay \subseteq Usages /\ acknowledged \subseteq Usages
    /\ torn \subseteq Keys
    /\ faults \in 0 .. MaxFaults

Init ==
    /\ OutputInit
    /\ clock = 0
    /\ call = [c \in Calls |-> Idle]
    /\ queue = [g \in Groups |-> <<>>]
    /\ runs = {} /\ batches = {}
    /\ cache = {} /\ inputs = {} /\ sink = {} /\ toReplay = {}
    /\ acknowledged = {} /\ torn = {}
    /\ faults = 0

Fault == faults < MaxFaults /\ faults' = faults + 1
NoFault == UNCHANGED faults

-----------------------------------------------------------------------------
(* One call: play.                                                         *)

\* itime and otimes: this period, or the last one of a month that is over.
PeriodOf(u) == IF UsageMonth[u] = MonthOf[clock] THEN clock ELSE LastPeriodOf(UsageMonth[u])

\* The times are taken when the call comes in, before it waits for any lock.
\* The meter puts aside usage of a day to come.
Play(c, u, client) ==
    /\ call[c] = Idle
    /\ UsageMonth[u] <= MonthOf[clock]
    /\ call' = [call EXCEPT ![c] = [at |-> "locking", usage |-> u,
                                    period |-> PeriodOf(u), client |-> client]]

Post(c, u) ==
    /\ Play(c, u, TRUE)
    /\ UNCHANGED <<outputVars, inputVars, clock, queue, runs, batches, acknowledged, torn,
                   faults>>

\* replayDoc, after a restart: one input at a time, unless its marker is there.
Replay(c, u) ==
    /\ u \in toReplay /\ \A d \in Calls : call[d].client
    /\ toReplay' = toReplay \ {u}
    /\ IF u \in markers THEN UNCHANGED call ELSE Play(c, u, FALSE)
    /\ UNCHANGED <<outputVars, cache, inputs, sink, clock, queue, runs, batches, acknowledged,
                   torn, faults>>

\* The call is answered; a client that gets 201 or 409 is done with its usage.
Answer(c, done) ==
    /\ call' = [call EXCEPT ![c] = Idle]
    /\ acknowledged' = IF done /\ call[c].client
                       THEN acknowledged \cup {call[c].usage} ELSE acknowledged

\* No other call of this usage is between its locks.
OidFree(c) ==
    \A d \in Calls \ {c} :
        call[d].usage = call[c].usage => call[d].at \in {"idle", "locking"}

\* detectDup, when the call gets the lock of its usage.
DetectDup(c) ==
    /\ call[c].at = "locking" /\ OidFree(c)
    /\ IF call[c].usage \in cache \cup markers
       THEN Answer(c, TRUE)
       ELSE call' = [call EXCEPT ![c].at = "logging"] /\ UNCHANGED acknowledged
    /\ UNCHANGED <<outputVars, inputVars, clock, queue, runs, batches, torn, faults>>

\* logInput.  A conflict is taken as the sign that the input is there, although the one
\* that met it may be another document of the same bulk operation.
LogInput(c) ==
    LET group == GroupOf[call[c].usage] IN
    /\ call[c].at = "logging"
    /\ call' = [call EXCEPT ![c].at = "batched"]
    /\ queue' = [queue EXCEPT ![group] = Append(@, c)]
    /\ \/ inputs' = inputs \cup {call[c].usage} /\ NoFault
       \/ inputs' = inputs /\ Fault
    /\ UNCHANGED <<outputVars, cache, sink, toReplay, clock, runs, batches, acknowledged, torn>>

\* The database answers neither detectDup nor logInput.
Fail(c) ==
    /\ call[c].at \in {"locking", "logging"} /\ OidFree(c)
    /\ Answer(c, FALSE)
    /\ Fault
    /\ UNCHANGED <<outputVars, inputVars, clock, queue, runs, batches, torn>>

-----------------------------------------------------------------------------
(* A group of calls: groupReduce.                                          *)

Members(r) == {r.batch[i] : i \in DOMAIN r.batch}
Good(r) == {r.batch[i] : i \in 1 .. r.good}
UsagesOf(cs) == {call[c].usage : c \in cs}
GroupOfRun(r) == GroupOf[call[r.batch[1]].usage]

\* A mutant: the batch forgets its calls only when they are answered.
FlushKeepsQueue ==
    LET waiting == {g \in Groups : queue[g] # <<>>} IN
    /\ waiting # {}
    /\ runs' = runs \cup {[batch |-> queue[g], at |-> "waiting",
                           base |-> [k \in Keys |-> None], good |-> 0] : g \in waiting}
    /\ call' = [c \in Calls |-> IF call[c].at = "batched"
                                THEN [call[c] EXCEPT !.at = "reducing"] ELSE call[c]]
    /\ batches' = batches \cup {{c \in Calls : call[c].at = "batched"}}
    /\ UNCHANGED <<outputVars, inputVars, clock, queue, acknowledged, torn, faults>>

\* A mutant: a batch has no timer.
FlushWhenFull ==
    LET full == {g \in Groups : Len(queue[g]) = 2} IN
    /\ full # {}
    /\ runs' = runs \cup {[batch |-> queue[g], at |-> "waiting",
                           base |-> [k \in Keys |-> None], good |-> 0] : g \in full}
    /\ call' = [c \in Calls |-> IF call[c].at = "batched" /\ GroupOf[call[c].usage] \in full
                                THEN [call[c] EXCEPT !.at = "reducing"] ELSE call[c]]
    /\ batches' = batches \cup
          {{c \in Calls : call[c].at = "batched" /\ GroupOf[call[c].usage] \in full}}
    /\ queue' = [g \in Groups |-> IF g \in full THEN <<>> ELSE queue[g]]
    /\ UNCHANGED <<outputVars, inputVars, clock, acknowledged, torn, faults>>

\* The batch is full, or its time has come.
Flush ==
    LET waiting == {g \in Groups : queue[g] # <<>>} IN
    /\ waiting # {}
    /\ runs' = runs \cup {[batch |-> queue[g], at |-> "waiting",
                           base |-> [k \in Keys |-> None], good |-> 0] : g \in waiting}
    /\ call' = [c \in Calls |-> IF call[c].at = "batched"
                                THEN [call[c] EXCEPT !.at = "reducing"] ELSE call[c]]
    /\ batches' = batches \cup {{c \in Calls : call[c].at = "batched"}}
    /\ queue' = [g \in Groups |-> <<>>]
    /\ UNCHANGED <<outputVars, inputVars, clock, acknowledged, torn, faults>>

Advance(r, s) == runs' = (runs \ {r}) \cup {s}

\* The group is unlocked.  Its calls will be answered: those in done with 201 or 409, the
\* others with an error; those in known will be filtered.
Finish(r, done, known) ==
    /\ runs' = runs \ {r}
    /\ call' = [c \in Calls |->
           IF c \notin Members(r) THEN call[c]
           ELSE [call[c] EXCEPT !.at = IF c \in known THEN "succeeded"
                                       ELSE IF c \in done THEN "conflicting" ELSE "failing"]]
    /\ UNCHANGED <<cache, acknowledged, batches>>

\* All groups of a batch are done: its calls are answered, and unlock their usages.
AnswerBatch(b) ==
    LET with(outcomes) == {c \in b : call[c].at \in outcomes} IN
    /\ \A c \in b : call[c].at \in Outcomes
    /\ batches' = batches \ {b}
    /\ call' = [c \in Calls |-> IF c \in b THEN Idle ELSE call[c]]
    /\ acknowledged' = acknowledged \cup
           UsagesOf({c \in with({"succeeded", "conflicting"}) : call[c].client})
    /\ cache' = cache \cup UsagesOf(with({"succeeded"}))
    /\ UNCHANGED <<outputVars, inputs, sink, toReplay, clock, queue, runs, torn, faults>>

\* A mutant: a lock for the calls that are reduced together, whatever keys they share.
LockedByGroup(g) == \E q \in runs : q.at # "waiting" /\ GroupOfRun(q) = g

\* The lock of a group is taken by a run, maybe of another group.
Locked(g) == \E q \in runs : q.at # "waiting" /\ LockOf[GroupOfRun(q)] = LockOf[g]

\* outOfSlack, by the clock of the reduction.
OutOfSlack(u) ==
    /\ HasSlack
    /\ UsageMonth[u] < MonthOf[clock]
    /\ clock >= FirstPeriodOf(MonthOf[clock]) + Slack

\* One usage out of slack fails its whole group, with a conflict the meter can tell.
RefuseSlack(r) ==
    /\ r.at = "waiting" /\ ~Locked(GroupOfRun(r))
    /\ \E u \in UsagesOf(Members(r)) : OutOfSlack(u)
    /\ Finish(r, {}, {})
    /\ UNCHANGED <<outputVars, inputs, sink, toReplay, clock, queue, torn, faults>>

\* lastAccum for the keys and the month of the first call, and the reduction of all.
\* A business error carries over to the calls behind it.
Reduce(r) ==
    LET month == MonthOf[call[r.batch[1]].period] IN
    /\ r.at = "waiting" /\ ~Locked(GroupOfRun(r))
    /\ \A u \in UsagesOf(Members(r)) : ~OutOfSlack(u)
    /\ \E good \in 0 .. Len(r.batch) :
        /\ IF good < Len(r.batch) THEN Fault ELSE NoFault
        /\ Advance(r, [r EXCEPT !.at = "reduced", !.good = good,
               !.base = [k \in Keys |-> IF k \in KeysOf[GroupOfRun(r)]
                                        THEN LastAccum(k, month) ELSE None]])
    /\ UNCHANGED <<outputVars, inputVars, clock, call, queue, batches, acknowledged, torn>>

\* The database or the plugin that has the plans does not answer.
FailReduce(r) ==
    /\ r.at = "waiting" /\ ~Locked(GroupOfRun(r))
    /\ Finish(r, {}, {})
    /\ Fault
    /\ UNCHANGED <<outputVars, inputs, sink, toReplay, clock, queue, torn>>

\* postOutputs.  A 409 of the sink counts as success.  If one call of the group has a
\* business error nothing is logged, and the others are still answered with success.
PostOutputs(r) ==
    /\ r.at = "reduced"
    /\ sink' = IF HasSink THEN sink \cup UsagesOf(Good(r)) ELSE sink
    /\ IF r.good = Len(r.batch)
       THEN Advance(r, [r EXCEPT !.at = "posted"])
            /\ UNCHANGED <<call, acknowledged, cache, batches>>
       ELSE Finish(r, Good(r), Good(r))
    /\ UNCHANGED <<outputVars, inputs, toReplay, clock, queue, torn, faults>>

\* A mutant: the exception of a post is logged and forgotten.
FailPostIgnored(r) ==
    /\ r.at = "reduced" /\ HasSink
    /\ \E taken \in SUBSET UsagesOf(Good(r)) : sink' = sink \cup taken
    /\ Advance(r, [r EXCEPT !.at = "posted"])
    /\ Fault
    /\ UNCHANGED <<outputVars, inputs, toReplay, clock, queue, torn, call, acknowledged, cache,
                   batches>>

\* Some of the posts fail, which does not say whether the sink has the usage.
FailPost(r) ==
    /\ r.at = "reduced" /\ HasSink
    /\ \E taken \in SUBSET UsagesOf(Good(r)) : sink' = sink \cup taken
    /\ Finish(r, {}, {})
    /\ Fault
    /\ UNCHANGED <<outputVars, inputs, toReplay, clock, queue, torn>>

-----------------------------------------------------------------------------
(* The outputs of a group: logOutputs.                                     *)

PeriodAt(r, i) == call[r.batch[i]].period

\* What is put for the i-th call: its marker (key None), and the documents of its period
\* unless a later call has a later version of them.
Puts(r) ==
    {put \in [index : DOMAIN r.batch, key : KeysOf[GroupOfRun(r)] \cup {None}] :
        put.key # None => \A j \in DOMAIN r.batch :
                              j > put.index => PeriodAt(r, j) # PeriodAt(r, put.index)}

Conflicting(r) ==
    {put \in Puts(r) : put.key # None
                         /\ Conflicts(put.key, PeriodAt(r, put.index), r.base[put.key])}

\* The last call comes first, and its marker before its documents.
PutBefore(x, y) == x.index > y.index \/ (x.index = y.index /\ x.key = None /\ y.key # None)

Write(r, written) ==
    /\ docs' = [k \in Keys |-> [p \in Periods |->
           IF \E put \in written : put.key = k /\ PeriodAt(r, put.index) = p
           THEN LET put == CHOOSE x \in written : x.key = k /\ PeriodAt(r, x.index) = p
                IN  Reduced(r.base[k], [i \in 1 .. put.index |-> call[r.batch[i]].usage])
           ELSE docs[k][p]]]
    /\ markers' = markers \cup
                    {call[r.batch[put.index]].usage : put \in {x \in written : x.key = None}}
    /\ torn' = IF written = {} \/ written = Puts(r) THEN torn ELSE torn \cup KeysOf[GroupOfRun(r)]

LogOutputs(r) ==
    /\ r.at = "posted" /\ Conflicting(r) = {}
    /\ Write(r, Puts(r))
    /\ Finish(r, Members(r), Members(r))
    /\ UNCHANGED <<inputs, sink, toReplay, clock, queue, faults>>

\* A conflict fails the bulk operation from there on, which is all of it but for what went
\* to other partitions; the calls are answered like duplicates.
ConflictOutputs(r) ==
    /\ r.at = "posted" /\ Conflicting(r) # {}
    /\ \E written \in SUBSET (Puts(r) \ Conflicting(r)) :
        /\ \A put \in Puts(r) \ written : \E y \in Conflicting(r) : y = put \/ ~PutBefore(put, y)
        /\ Write(r, written)
    /\ Finish(r, Members(r), {})
    /\ UNCHANGED <<inputs, sink, toReplay, clock, queue, faults>>

\* The database fails after some of the puts; when they are retried, what has been put
\* may be answered with a conflict.
FailOutputs(r) ==
    /\ r.at = "posted"
    /\ \E written \in SUBSET (Puts(r) \ Conflicting(r)) : Write(r, written)
    /\ \E conflict \in BOOLEAN : Finish(r, IF conflict THEN Members(r) ELSE {}, {})
    /\ Fault
    /\ UNCHANGED <<inputs, sink, toReplay, clock, queue>>

-----------------------------------------------------------------------------

\* The instance restarts, and looks at some of the last inputs again.
Crash ==
    /\ Fault
    /\ call' = [c \in Calls |-> Idle]
    /\ queue' = [g \in Groups |-> <<>>]
    /\ runs' = {} /\ batches' = {} /\ cache' = {}
    /\ toReplay' \in SUBSET inputs
    /\ UNCHANGED <<outputVars, inputs, sink, clock, acknowledged, torn>>

Tick ==
    /\ clock < LastPeriod
    /\ CallsSpanPeriods \/ \A c \in Calls : call[c] = Idle
    /\ clock' = clock + 1
    /\ UNCHANGED <<outputVars, inputVars, call, queue, runs, batches, acknowledged, torn, faults>>

CallStep(c) == DetectDup(c) \/ LogInput(c) \/ Fail(c)
             \/ \E u \in Usages : Post(c, u) \/ Replay(c, u)

RunStep(r) == RefuseSlack(r) \/ Reduce(r) \/ FailReduce(r) \/ PostOutputs(r) \/ FailPost(r)
            \/ LogOutputs(r) \/ ConflictOutputs(r) \/ FailOutputs(r)

Next ==
    \/ \E c \in Calls : CallStep(c)
    \/ Flush
    \/ \E r \in runs : RunStep(r)
    \/ \E b \in batches : AnswerBatch(b)
    \/ Crash \/ Tick

Spec == Init /\ [][Next]_vars

\* A call, and the group that it leads: what waits for a lock, and what does not.
LedBy(c) == {r \in runs : r.batch[1] = c}

TakeLock(c) == DetectDup(c) \/ \E r \in LedBy(c) : RefuseSlack(r) \/ Reduce(r)

Proceed(c) ==
    \/ LogInput(c)
    \/ \E r \in LedBy(c) : PostOutputs(r) \/ LogOutputs(r) \/ ConflictOutputs(r)
    \/ \E b \in batches : c \in b /\ AnswerBatch(b)

\* The lock module serves the calls that wait for a lock in turn, the timer of a batch
\* fires, and the breakers end every database and network call.
FairSpec ==
    /\ Spec
    /\ WF_vars(Flush)
    /\ \A c \in Calls : SF_vars(TakeLock(c)) /\ WF_vars(Proceed(c))

-----------------------------------------------------------------------------
(* What the reducer promises.                                              *)

\* A usage that was answered with success or as a duplicate has been taken in by the sink:
\* whatever fails, is retried or is replayed, the aggregator does not miss a usage the
\* meter is done with.
AnsweredIsAggregated == HasSink => acknowledged \subseteq sink

\* The last document of every month counts each usage that has a marker once, and no
\* other: no update of a sum is lost, and none is made twice, although groups that share
\* a key are reduced at once, calls are retried and inputs are replayed.  It is promised
\* for keys of which no outputs were logged in part.
AccumulatedExactly ==
    \A k \in Keys \ torn, month \in Months, u \in Usages :
        (IF LastAccum(k, month) = None THEN 0 ELSE LastAccum(k, month).sum[u])
            = IF u \in markers /\ UsageMonth[u] = month /\ k \in KeysOf[GroupOf[u]]
              THEN 1 ELSE 0

\* A usage that was answered with success or as a duplicate is in the sums of its month.
AcknowledgedIsCounted ==
    \A u \in acknowledged : \A k \in KeysOf[GroupOf[u]] :
        LastAccum(k, UsageMonth[u]) # None /\ LastAccum(k, UsageMonth[u]).sum[u] > 0

\* Every call is answered, or cut off by a restart: calls that wait for each other's
\* locks, for a batch and for the lock of their group do not wait for ever.
EveryCallAnswered == \A c \in Calls : call[c] # Idle ~> call[c] = Idle

=============================================================================
