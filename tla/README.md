# Verification of CF-Abacus in TLA+

CF-Abacus meters, accumulates and aggregates the usage of Cloud Foundry
resources. What it computes ends in bills, and it computes it in many processes
that share databases and queues, retry, crash and are redeployed. These modules
model the parts in which that is hard, state what makes each part correct,
check it with TLC on small instances, and prove the most important of it with
TLAPS for all instances. Paths below are relative to `src/lib`.

1. [The system](#1-the-system)
2. [Plan](#2-plan)
3. [The Sampler](#3-the-sampler)
4. [The reducer: accumulator and aggregator](#4-the-reducer-accumulator-and-aggregator)
5. [The queue and the meter](#5-the-queue-and-the-meter)
6. [The bridge, the carry-over and the renewer](#6-the-bridge-the-carry-over-and-the-renewer)
7. [Windows and reports](#7-windows-and-reports)
8. [Plans and mappings](#8-plans-and-mappings)
9. [Databases, guarded calls, web calls](#9-databases-guarded-calls-web-calls)
10. [The runs](#10-the-runs)
11. [The proofs](#11-the-proofs)
12. [What the models found](#12-what-the-models-found)
13. [What is not modelled](#13-what-is-not-modelled)

## 1. The system

Usage documents flow through a chain of services:

    Sampler Receiver -> spans <- Sampler Worker --.
    bridges (applications, services), renewer ----+--> collector -> queue -> meter
    providers of services ------------------------'                           |
              reporting <- aggregator (sink of) <- accumulator <--------------'

| Part | State | Operations | What is hard |
|---|---|---|---|
| Sampler Receiver `sampler/receiver` | none of its own; the `spans` collection | start, stop and mapping requests | retried and concurrent requests; checks separated from writes by an await; clean-up of the spans duplicates are found by |
| Sampler Worker `sampler/worker` | a batch of snapshots | poll, plan an interval, post it, mark it as processed, clean up | several Workers on one span; lost answers; a stop that arrives when the span is sampled beyond it; crashes |
| Sampler storage `sampler/storage` | `spans`, two unique indexes | the ten operations of `span-dao.js` | conditional updates by version |
| Collector `metering/collector` | none | validate, send to the queue | answered before anything is metered |
| Queue `utils/rabbitmq` | the main queue, two dead letter queues | consume, republish with a delay, acknowledge | redelivery, duplicates, a message that fits no queue |
| Meter `metering/meter` | output database, error database, cache of duplicates | the message handler | a post that succeeded and whose record failed; retries |
| Reducer `utils/dataflow`, `lock`, `dedupe`, `batch` | input and output database, cache of duplicates, two locks, batches | post of a usage, reduction of a group, replay | batches, groups that share documents, bulk writes that fail in part, restarts, the turn of a month |
| Accumulator `aggregation/accumulator` | a reducer | sums per resource instance, sink to the aggregator | slack of last month; retries of the sink |
| Aggregator `aggregation/aggregator` | a reducer | sums per organization and consumer | groups with a common document |
| Reporting `aggregation/reporting` | none | reads and summarizes | windows shifted to the time of the report |
| Bridges `utils/bridge`, `cf/applications`, `cf/services` | progress document, its cached copy, carry-over documents | poll events, convert, report, save progress | several usages from one event; failure between report, carry-over and progress |
| Carry-over and renewer `utils/carryover`, `cf/renewer` | one document per resource and month | upsert, insert, page through last month | failure between report and insertion |
| Provisioning `plugins/provisioning` | plans, mappings | create and read | repeated and concurrent creation |
| Housekeeper `extensions/housekeeper`, partitions `utils/partition` | partitions per month | drop the old ones | the turn of a year |
| Breaker, throttle, retry `utils/breaker` ... | state of a circuit, calls in flight | guard and limit calls | one test call, late answers, slots of calls that never end |
| Database client `utils/dbclient`, `dbcommons` | the server of each partition, as last seen | gets, puts, bulks, ranges | calls split by partition and put together again; servers that are added |
| Plan lookups `config/*`, `plugins/account` | caches | find a plan or its id | two caches one behind the other, in each process |
| Web framework `utils/express`, `request`, `batch`, `oauth` | calls in flight, batches, the token, responses | batch, post, answer, shut down | groups of one batch with different tokens; the count at the stop of a server |

The other parts keep no state (plugins that answer from constants, schemas,
clients, the dashboard, tools); PROJECT.json lists each of them with
the reason it is left out.

What makes the parts correct:

- *Sampler*: a usage is billed, window by window, for exactly the time it ran;
  an event is applied once however often it is sent; a stopped usage is settled
  in the end; what is settled or deleted does not change any more.
- *Queue and meter*: a usage answered with 202 is in the end in the output or in
  the error database; it reaches the accumulator at least once, and duplicates
  are told apart.
- *Reducer*: what it answers as done is in the sums of its month and in the
  sums of its sink, once; calls never wait for ever.
- *Bridges, renewer*: each event becomes usage at least once, and the carry-over
  document of a resource is that of its last event; no resource that is running
  at the end of a month is lost to the next.
- *Housekeeper, partitions, windows*: no partition in use is dropped; a write and
  the reads after it choose the same partition; a usage is counted in the cell
  of its own time.
- *Plans*: what was created is found, and an update is seen in bounded time.
- *Calls*: each is answered once, with its own answer, and limits neither leak nor
  block.

## 2. Plan

In the order of what matters most for the bills:

| | Modules | Contents | State |
|---|---|---|---|
| 1 | `Sampling`, `SpanStore`, `Receiver`, `AbacusLedger`, `Worker`, `ContinuousUsage`, `Sampler` | the Sampler, its promise and the refinement | done |
| 2 | `UsageOutput`, `Reducer` | accumulator and aggregator, each as an instance of the reducer | done |
| 3 | `UsageDelivery`, `MessageQueues`, `MeterQueue` | the promise that no collected usage is lost, and what collector, queue and meter do: bags of messages, two dead letter queues, retries, redelivery, error database | done |
| 4 | `CarryOver`, `EventBridge`, `Renewer`, `CFBridge` | polling, progress, several usages from an event, the turn of the month, two writers of one database | done |
| 5 | `UsageWindows` | windows of cells from the accumulator to the report, against what was spent | done |
| 6 | `DBClient`, `Housekeeper` | choosing, finding and dropping partitions; calls on several of them; paged reads | done |
| 7 | `PlanCatalog` | plans and mappings from the broker and the Receiver to the caches of the lookups | done |
| 8 | `CallGuard`, `WebCalls` | throttle, retry and breaker; batched calls, tokens, the stop of a server | done |
| 9 | `Platform` | the parts of 3 and 5 to 8 in one run | done |
| 10 | `SamplerInvariant`, `ReducerInvariant`, `BridgeInvariant`, `DueInvariant`, `WindowsInvariant`, and the last section of each other module | inductive invariants and proofs of the safety of 1 to 9 (section 11) | done |
| 11 | an accumulator whose sink is an aggregator, with the retries of the meter above both | the two are joined by what each assumes of the other (section 4) | open |

## 3. The Sampler

### Modules

| Module | Models | Correspondence |
|---|---|---|
| `Sampling` | `worker/src/lib/sampling.js` | `NextIntervalEnd` is `calculateNextIntervalEnd`, forward and backward; `Boundary` are the boundaries of the sampling dimension, `StartOf`, `NextStart` what moment.js's `startOf` and `add` give. `Share` is the reference: the part of an interval in a window, negative when it runs backward |
| `SpanStore` | `storage/src/lib/span-dao.js` | `spans` maps an `_id` to its document or `None`; the two unique indexes are guards of `InsertSpan` and `EndSpan`. A document is kept in `spans` after it was deleted, and `deleted` says so: every operation that reads the collection reads `Stored` |
| `Receiver` | `receiver/src/lib/controller.js`, `slack-validator.js` | a request is at one of its awaits (`at`); each access to the storage is one action |
| `AbacusLedger` | collector to aggregator, as one step | what becomes of a usage: accepted once per guid, put aside when it is of a future day, refused when it is out of slack, billed at its midpoint |
| `Worker` | `worker/src/lib/controller.js`, `scheduler.js` | `queue` are the snapshots of the batch, `job` the one whose usage has been posted; `Poll`, `PlanInterval`, `Post...`, `ProcessInterval` are the awaits of `processSpans`; `FindForCleanup`, `Cleanup` those of `cleanupSpans` |
| `Sampler` | the processes together | clock, `Next`, fairness, properties, the refinement mapping |
| `ContinuousUsage` | `doc/sampler.md` | the promise: a usage runs, is stopped, is charged, and is settled when every window has been charged with exactly its share |
| `SamplerInvariant` | | the inductive invariant |

A Worker works from what it has read (`item.doc`), which may be older than the
store by any number of steps. Crashes are an action between any two steps; an
update of the store can be applied without the Worker learning of it.

### Properties

`Inv`, with the type invariant in it, is the inductive one of section 11.
`BilledByWindow` is the central one: at any time, in every window, the
bill of a span is the share of what has been sampled, plus that of the planned
interval if its usage has been posted already. `SettledIsFinal`,
`DeletedIsSettled`, `OpenNotSampledAhead`, `IntervalWithinWindow` are about what
the Workers may not do from stale snapshots; `AppliedAgainOnlyLate` and
`AcknowledgedIsRecorded` are about requests; `StoppedIsSettled` is the liveness
property; `ImplementsPromise` is the refinement.

`AppliedAgainOnlyLate` says what the recognition of retries is worth. A request finds its
event by its id in the documents of the collection, and those are cleaned up `CleanupAge`
after the end of the usage, while events are let pass for `SlackPast`: one month and two
in the default configuration. So an event may be applied again, and its usage billed twice,
but only when the usage that recorded it has been cleaned up and a retention is over since
its end; never by requests that race each other, other Workers or the clean-up. The run has
the ratio of the defaults. Where spans are kept for longer than events are let pass, and no
usage ends before it starts (finding 1 of section 12), no retry comes that late.

### Fairness

`scheduler.js` runs each job again after an exception, for ever: weak fairness
of `Poll`. Planning, posting and processing are attempted again each time and
can be interrupted each time by another crash, lost answer or conflict: strong
fairness says that not every attempt is. Nothing is assumed of requests, of the
clock or of the clean-up.

## 4. The reducer: accumulator and aggregator

Both services are `dataflow.reducer` with another configuration; the module is
written once, and the configuration is in its constants.

| Constant | Accumulator | Aggregator |
|---|---|---|
| `GroupOf` (`opt.input.groups`) | the resource instance | organization, resource instance, consumer ... |
| `LockOf` (first group) | the same | the organization |
| `KeysOf` (`opt.output.keys`) | one sum | the organization's and the consumer's documents |
| `HasSink` | the aggregator | none |
| `HasSlack` | `outOfSlack` | none |

| Definition | Code in `utils/dataflow/src/index.js` |
|---|---|
| `Post`, `Replay` | the route, `replayDoc`: the call takes its times (`PeriodOf`) |
| `DetectDup`, `LogInput` | under the lock of the usage's key: `ddup`, the marker document, the input database |
| `Flush` | `utils/batch`: the batch is full or its timer fires; its calls are divided into groups (`runs`), and `batches` keeps the runs of a batch together |
| `TakeLock`, `Proceed` | what waits for a lock, and what does not, of a call and the group it leads: for the fairness |
| `Reduce`, `RefuseSlack`, `FailReduce` | under the lock of the group: `lastAccum`, the transform, business errors that carry over to the calls behind |
| `PostOutputs`, `FailPost` | the sink; a 409 is success |
| `AnswerBatch` | `utils/batch/src/index.js:140`: the calls of a batch are called back together, when its last group is done; until then each group only keeps its outcomes (`Finish`) |
| `LogOutputs`, `ConflictOutputs`, `FailOutputs` | the bulk write of `utils/dbclient`: an ordered list of puts, of which a prefix is written when one conflicts |
| `Crash` | a restart, after which `replay` reads the inputs of the last time |

`UsageOutput` is the output database: under every key one document per period of
SAMPLING, each with the sum of all before it in its month; `LastAccum` finds the
one that counts. A sum is abstracted to how often each usage is in it.

Two variables have no counterpart in the code: `acknowledged`, the usages whose
clients were told they are done with them, and `torn`, keys of which a bulk
write was cut off in the middle.

### Properties

- `AnsweredIsAggregated`: what the accumulator answered with 201 or 409 has been
  taken in by the aggregator, whatever failed in between.
- `AccumulatedExactly`: the last document of a month counts each usage with a
  marker once and nothing else. It is stated for keys not `torn`, because a bulk
  write that stops halfway leaves documents without their marker. It holds as long
  as no call is of a period that has ended (`CurrentCalls`) and no batch is of two
  months (`MonthlyBatches`): the run has usage of one month, and no period begins while
  calls are in progress (`CallsSpanPeriods = FALSE`); section 12 says what becomes of
  the sums otherwise.
- `EveryCallAnswered`: locks and batches do not make calls wait for ever.
- `AcknowledgedIsCounted`: violated when calls overlap the end of a period, see
  section 12.

### Fairness

`lock` serves its waiters in order, so the lock that is free again and again is given to
each: strong fairness of `DetectDup` and of `TakeLock`. A batch has a
timer: weak fairness of `Flush`. Database and network calls are bounded by the
time-out of the breaker: weak fairness of the steps that end them.

## 5. The queue and the meter

| Module | Models | Correspondence |
|---|---|---|
| `MessageQueues` | `utils/rabbitmq/src/lib/consumer.js` and the configuration of the meter | `main` and `delayed` are bags of messages; a message is its usage and `metadata.retryCount`. `QueuesFor` and `PublishToExchange` choose the dead letter queue, `Expire` is the end of its time to live |
| `MeterQueue` | `metering/meter/src/lib/message-handler.js` with what it calls; `Collect` is the collector | `delivery` gives each message in a handler the await it is at: `checking` (future usage, duplicates), `posting` (normalizer, meter, accumulator), `storing` (output database), `rejecting` (error database), `retrying` (the catch of the consumer), `acking` |
| `UsageDelivery` | | the promise: a collected usage is metered, after it has been counted, or rejected |

Every call of the handler may fail, at every attempt; a put and a post may also
be applied and their answer be lost. A connection that is lost gives the broker its
messages back while the handlers go on with theirs (`attached` is false): they can
still write to the databases, but neither publish nor acknowledge. A crash
forgets the handlers and the cache of duplicates. The accumulator is what section 4
shows it to be: it takes a usage in when it answers 201 or 409.

### Properties

- `NothingLost`: a collected usage is in the output or in the error database, or a
  message about it is queued or delivered and not acknowledged.
- `MeteredIsAccumulated`: what is taken for a duplicate from then on has been
  taken in by the accumulator, also when two copies are handled side by side.
- `FutureNotAccumulated`: usage is not accumulated before its day.
- `ImplementsDelivery`: the refinement with its liveness: a usage is recorded
  in the end.

A usage may be in both databases: copies of its message are handled apart, and one
that fails to store its output at its last attempt goes to the error database
after the accumulator has taken it in. `UsageDelivery` says so.

`LastPutFails` says whether the error database may fail for a usage out of
retries. If it may, usage is lost (`meter_lost`); all else is shown for when it
does not, and for any failure before.

### Fairness

A handler goes on, whatever its calls answer (they are bounded by time-outs), a
message that waits is delivered to a handler that is free, and delayed
messages expire: weak fairness of each. Nothing is assumed about calls
succeeding; the number of attempts ends the retries. Lost connections,
crashes and repeated sends are bounded by `MaxFaults`, because nothing makes
progress if they never end.

## 6. The bridge, the carry-over and the renewer

| Module | Models | Correspondence |
|---|---|---|
| `CarryOver` | `utils/carryover`, and what is behind `utils/client` | `carry` is the database, one document for a resource, plan and month (`BuildKey`); `Put` is an update or an insertion, `PutConflicts` the insertion that comes too late; `AdjustTimestamp` moves an event behind another of its millisecond. `ledger` is the usage that was accumulated, where a report with the time of an earlier one is a duplicate |
| `EventBridge` | `utils/bridge`, `utils/paging`, `utils/dbcache`, `cf/services` (and `cf/applications`, whose events are a part) | `reader` is the iterator over pages, `bridge` where the poll is: reading, mapping, adjusting, reporting, getting, putting, saving. `saved` is the progress document, `cached` the copy that `save` sets first, `revision` what dbcache knows of it |
| `Renewer` | `cf/renewer` | `renewer.refs` is the page that is processed; for each document the usage is read, moved to the start of the month, reported, and a document inserted |
| `CFBridge` | both on one database | clock, `Next`, the properties |
| `BridgeInvariant`, `DueInvariant` | | the inductive invariants: of the order of events; of what is accumulated and carried over |

An update of a service is two usages, the stop of the plan before and the start
of the new one; the plan before is read from the carry-over database
(`Preceding`). Between any two awaits a call may fail, be applied and its answer
be lost, or the bridge may restart. Events are listed late, out of order, and
purged: `reader.page` are the events of a page that are left, `reader.unlisted`
those before them that were not listed yet when it was read.

- `NothingSkipped`: no event before the one the bridge goes on after is left out,
  whatever failed, but for those that the bridge has `overlooked`. The age of an event is
  compared when it is taken from its page (`utils/bridge/src/event-reader.js:29`), so an event
  that was listed, though too young, when the page was read may be old enough when it
  is its turn; one that was late to be listed then is passed with it. What the comment
  above that line (21-31) wants of the age holds for pages that are read when it is taken.
- `CFBridgeInv`: the inductive invariants of section 11, `BridgeInv`, with the types in it, and `DueInv`.
- `UsageIsDue`: once the bridge has caught up, Abacus has accumulated of each plan
  and month what the events say, neither twice nor too little.
- `CarriedIsRunning`: the documents of a month say which resources run, though two
  writers insert and update them.
- `EveryEventSettled`: each event is processed in the end, though a call fails or the
  event to go on after was purged, which the Cloud Controller answers with status 400 and
  code 10005 (`utils/bridge/src/event-reader.js:9`).

`UsageIsDue` and `CarriedIsRunning` are stated but for resources that met one of these faults of the
code, which two variables remember:

- `torn`: the bridge met one of these. A usage whose time was adjusted is repeated after its
  document was stored, keeps its original time and is counted twice
  (`utils/carryover/src/index.js:234`); or an event is repeated after a later one of its
  resource was stored, as happens to all but one of the events that are repeated when the bridge
  restarts before its progress was written, and is moved behind that
  (`ReportedElsewhere`). An UPDATED event does not find the plan that ran before: its second
  usage was stored already and it stops the new plan, or there is no document of this month or the
  last, and it is skipped (`cf/services`, `Preceding`). An event was overlooked. An event
  dated in an earlier month is processed when the resource was renewed already, and what was
  renewed stays as it was (`Overtaken`).
- `stale`: the renewer reports a document that was changed after it was read.

Assumed: Cloud Foundry dates in seconds and Abacus counts milliseconds, so a tick
is `Gap` milliseconds and fewer than half as many events of a resource fall in one (`PerTick`: an
update takes two); no event is dated to the first millisecond of a month; the Cloud Controller lists
an event at most `MaxDelay` after its date, which is not more than `MinAge`, and purges while no page is read.

Fairness: a poll is scheduled again after each, whether it failed or not
(`schedulePolling`), and each of its calls ends: weak fairness of the bridge's step; and
time passes. Nothing is assumed of the renewer. Faults are bounded, or no poll might
ever come to its end.

## 7. Windows and reports

`UsageWindows` follows a usage from the accumulator (`Accumulate`) through the
aggregator (`Aggregate`) to a report, for metrics that are summed up. A document
has windows of cells for days and months, the newest first, and is shifted by
each service relative to another time: the accumulator's to the processed time or,
for last month, its end (`Itime`), the aggregator's to the end of the usage
(`CalculateUsageEnd`, `Shifted`), the report's to the day that is asked for. `spent`
remembers what was accepted, which is the reference; `memo` is the cache of the
formulas' results, and `mixed` remembers that a formula got the cached result of other
arguments. `WindowsInvariant` has the inductive invariant.

- `MonthsAreReported` and `DaysAreReported`: a report sums up exactly what was
  spent, for the organization, its spaces (months) and its consumers, whatever
  was late or came out of order.
- `ClosedMonthIsFinal`: when the slack is over and what was accepted is aggregated,
  the bill of a past month does not change. `outOfSlack` compares the month of a usage
  with the current one and not with the month before it
  (`aggregation/accumulator/src/index.js:121`): in the first days of a month usage of every
  past month is accepted, and a bill is final for the rest of a month, not for good.

The run `platform` has quantities whose results the cache keeps apart (`Quantities = {1}`); with 1, 9 and
12 `MonthsAreReported` is violated (`reports_memo`, section 12). The theorems are about all
quantities, and say that this is the only way: they hold while `~mixed`. `InstancesAreReported`, a
part of `DaysAreReported`, is stated for the current month and, for its days, on a day
with usage; the rest of `DaysAreReported` for usage aggregated the day it is
accumulated (`~lagged`), for the cells within the slack, and not for spaces. The
reasons are in section 12.

Bounds: a month of two days, a slack of one, four days, which are two months (with a fifth day, and so a third month, TLC takes four
minutes and finds no violation either), so that usage is of today,
yesterday or last month, and a month is over or not; two instances of different
consumers and plans in one space; three usages.

## 8. Plans and mappings

`PlanCatalog` has editors (the service broker's `create` and `update`, the Receiver's
`handleMappings`), each of which sends its calls for metering, rating and pricing at once or one
after the other, the provisioning and account plugins with their lock by key, their
databases and caches, and readers with a cache of their own (`config/metering`,
`rating` and `pricing` are the same code three times; each definition names one).
A call may fail before or after it was applied; the request fails with it, the calls sent
at once with it go on, and the editor may ask again. The puts of one type that are called
within 20 ms, by requests for any services, are one ordered bulk (`batch` of
`config/mappings/src/index.js:33`): a document that is there already stops it, and each call of it is
answered 409, stored or not. `Create` has such an answer beside the conflict of the item itself (`"shared"`).

- `CreatedIsFound`: after an answer of success or conflict nobody looks in vain, so
  no process has remembered that there was nothing. It is promised for requests of which no
  call was answered with the conflict of another in its bulk; such a request may be
  answered 409 with nothing stored (section 12).
- `PlansAreRecent`: what is used was replaced at most `MaxOutdated` ago, although one
  cache fills the other.

One item is `watched` in a behaviour, as lookups of different items share
nothing. `PluginAge = 2`, `ConfigAge = 1` and versions up to 2 are the least for
which a document is cached, replaced, cached from the other cache and dropped.

## 9. Databases, guarded calls, web calls

| Module | Models | Correspondence |
|---|---|---|
| `DBClient` | `utils/dbclient`, `dbcommons`, `partition` | `op` is the call of a client: its documents are resolved to servers (`Resolve`, by the cache `known`, by looking at all servers, or by `AssignServer`), grouped by partition, executed group by group and merged in their order (`MergedRows`). A `scan` reads the months of a range page by page (`ReadPage`): of the rows found, by the month and then the id (`SortsBefore`), as many as a page has and are skipped (`Limited`), but no month behind one that fills the page (`FullAfter`) |
| `Housekeeper` | `extensions/housekeeper`, `dropPartitions` | the timer, the expression that selects partitions by year and month (`Selected`), server after server |
| `CallGuard` | `utils/throttle`, `retry`, `breaker`, `perf` | `throttle(retry(breaker(f)))`: `call` is where each call is; `counts` the windows of perf; `late` are attempts that have timed out and still run |
| `WebCalls` | `utils/batch`, `request`, `router`, `express`, `oauth` | a client that batches, groups by authorization and posts; a server that sends each request of a post through its middleware again, so that a batch of n counts as 1 + n in flight |
| `Platform` | | chooses one of these, the queue, the windows or the plans, which share no state, so that one run checks them all |

- `AcknowledgedIsFound`: a document that was put is where every client looks for
  it, although servers were added and caches filled in between.
- `ReadsSeeWrites`: no get misses a document that was there before and was not
  removed, in whatever groups and order the answers come; nor does a scan, unless
  something is removed meanwhile (pages shift) or the page is cut short by the
  defect of section 12.
- `PlatformInv`: the inductive invariants of section 11, of the part that runs.
- `RetainedAreKept`, `OldAreDropped`: at the turn of a year, too, exactly the
  months older than the retention are dropped, in the end on all servers.
- `SlotsAreHeld`, `CalledBackOnce`, `CircuitIsReported`, `TestCallsAreSpaced`,
  `EveryCallBack`: no slot leaks and no caller is forgotten or called twice when
  attempts time out, answer late and are repeated; an open circuit is tested by one
  call at a time.
- `AnswersAreOwn`: a call gets its own answer, made with its own token, whatever
  batch and group it was in; a server that is stopped answers what it counts.

Fairness: the event loop runs what is due and time passes, so calls time out
(`GuardFairness`); the timer of the housekeeper fires and servers answer or fail
(`HousekeeperFairness`), with `MaxDropFaults` failures. For `DBClient`,
`UsageWindows`, `PlanCatalog` and `WebCalls` only safety is checked.

Assumed: bulks are put and not got (only the reports get documents in bulks, by their
ids, and mispair those that are missing, section 12). `FirstMonth > Retention` (no month before 2015, see section 12). A scan
looks in all partitions of a month (`checkkey`), as the configurations of the
services choose. `AddServer` starts all clients again with the new server, which is a deployment
during which none of them runs; a rolling one, of which some clients know the server before
others, is not modelled. The housekeeper ends a run before the next, as its interval of a
day is far longer than a run; the timer itself (`extensions/housekeeper/src/index.js:119`) does not wait. A server that has waited for 30 seconds may cut what it still
has in flight.

## 10. The runs

| Run | Instance | Shows |
|---|---|---|
| `sampler_billing` | two Workers, one span, a start at 1 and a stop at 2 that may arrive as late as 5, windows of different lengths, any crashes and lost answers | bills are exact although Workers race, crash, lose answers and the span was sampled beyond its end; the refinement; a stopped usage is settled |
| `sampler_retention` | two requests, two spans, one Worker, an update (stop and start at one time), slack in both directions, twice the retention, a month that ends at 4; 790 000 states | events are applied again only when their usage was cleaned up; acknowledged events are recorded |
| `sampler_race`, `sampler_duplicate_stop`, `sampler_future_stop` | smaller instances | the violations of section 12 |
| `reducer_accumulator` | three calls, usage of this month and of last, two failures or restarts; 830 000 states | no usage is answered as done that the aggregator misses |
| `reducer_aggregator` | two calls, two groups that share a document and a lock, one failure or restart; 450 000 states | exact sums; every call is answered |
| `reducer_overlap` | two calls, no failure | the violation of section 12 |
| `meter_lost` | the instance of the queue in `platform` without faults, the last put may fail | the violation of section 12 |
| `bridge` | a service instance, two plans, up to three events in two months, pages of two events and of one document, one fault of the bridge, the renewer or the Cloud Controller; 1 080 000 states | no event is skipped and each is processed in the end, what Abacus has accumulated is what the events say, and the carry-over documents are right |
| `platform` | one at a time: the queue with one usage of the next day, two meters, one attempt in each dead letter queue and two faults; two guarded calls; two clients, three documents in two partitions and two months, a second server, one fault; two servers of the housekeeper from November 2015 to March 2016; the windows, plans and web calls as sections 7 to 9 say; 515 000 states | sections 5 and 7 to 9 |
| `reports_memo` | three instances of one plan, one day, quantities 1, 9 and 12 | the violation of section 12 |

Bounds and why they are enough. `Horizon` ends the clock and `LastPeriod` the
periods: two windows on each side of a stop, and two months of periods, are what
the code distinguishes (the same window, another one; this month, last month).
Conflicts between Workers, requests or calls are between two of them; the third
call of `reducer_accumulator` is a retry while two others are reduced. `Batches`
are of one span because a Worker processes them one after the other and each is
independent. `MaxFaults` bounds failures and restarts together: one to tear a
step apart, one more to disturb the recovery. In the queue one usage is enough, as
messages about different usages share nothing but handlers; two faults make three
copies of its message, two of which are handled at a time. In `bridge` three
events are a start, an update and a stop in any order that is possible, on both sides of the
turn of a month; in `platform` two guarded calls share a limit of one or two and one of
them may be the test call; a server added between two puts is what makes the
clients' caches differ; two web calls share a batch with one token or with two, and
`Limits` let the server take a whole batch or a part of it. The months of the
housekeeper include the turn of a year. `SlowRequests = FALSE` in
`sampler_retention` lets requests end within a tick, which is half a window.
Symmetry is used, in the runs of the Sampler and the reducer, for spans, Workers, requests and calls, which no definition
tells apart, and in no run with a liveness property. Deadlock is checked in all
runs of the reducer and the Sampler; the others may stop: the queue when all usage
is recorded, the rest when its bounds are reached.

Every property of a passing run has a mutant in PROJECT.json: a plausible bug in
one definition under which TLC finds it violated in the same instance.

## 11. The proofs

| Module | Theorems |
|---|---|
| `SamplerTheorems` | the arithmetic of intervals: `NextIntervalStaysInWindow`, `MidpointShare`, `WindowOfOpenSpanIsOver`, for every cutting of the time line; `InvariantHolds`, `TypeCorrect`, `BillsAreExact`, `DeletedAreSettled`, `IntervalsStayInWindow`, `OpenAreNotSampledAhead`, `SettledStaysFinal`, `AcknowledgedAreRecorded`, `ReappliedAreForgotten`, `SamplerImplementsPromise` |
| `ReducerTheorems` | `ReducerInvariantHolds`, `ReducerTypeCorrect`, `AnsweredAreAggregated`, `SumsAreExact` |
| `BridgeTheorems` | `BridgeInvariantHolds`, `NothingIsSkipped` |
| `DueTheorems` | `CFBridgeInvariantHolds`, `UsageIsAlwaysDue`, `CarriedIsAlwaysRunning` |
| `DBTheorems` | `DBInvariantHolds`, `AcknowledgedAreFound`, `ReadsAlwaysSeeWrites` |
| `WindowsTheorems` | `WindowsInvariantHolds`, `MonthsAreReportedHolds`, `DaysAreReportedHolds`, `ClosedMonthsAreFinal` |
| `PlatformTheorems` | queue and meter: `MeterInvariantHolds`, `NothingIsLost`, `MeteredAreAccumulated`, `FutureIsNotAccumulated`, `QueueDelivers`; guarded calls: `GuardInvariantHolds`, `SlotsStayHeld`, `CallersAreCalledBackOnce`, `CircuitStaysReported`, `TestCallsStaySpaced`; housekeeper: `HousekeeperInvariantHolds`, `RetainedStayKept`; plans: `CatalogInvariantHolds`, `CreatedAreFound`, `PlansStayRecent`; web calls: `WebInvariantHolds`, `AnswersStayOwn`; `PlatformInvariantHolds` |
| `SumTheorems` | lemmas only: least elements, the first rows of an order, and the sums of the community modules, which the bridge, the databases and the windows need |

They hold for any number of spans, events, requests, Workers, calls, usages,
groups, meters, pages, documents, servers, attempts and failures, any slack, any cutting of time into windows, periods and
months, under the named assumptions of the modules (`BoundaryAssumption`,
`MonthsAssumption`, `WorkerAssumption`, `ReducerAssumption` ...), which TLC
evaluates in the runs. Each inductive invariant is one that a run checks, or
was checked by TLC on the constants of a run before it was proved. The theorems
of a part are about its own specification; in `Platform` the others stand still, so that each
behaviour of `PlatformSpec` is one of the part that runs (`PartRuns`) and has its invariant
(`PlatformInvariantHolds`).

*Sampler.* `BilledByWindow` is not inductive: a Worker acts on a snapshot. The
strengthening is `SnapshotInv`, what a snapshot still says of its span: if
the version in the store is the same, so are the sections processed and planned;
if it is not, the plan of the snapshot has been posted and posting it once more
is harmless. Versions grow with every change, plans have guids no other plan
has, and only an interval that was posted is marked as processed. The step of each action
is a lemma; `MidpointShare` gives that what is added to a bill is the share of
the interval, and that shares add up along a span in either direction. The
refinement is by step simulation from the same invariant.

*Events.* `AcknowledgedIsRecorded` follows from what a request has learned at each of its
awaits (`KindsInv`, `RecordedInv`), for events whose ids are their own (`UniqueIds`).
`AppliedAgainOnlyLate` takes two facts: no two documents of the collection have an id of an event in
common (`UniqueInv`: the guards of `InsertSpan` and `EndSpan`, and nothing else writes ids), and what is
deleted, or found by a Worker to be deleted, ended more than a retention ago (`SettledLongAgo`). Neither asks anything of the slack, of the ids clients
choose or of the order of start and end, so that the theorem has no hypothesis.

*Reducer.* `AnsweredIsAggregated` needs that a group which is answered answers
its own calls only (`QueueInv`, `RunsInv`: a call is in one queue or in one run,
at one place), and that everything by which a duplicate is detected, the cache
and the markers, is written after the sink was posted to (`PostedInv`,
`KnownInv`).

`AccumulatedExactly` is proved from `ExactInv`: a usage is in the hands of one call at a
time, and has no marker yet (`AloneInv`: the lock of the usage, and the search for a duplicate
under it); a run has each of its calls once, and runs that have begun have different locks
(`GroupsInv`), so that, where groups that share a document share a lock
(`LocksCoverKeys`), what a run has read is still the last document when it writes
(`BaseInv`); and no document is of a period to come (`PastInv`), so that what it writes becomes the
last one. The last step needs that all calls of the run are of one period, which
is the current one of its month: `SumsAreExact` assumes it of the behaviour
(`[](CurrentCalls /\ MonthlyBatches)`). Neither hypothesis can be left out, and the code guarantees
neither: `reducer_overlap` is a behaviour without the first, and TLC loses a sum without the
second (section 12). So the theorem is about the times between the ends of periods, and what it
excludes there is everything else: failures, restarts, races and retries.

*Queue and meter.* `NothingLost` is not inductive: a message that is only to be
acknowledged is about to go. `KeptInv` does not count such messages: its usage is
recorded, or another copy is queued or held by a handler that has not given it
away. A handler gives a message away when it has recorded the usage
(`HandlerAt`) or published it again, for which it must have failed less often than
is allowed (`RetryInv`), so that a queue admits it (`FailuresHaveQueue`). With
`CacheInv` a duplicate is one that has been recorded. `NothingIsLost` assumes
`~LastPutFails`; the other theorems do not. `QueueDelivers` is the safety part of
the refinement.

*Bridge.* `NothingSkipped` is about the events before a progress; `PageInv` says the same of
the event that is processed and of those of its page, where an event that was not listed with
the page counts until the bridge passes it. That the next page leaves no gap is
`ReachInv`: a page of a query is counted from the first event asked for, so one that was late when
an earlier page was read would shift it. It does not, because the next page is read when all
events of this one were old enough, and with them all before. `ListInv` is about the Cloud
Controller, `RenewerInv` about what the renewer holds.

*What the bridge accumulates.* `UsageIsDue` is about an idle bridge that has caught up; `DueInv` says
of every state, for each resource that is `Clean` (no fault met, and none waiting in an event that
is older than a renewal), how far the accumulated usage and the documents are.

- `SumInv`: what runs in the ledger is what is due for the events processed so far
  (`DueSettled`), plus the start and minus the stop of the next event, if that is reported
  (`HalfDone`): a failure between two usages of an update leaves a state in which one is.
- `DocsInv`: a document is carried over from the month before or is of the last event of its
  plan in its month (`Carried`, `OfEvent`), and what it says has been reported; every
  event processed has left its own or a later one. So `AdjustTimestamp` recognizes the repeated
  event, and moves a new one behind all others, to a time that nothing is reported at (`EntryInv`).
- `OrderInv`: events are processed in their order. That the bridge reads them so is `BridgeInv`.
- `PartInv`, in `ProcessInv`: at each await, which usages of the event are left and what has become of
  those before; `CarryingInv`: the same of the document the renewer is about to insert.
- `EventsInv`: Cloud Foundry starts what does not run and stops or updates what does.

That a report adds its one instance to the sum of its own plan and month and to no other
(`RunningGrows`) is proved from the definition of the library's sum, a function that is chosen to
satisfy a recursive equation. By the least number, or the smallest subset, for which it fails, the
equation has a solution on the subsets of a finite set (`SumsExist`), and one only (`SumsAgree`), so that any
element may be taken out of a sum (`SumRemoves`): induction without the library's induction
theorems, whose operator parameter no installed prover can instantiate.
A step that settles an event moves `DueSettled` by what `HalfDone` counted before; the renewal of a resource
moves the `Renewed` term, as nothing that was processed is older than last month.

*Guarded calls.* A call is at one place of the throttle's queue, and the counter is the number of
calls that hold a slot (`SlotsInv`); the answers of a call are those of its state
(`AnswersInv`); a half-open circuit has exactly one test call
(`CircuitInv`), and an open one is not older than its last test call (`AgesInv`), so that tests are
`ResetTicks` apart.

*Databases.* A partition is on one server (`PartitionsInv`) and all that is remembered
of it is that server (`KnownInv`): a client that finds none asks for one in the same way
as the others. With it, what a put has stored is where a get looks (`AckedInv`,
`CallInv`), unless it is removed meanwhile (`RemovalInv`, `contested`).

For a scan, `ScanInv` says why no page misses a row that the pages before it have not read: among the
rows that are stored, and not already found missing, it has at least as many before it as will be
skipped. Others may be put before it while the pages are read, which can only raise its
place; removals would lower it, which is why a scan promises nothing once one begins. A row
the page leaves behind comes after all rows of the page (`RowsReadComeFirst`); then the page is full, unless it
was cut short, and the rows skipped and those in it come before that row (`PageLeavesRows`). The
places are counted: the first n places of a finite set of rows are taken by just n rows, or
by all (`FirstRows`), which follows from the last of the n and the first of the others without induction.

*Plans.* A document in a cache was found, and is at most as much behind as it is old, and as the
cache it came from was (`EntryInv`); a lookup takes less than two ticks (`LookupInv`). The
sum is `MaxOutdated`.

*Windows.* What a report shows is compared with what was accepted, across two services that keep
sums of it at different times. `WindowsInv` (module `WindowsInvariant`) has a statement for each place.

- `SummedInv`: the cells of the accumulator's document of a month are the usage of its instance, by
  day and for the month, until the document is used for late usage in a later month: then it is shifted out of its
  month (section 12), and only what its cells gain is relied upon.
- `PostedInv`: a usage on its way adds the same quantity to the cell of its day and to that of its
  month (`Consistent`), wherever in its windows the day is.
- `AggregatedInv`: the documents of the aggregator, summed up over the plans, are `Received`: what
  was accepted but for what is still on its way (`Pending`). For the days it takes `~lagged`, and that a window
  has room for the slack or is empty (`HasRoom`), so that shifting drops no cell that a report shows.

Accumulating a usage adds it to `spent` and to `Pending` (`AccumulateStep`: `Received` stays); aggregating
the first of a queue takes it out of `Pending` and puts it into one cell of the documents of
its organization, space and consumer (`AggrIs`, `UsageAdds`, `AggregateStep`). That nothing else of a document
changes for the reader is a matter of where the cells are: a shift moves each cell by the difference of two days or
months (`ShiftIs`, `CellsShift`, `ShiftedIsSummed`), a longer window has empty cells behind
(`LongerIs`), and the time of a usage is in its month (`UsageEndIs`, `LastShift`). With
nothing on its way, `Received` is `spent` (`AllIsReceived`), and the report, a last shift to its day,
shows it (`ReportIsSummed`, `InstancesAreSummed`).

All of this holds while `~mixed`, and `MonthsAreReportedHolds` and `DaysAreReportedHolds` are
`WindowsSpec => [](~mixed => ...)`: a formula that is given the cached result of other arguments puts a wrong
sum into a document, which `reports_memo` shows to happen. The hypothesis is that no such result was given so far; it
does not restrict the instances, quantities, orders or delays.

`ClosedMonthsAreFinal` needs no such hypothesis: only `ShapeInv`, and in the step the slack, checked
at the time of the accumulation, which lets nothing of such a month through.

*Housekeeper.* The years and months of `Selected` are those before a month
(`SelectedAreNotLater`, arithmetic with `div` and `%`), and the month chosen when the timer fired
is old enough for as long as servers drop (`DroppedAreOverdue`).

*Web calls.* A call waits at one place: in the record of calls to batch, behind another's
request for the same resource, or in one post of one batch (`RecordedInv`, `AskingInv`, `BatchesInv`);
a post has calls of one authorization and its replies at their places (`PostInv`);
what is cached was answered to a call for the same resource (`ResourcesInv`). The server
counts the requests it handles (`CountInv`), so that it stops when there are none.

Only model-checked: `StoppedIsSettled`, `EveryCallAnswered`, `EveryEventSettled`, `EveryCallBack`,
`OldAreDropped` and the liveness of `ImplementsDelivery`. Liveness under fairness is out of the prover's
reach, as is ENABLED. Every safety property of the passing runs is a theorem.

## 12. What the models found

Each of these is a run that TLC ends with a counterexample, or follows from
reading the code for the models; the first six are `findings`.

1. `sampler_race`: `handleStop` compares with the span it read and ends whatever
   span of the target is open by then. With another stop and a start in between,
   a span ends before it starts, which the tests say is refused. Clean-up goes by the
   end: such a document is deleted early, and its start, if it is retried, begins a second usage.
2. `sampler_duplicate_stop`: a stop that was applied and is retried after the
   usage was started again is answered as out of order, not as a duplicate.
3. `sampler_future_stop`: a stop in the future is accepted and sampled at once;
   the meter puts usage of a future day aside, and the span is complete without
   having been billed in full.
4. `reducer_overlap`: `play` takes the period of a usage before it waits for its
   locks and its batch. Two calls that overtake each other at the end of a
   period store the newer sum under the older id, and the next usage is
   added to a sum that lacks one.
5. `meter_lost`: a usage that has failed as often as is allowed goes to the error
   database. If that put fails too, the consumer counts one failure more than any
   dead letter queue admits, publishes the message nowhere and acknowledges it.

6. `reports_memo`: accumulator and aggregator cache the results of a plan's functions
   under their arguments, written one after the other without a separator. A sum of 1
   to which 12 are added and a sum of 10 in which 1 becomes 2 share a key, and one
   organization is given the result of another.

Differences between documents and code, and faults, that no run shows. Of the
Sampler, the reducer and the meter:

- `doc/sampler.md:491` sets a span complete when its end is that of the last
  interval; the code plans and posts an interval of length zero.
- `doc/sampler-api.md:112` answers a duplicate with 409; the code with 201.
- `doc/sampler.md:124` says of the id of an event that it "uniquely identifies the request"
  and is what the server deduplicates by; with the default configuration a retry in its second
  month is not recognised (section 3).
- `doc/sampler.md:497` expects the meter to drop duplicates by guid; the
  collector gives each usage a new `processed_id`, and it is the marker of the
  accumulator that finds them.
- One usage out of slack in a batch refuses the current usage in it, too
  (`aggregation/accumulator/src/index.js:135`).
- A batch reads the last documents of the month of its first call only: with usage of last
  month and of this in one batch, the sum of one goes on from that of the other.
- In a group with a business error the other calls are answered 201 and never
  logged (`utils/dataflow/src/index.js:574`).
- A conflict of a bulk write is answered as a duplicate although it may be
  another document of the same bulk, and the meter takes a 409 as done
  (`metering/meter/src/lib/accumulator-client.js:51`).

Of the bridge and the renewer (the first five are the `torn` of section 6; the second and the fourth
were met in the proof of `UsageIsDue`, which does not hold without them, and TLC confirms
them on instances with two faults or three months):

- A usage whose time was adjusted and whose event is repeated after its document
  was stored keeps its own time and is counted twice (`utils/carryover/src/index.js:234`).
- When the bridge restarts before the progress of more than one event was written, events are repeated
  whose document is of a later event by then. They are moved behind it and counted again
  (`utils/bridge/src/event-progress.js:22` caches the progress before it is written).
- An UPDATED event that is repeated after the new plan was stored takes the new
  plan for the one before and reports its stop.
- An UPDATED event of a service that has no document of this month or the last is skipped
  (`cf/services/src/preceding-usages-reader.js:45`), as the months are those of the real time: when a
  renewal was missed, or the bridge is behind.
- A stop of last month that comes after the renewal leaves a resource that runs for
  ever.
- The age of an event is measured when it is consumed, not when its page is read
  (`utils/bridge/src/event-reader.js:29`): events that were not yet listed when the
  page was read may be skipped if the reading of the page takes long.
- `dbcache` inserts until it knows a revision: if the answer to the first insertion
  is lost, each later one is a conflict until the bridge restarts.
- `cf/services` skips an update to a plan that is not listed: the plan before goes on.
- The renewer reads usage from the collector's side: a resource that was not metered
  yet is not found, and waits for the next run.

Of windows and reports:

- A report shifts the documents of spaces by the processed time of the organization's
  document, so that their days may be off (`aggregation/reporting/src/index.js:357`).
- The accumulator shifts last month's document by the real time and indexes it from
  the end of that month: late usage of another day loses what was summed up before
  (`aggregation/accumulator/src/index.js:196`), and the report of that month shows less.
- Usage aggregated on the day after it was accumulated goes to the wrong day (`lagged`).
- `adjustWindows` leaves the windows of a document as they are when the report is
  later: the report of an instance without usage today shows yesterday's as today's.
- Rows that are missing in a bulk of gets are attributed to the wrong document:
  `allDocs` answers the documents that it found in the order of their ids, which
  `bulkOp` pairs with the keys asked for, against the comment at
  `utils/dbcommons/src/index.js:212`.

Of plans:

- A request to map a service whose calls share their bulks with the conflicts of other services
  is answered 409, or 201 if another type was stored, although mappings are missing: the Receiver takes
  every 409 as mapped (`sampler/receiver/src/lib/controller.js:98`). `doc/sampler-api.md:156`
  says of the 409: "Returned only in case all of the mappings (metering, pricing and rating) have been
  already created." The plans of the broker are put in the same way.
- Two mapping requests with different plans may both be answered 201 and leave a mixture.
- A creation that failed in part is answered 500 each time it is repeated.
- An update replaces whatever revision is stored: the last writer wins.
- While an update reaches the services at different times, a metric may be missing
  in one of them, which is an exception.

Of databases and calls:

- A page of a range read may be cut short where a month ends
  (`utils/dbcommons/src/index.js:323`): rows that are skipped count towards the limit. A
  reader that takes a short page for the last stops early. `IsCutShort` says when.
- Removals during a range read shift its pages.
- Before 2015 + retention, the housekeeper's `range(15, 14)` counts down and selects
  all of 2015.
- The failure of a test call sets the time of opening to the START of that call; with
  a time-out of 60 s and a reset of 5 s the next call is a test call at once.
- A call the breaker has given up goes on: a put may be applied after the lock it was
  made under was released (`utils/breaker/src/index.js:84`).
- An exception in a callback calls the same callback again (breaker), counts a
  slot twice (throttle) or leaves the other calls of a batch unanswered.
- In an ordered bulk one duplicate answers 409 to every call of the partition; of plans, see above.

## 13. What is not modelled

- Within the modelled parts: the contents of usage documents and formulas of
  plans (a sum counts usages, a bill counts ticks, a window adds quantities); validation, authorization
  and formatting; a put that arrives after its time-out was reported; more than
  one instance of the reducer for a partition (requests are routed by
  partition); a run of the renewer that outlasts its month, of which the documents get the month of the
  real time and not the one after their own (`cf/renewer/src/index.js:187`); the delays of loops, batches and retries, which are any; exceptions
  thrown by callbacks.
- The composition of meter, accumulator and aggregator as one module: each is checked
  against what it may assume of the next (`AnsweredIsAggregated` is what `MeterQueue`
  takes the accumulator for); the instances together are out of TLC's reach.
- Liveness of the renewer, the database client, the plans and the web calls.
- Reading by lists of keys, distinct values, revisions and the driver of CouchDB
  (`utils/dbclient`, `couchclient`); the routes that only read; GraphQL.
- The rate limiter of the web framework, which skips the calls of the system itself;
  the filters and quantities of the applications bridge; scopes and cryptography of
  tokens; bindings of services and their dashboard.
- The parts without state or protocol, which PROJECT.json lists with a reason each:
  schemas, clients, metrics, the health checker, Eureka, demos and tools.
