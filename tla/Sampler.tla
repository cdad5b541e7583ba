-------------------------------- MODULE Sampler --------------------------------
(***************************************************************************)
(* The Sampler: Receiver requests and Workers over one store, the metering *)
(* pipeline the Workers post usage to, and the clock.                      *)
(***************************************************************************)
EXTENDS Receiver, Worker

\* Whether a request may still be in progress when the clock has advanced by a
\* tick: a tick is a good part of a window, and a request has a timeout.
CONSTANT SlowRequests

ASSUME SlowRequestsAssumption == SlowRequests \in BOOLEAN

vars == <<storeVars, request, workerVars, ledgerVars>>

Init ==
    /\ StoreInit
    /\ ReceiverInit
    /\ WorkerInit
    /\ LedgerInit

Tick ==
    /\ now < Horizon
    /\ SlowRequests \/ \A h \in Handlers : request[h].at = "idle"
    /\ now' = now + 1
    /\ UNCHANGED <<spans, deleted, request, workerVars, ledgerVars>>

Next ==
    \/ Tick
    \/ \E h \in Handlers : ReceiverStep(h) /\ UNCHANGED <<workerVars, ledgerVars>>
    \/ \E w \in Workers : WorkerStep(w) /\ UNCHANGED request

Spec == Init /\ [][Next]_vars

(***************************************************************************)
(* A Worker whose loop runs forever (scheduler.js catches every exception) *)
(* polls when there is something to poll for.  An interval that is planned,*)
(* posted and processed again and again is not interrupted each time at    *)
(* the same point: MongoDB and the collector are not down for ever.        *)
(***************************************************************************)
Fairness ==
    \A w \in Workers :
        /\ WF_vars(Poll(w) /\ UNCHANGED request)
        /\ SF_vars(PlanInterval(w) /\ UNCHANGED request)
        /\ SF_vars(PostAccepted(w) /\ UNCHANGED request)
        /\ SF_vars(ProcessInterval(w) /\ UNCHANGED request)

FairSpec == Spec /\ Fairness

-----------------------------------------------------------------------------

\* Every variable has its type: in particular no step leaves a document of the
\* store, or the copy a Worker keeps of one, that the other processes cannot read.
TypeOK == StoreTypeOK /\ ReceiverTypeOK /\ WorkerTypeOK /\ LedgerTypeOK

Started == {s \in SpanIds : spans[s] # None}

IsPosted(s) == spans[s].planned # None /\ spans[s].planned.guid \in accepted[s]

\* What is billed for s in window b once it has been sampled up to its last interval.
SampledShare(s, b) ==
    Share(spans[s].start, spans[s].last, b)
        + (IF IsPosted(s) THEN Share(spans[s].planned.start, spans[s].planned.end, b) ELSE 0)

(***************************************************************************)
(* What the two phases of the Worker (plan, then execute) are for: in      *)
(* every window a span is billed for exactly the part of its time that has *)
(* been sampled, forward and backward, and for the interval now planned if *)
(* its usage has been posted already; however many Workers post it, and    *)
(* wherever they are interrupted.  Deleted spans are included, spans of    *)
(* which the pipeline has refused a usage are not.                         *)
(***************************************************************************)
BilledByWindow ==
    \A s \in Started : dropped[s] = {} =>
        \A b \in Boundary : billed[s][b] = SampledShare(s, b)

\* Only spans that have been sampled up to their end are ever cleaned up, although
\* a Worker deletes what it found complete some time before.
DeletedIsSettled ==
    \A s \in deleted : spans[s].complete /\ spans[s].last = spans[s].end

\* A usage that has not been stopped is not sampled ahead of time: Workers wait for
\* a window to be over, whatever the snapshot they plan from.
OpenNotSampledAhead ==
    \A s \in Started :
        spans[s].end = None /\ spans[s].planned # None => spans[s].planned.end <= now

\* "Intervals are selected to never cross granularity boundaries, regardless of the
\* sampling direction" (doc/sampler.md, 5.2), also when a stop arrives in between.
IntervalWithinWindow ==
    \A s \in Started : spans[s].planned # None =>
        NoBoundaryBetween(spans[s].planned.start, spans[s].planned.end)

\* Once a span is complete no late answer, no second Worker and no retry changes it
\* or its bill.
SettledIsFinal ==
    [][\A s \in Started : spans[s].complete /\ dropped'[s] = {} =>
          spans'[s] = spans[s] /\ billed'[s] = billed[s]]_vars

\* A stopped usage is in the end sampled up to its end, although Workers crash,
\* answers are lost, and the usage may have been sampled beyond its end.
StoppedIsSettled ==
    \A s \in SpanIds :
        (spans[s] # None /\ spans[s].end # None) ~> (spans[s] # None /\ spans[s].complete)

\* An event that was answered with "created" has been recorded: by the request
\* itself or by an earlier one with the same id.
AcknowledgedIsRecorded ==
    \A h \in Handlers :
        LET event == request[h].event IN
        request[h].reply = "created" /\ event.id # None =>
            \E s \in Started :
                /\ spans[s].target = event.target
                /\ IF event.kind = "start"
                   THEN spans[s].startId = event.id /\ spans[s].start = event.time
                   ELSE spans[s].endId = event.id /\ spans[s].end = event.time

\* The usage was cleaned up, more than the retention after its end.
Forgotten(s) == s \in deleted /\ spans[s].end < now - CleanupAge

\* What holds of retries however late they are let pass: an event whose id is recorded by a
\* usage starts or stops another one only when one of them has been cleaned up, and a
\* retention is over since it ended; whatever requests are in progress meanwhile.
AppliedAgainOnlyLate ==
    \A r, s \in Started : r # s =>
        \/ Forgotten(r) \/ Forgotten(s)
        \/ /\ spans[r].startId = spans[s].startId => spans[r].startId = None
           /\ spans[r].endId = spans[s].endId => spans[r].endId = None

-----------------------------------------------------------------------------
(***************************************************************************)
(* The Sampler implements the continuous usage it promises.                *)
(***************************************************************************)
Phase(s) ==
    CASE spans[s] = None -> "none"
      [] spans[s] # None /\ spans[s].complete -> "settled"
      [] spans[s] # None /\ ~spans[s].complete /\ spans[s].end # None -> "stopped"
      [] spans[s] # None /\ ~spans[s].complete /\ spans[s].end = None -> "running"

PhaseMap == [s \in SpanIds |-> Phase(s)]
FromMap == [s \in SpanIds |-> IF spans[s] = None THEN None ELSE spans[s].start]
UntilMap == [s \in SpanIds |-> IF spans[s] = None THEN None ELSE spans[s].end]
ExcusedMap == [s \in SpanIds |-> dropped[s] # {}]

Promise == INSTANCE ContinuousUsage WITH
    Usages  <- SpanIds,
    phase   <- PhaseMap,
    from    <- FromMap,
    until   <- UntilMap,
    charged <- billed,
    excused <- ExcusedMap

\* Every step of the Sampler is a step of the usages it keeps, or none: in
\* particular a usage is settled only when its bill is exact, and is not charged after.
ImplementsPromise == Promise!Spec

-----------------------------------------------------------------------------
(***************************************************************************)
(* What the documents and the tests of the repository say of the Sampler   *)
(* and the code does not do.                                               *)
(***************************************************************************)

\* "Returns a out of order error when end timestamp is before existing span start"
\* (receiver/src/test/controller-test.js): no usage ends before it starts.
EndNotBeforeStart ==
    \A s \in Started : spans[s].end # None => spans[s].start <= spans[s].end

\* "Sampler server would perform deduplication based on that field and will not
\* report an error for requests marked as duplicate" (doc/sampler.md, 3): a stop is
\* not answered as out of order when its id has stopped a usage already.
DuplicateStopNotRefused ==
    [][\A h \in Handlers :
          request'[h] # request[h] /\ request'[h].reply = "outOfOrder" =>
              ~ExistsSpanWithEndDedupID(request'[h].event.id)]_vars

\* "Inconsistent or incomplete billing-relevant data is not acceptable"
\* (doc/sampler.md, 4): a complete span has been billed in full, unless the
\* collector told the Worker that it would not be.
CompleteIsBilled ==
    \A s \in Started : spans[s].complete /\ "legal" \notin dropped[s] =>
        \A b \in Boundary : billed[s][b] = Share(spans[s].start, spans[s].end, b)

=============================================================================
