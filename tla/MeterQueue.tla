------------------------------ MODULE MeterQueue ------------------------------
(***************************************************************************)
(* From the collector to the accumulator: the collector puts usage into    *)
(* the queue (metering/collector, utils/rabbitmq/src/lib/producer.js), the *)
(* meters take it from there (consumer.js), handle it                      *)
(* (metering/meter/src/lib/message-handler.js), and put what fails into a  *)
(* dead letter queue.                                                      *)
(*                                                                         *)
(* Every message a meter handles is at one of the awaits of its handler;   *)
(* handlers, of one meter and of several, interleave there.  A meter that  *)
(* loses its connection goes on with the messages it has, which the broker *)
(* delivers again at the same time.                                        *)
(*                                                                         *)
(* Abstracted: the accumulator is what it promises (AnsweredIsAggregated   *)
(* and the detection of duplicates in module Reducer): it takes a usage in *)
(* when it answers 201 or 409.  The services the normalizer and the meter  *)
(* read from only answer or fail, which is part of the post.               *)
(***************************************************************************)
EXTENDS MessageQueues

CONSTANTS
    Meters,         \* instances of the meter
    Handlers,       \* messages that can be handled at once
    MeterOf,        \* the meter a handler is of
    UsageDay,       \* the day a usage ends on
    LastDay,        \* the clock stops on this day
    LastPutFails,   \* the error database can fail when a message is out of retries
    MaxFaults,      \* bounds lost connections, crashes and repeated sends
    None

ASSUME MeterAssumption ==
    /\ IsFiniteSet(Handlers) /\ MeterOf \in [Handlers -> Meters]
    /\ LastDay \in Nat /\ UsageDay \in [Usages -> Nat]
    /\ LastPutFails \in BOOLEAN
    /\ MaxFaults \in Nat

VARIABLES
    day,           \* the current day
    delivery,      \* the message of each handler and what it is about to do, or None
    cache,         \* of each meter: the usages it knows to be duplicates
    collected,     \* the usages put into the queue
    accumulated,   \* the usages the accumulator has taken in
    output,        \* the usages in the meter's output database
    errors,        \* the usages in its error database
    faults

storeVars == <<cache, collected, accumulated, output, errors>>
vars == <<queueVars, storeVars, day, delivery, faults>>

\* attached: the channel the message came by is still there.
Delivery == [message : Message, attached : BOOLEAN,
             at : {"checking", "posting", "storing", "rejecting", "retrying", "acking"}]

ASSUME NoneIsNoDelivery == None \notin Delivery

TypeOK ==
    /\ QueuesTypeOK
    /\ day \in 0 .. LastDay
    /\ delivery \in [Handlers -> Delivery \cup {None}]
    /\ cache \in [Meters -> SUBSET Usages]
    /\ collected \subseteq Usages /\ accumulated \subseteq Usages
    /\ output \subseteq Usages /\ errors \subseteq Usages
    /\ faults \in 0 .. MaxFaults

Init ==
    /\ QueuesInit
    /\ day = 0
    /\ delivery = [h \in Handlers |-> None]
    /\ cache = [m \in Meters |-> {}]
    /\ collected = {} /\ accumulated = {} /\ output = {} /\ errors = {}
    /\ faults = 0

Fault == faults < MaxFaults /\ faults' = faults + 1
NoFault == UNCHANGED faults

-----------------------------------------------------------------------------

\* collect: the usage is in the queue and the client is answered.  A send whose
\* confirmation was lost is repeated by the connection manager.
Collect(u) ==
    /\ u \notin collected
    /\ collected' = collected \cup {u}
    /\ \E copies \in 1 .. 2 :
          /\ main' = [main EXCEPT ![[usage |-> u, retries |-> 0]] = @ + copies]
          /\ IF copies = 2 THEN Fault ELSE NoFault
    /\ UNCHANGED <<delayed, cache, accumulated, output, errors, day, delivery>>

\* The broker delivers a message, which is handled from then on.
Deliver(h, m) ==
    /\ delivery[h] = None
    /\ main[m] > 0
    /\ main' = [main EXCEPT ![m] = @ - 1]
    /\ delivery' = [delivery EXCEPT ![h] = [message |-> m, attached |-> TRUE, at |-> "checking"]]
    /\ UNCHANGED <<delayed, storeVars, day, faults>>

At(h, step) == delivery[h] # None /\ delivery[h].at = step
UsageOf(h) == delivery[h].message.usage
Retries(h) == delivery[h].message.retries
GoTo(h, step) == delivery' = [delivery EXCEPT ![h].at = step]

\* A mutant: the usage of the next day is let through.
IsFutureByOne(u) == UsageDay[u] > day + 1

\* usage.end > moment.utc().endOf('day')
IsFuture(u) == UsageDay[u] > day

\* A mutant: allowed fails are not counted to their end.
FailOnce(h) == GoTo(h, IF Retries(h) > AllowedFails THEN "rejecting" ELSE "retrying")

\* The catch of handle: an error that is not a business error.
Fail(h) == GoTo(h, IF Retries(h) >= AllowedFails THEN "rejecting" ELSE "retrying")

\* The handler up to isDuplicate.
Check(h) ==
    /\ At(h, "checking")
    /\ IF IsFuture(UsageOf(h))
       THEN GoTo(h, "rejecting") /\ UNCHANGED cache
       ELSE IF UsageOf(h) \in cache[MeterOf[h]] \cup output
       THEN /\ GoTo(h, "acking")
            /\ cache' = [cache EXCEPT ![MeterOf[h]] = @ \cup {UsageOf(h)}]
       ELSE GoTo(h, "posting") /\ UNCHANGED cache
    /\ UNCHANGED <<queueVars, collected, accumulated, output, errors, day, faults>>

\* The output database does not answer.
FailCheck(h) ==
    /\ At(h, "checking")
    /\ ~IsFuture(UsageOf(h)) /\ UsageOf(h) \notin cache[MeterOf[h]]
    /\ Fail(h)
    /\ UNCHANGED <<queueVars, storeVars, day, faults>>

\* normalizeUsage, meterUsage and postUsage.  The accumulator answers 201, or 409 when
\* it has the usage already.
Post(h) ==
    /\ At(h, "posting")
    /\ accumulated' = accumulated \cup {UsageOf(h)}
    /\ GoTo(h, "storing")
    /\ UNCHANGED <<queueVars, cache, collected, output, errors, day, faults>>

\* The plan has an error, or the accumulator answers with one (422), or with 'slack'.
PostRefused(h) ==
    /\ At(h, "posting")
    /\ GoTo(h, "rejecting")
    /\ UNCHANGED <<queueVars, storeVars, day, faults>>

\* A mutant: the answer of the accumulator is not looked at.
PostUnchecked(h) ==
    /\ At(h, "posting")
    /\ GoTo(h, "storing")
    /\ UNCHANGED <<queueVars, storeVars, day, faults>>

\* One of the services called does not answer.
PostFailed(h) ==
    /\ At(h, "posting")
    /\ Fail(h)
    /\ UNCHANGED <<queueVars, storeVars, day, faults>>

\* The accumulator takes the usage in and its answer is lost.
PostAnswerLost(h) ==
    /\ At(h, "posting")
    /\ accumulated' = accumulated \cup {UsageOf(h)}
    /\ Fail(h)
    /\ UNCHANGED <<queueVars, cache, collected, output, errors, day, faults>>

\* outputDb.put; a document that is there already is no error.
Store(h) ==
    /\ At(h, "storing")
    /\ output' = output \cup {UsageOf(h)}
    /\ GoTo(h, "acking")
    /\ UNCHANGED <<queueVars, cache, collected, accumulated, errors, day, faults>>

\* It fails, or its answer is lost.
FailStore(h) ==
    /\ At(h, "storing")
    /\ output' \in {output, output \cup {UsageOf(h)}}
    /\ Fail(h)
    /\ UNCHANGED <<queueVars, cache, collected, accumulated, errors, day, faults>>

\* errorDb.put
Reject(h) ==
    /\ At(h, "rejecting")
    /\ errors' = errors \cup {UsageOf(h)}
    /\ GoTo(h, "acking")
    /\ UNCHANGED <<queueVars, cache, collected, accumulated, output, day, faults>>

\* Its exception leaves the handler, whatever the number of retries.
FailReject(h) ==
    /\ At(h, "rejecting")
    /\ LastPutFails \/ Retries(h) < AllowedFails
    /\ GoTo(h, "retrying")
    /\ UNCHANGED <<queueVars, storeVars, day, faults>>

Forget(h) == delivery' = [delivery EXCEPT ![h] = None]

\* A mutant: the message is published as it was received.
RetryUncounted(h) ==
    /\ At(h, "retrying")
    /\ IF delivery[h].attached
       THEN PublishToExchange(UsageOf(h), Retries(h)) /\ GoTo(h, "acking")
       ELSE UNCHANGED delayed /\ Forget(h)
    /\ UNCHANGED <<main, storeVars, day, faults>>

\* The catch of the consumer: published with one more failure.  On a closed channel
\* this throws, as does the acknowledgement.
Retry(h) ==
    /\ At(h, "retrying")
    /\ IF delivery[h].attached
       THEN PublishToExchange(UsageOf(h), Retries(h) + 1) /\ GoTo(h, "acking")
       ELSE UNCHANGED delayed /\ Forget(h)
    /\ UNCHANGED <<main, storeVars, day, faults>>

\* channel.ack: the broker forgets the message.
Ack(h) ==
    /\ At(h, "acking")
    /\ Forget(h)
    /\ UNCHANGED <<queueVars, storeVars, day, faults>>

-----------------------------------------------------------------------------

\* The messages delivered to a meter that it has not acknowledged.
Unacked(x) == {h \in Handlers : MeterOf[h] = x /\ delivery[h] # None /\ delivery[h].attached}

\* The broker has them back.
Requeue(x) ==
    main' = [m \in Message |-> main[m] + Cardinality({h \in Unacked(x) : delivery[h].message = m})]

\* The connection of a meter is lost: its handlers go on without their channel.
Disconnect(x) ==
    /\ Unacked(x) # {}
    /\ Requeue(x)
    /\ delivery' = [h \in Handlers |-> IF h \in Unacked(x)
                        THEN [delivery[h] EXCEPT !.attached = FALSE] ELSE delivery[h]]
    /\ Fault
    /\ UNCHANGED <<delayed, storeVars, day>>

\* A meter is killed and started again.
Crash(x) ==
    /\ \E h \in Handlers : MeterOf[h] = x /\ delivery[h] # None
    /\ Requeue(x)
    /\ delivery' = [h \in Handlers |-> IF MeterOf[h] = x THEN None ELSE delivery[h]]
    /\ cache' = [cache EXCEPT ![x] = {}]
    /\ Fault
    /\ UNCHANGED <<delayed, collected, accumulated, output, errors, day>>

Return(q, m) == Expire(q, m) /\ UNCHANGED <<storeVars, day, delivery, faults>>

Tick ==
    /\ day < LastDay
    /\ day' = day + 1
    /\ UNCHANGED <<queueVars, storeVars, delivery, faults>>

HandlerStep(h) ==
    \/ Check(h) \/ FailCheck(h)
    \/ Post(h) \/ PostRefused(h) \/ PostFailed(h) \/ PostAnswerLost(h)
    \/ Store(h) \/ FailStore(h)
    \/ Reject(h) \/ FailReject(h)
    \/ Retry(h) \/ Ack(h)

Next ==
    \/ Tick
    \/ \E u \in Usages : Collect(u)
    \/ \E h \in Handlers : HandlerStep(h) \/ \E m \in Message : Deliver(h, m)
    \/ \E q \in 1 .. 2, m \in Message : Return(q, m)
    \/ \E x \in Meters : Disconnect(x) \/ Crash(x)

Spec == Init /\ [][Next]_vars

\* A handler goes on, whether its calls succeed or not; messages that can be delivered
\* are, and delayed ones expire.
Fairness ==
    /\ \A h \in Handlers : WF_vars(HandlerStep(h)) /\ WF_vars(\E m \in Message : Deliver(h, m))
    /\ WF_vars(\E q \in 1 .. 2, m \in Message : Return(q, m))

FairSpec == Spec /\ Fairness

-----------------------------------------------------------------------------

\* A message about u is in a queue, or delivered and not acknowledged.
InFlight(u) ==
    \/ \E m \in Message : m.usage = u /\ (main[m] > 0 \/ \E q \in 1 .. 2 : delayed[q][m] > 0)
    \/ \E h \in Handlers : delivery[h] # None /\ delivery[h].attached /\ UsageOf(h) = u

\* A usage the collector has accepted is never lost: it is in the output or in the
\* error database, or a message is on its way, whatever fails, crashes or is retried.
NothingLost == \A u \in collected : u \in output \cup errors \/ InFlight(u)

\* What the meter keeps as processed, and takes every later copy as a duplicate of, is
\* with the accumulator, also when copies of a message are handled side by side.
MeteredIsAccumulated == output \cup UNION {cache[x] : x \in Meters} \subseteq accumulated

\* Usage of a future day is not accumulated, however its messages are delayed, delivered
\* again or handled over midnight.
FutureNotAccumulated == \A u \in accumulated : UsageDay[u] <= day

\* The pipeline keeps what it collects, in the end.
Promise == INSTANCE UsageDelivery WITH
    counted <- accumulated, metered <- output, rejected <- errors
ImplementsDelivery == Promise!Spec

-----------------------------------------------------------------------------
(***************************************************************************)
(* Why no usage is lost between the collector and the meter's databases:   *)
(* the inductive invariant behind the properties of MeterQueue.            *)
(***************************************************************************)
Recorded(u) == u \in output \cup errors
Queued(u) == \E m \in Message : m.usage = u /\ (main[m] > 0 \/ \E q \in 1 .. 2 : delayed[q][m] > 0)

\* Handled, by a handler that has not given the message away yet.
Held(u) ==
    \E h \in Handlers : /\ delivery[h] # None
                        /\ delivery[h].attached /\ delivery[h].at # "acking"
                        /\ UsageOf(h) = u

\* A message that is only to be acknowledged counts for nothing: its usage is recorded,
\* or another copy of the message is queued or held.
KeptInv == ~LastPutFails => \A u \in collected : Recorded(u) \/ Queued(u) \/ Held(u)

\* What is published again has failed less often than is allowed: a queue admits it.
RetryInv ==
    ~LastPutFails =>
        \A h \in Handlers : At(h, "retrying") => Retries(h) < AllowedFails

\* Messages are about collected usage.
MessagesInv ==
    /\ \A m \in Message : m.usage \notin collected =>
           main[m] = 0 /\ \A q \in 1 .. 2 : delayed[q][m] = 0
    /\ \A h \in Handlers : delivery[h] # None => UsageOf(h) \in collected

\* A usage is known to be a duplicate because it is in the output database.
CacheInv == \A x \in Meters : cache[x] \subseteq output

\* A usage is stored when it has been accumulated, and that is when its day has come.
HandlingInv ==
    /\ \A h \in Handlers : At(h, "storing") => UsageOf(h) \in accumulated
    /\ \A h \in Handlers : At(h, "posting") => ~IsFuture(UsageOf(h))
    /\ output \subseteq accumulated
    /\ accumulated \subseteq collected

\* The inductive invariant: of every collected usage that is not recorded there is a
\* copy which no acknowledgement can remove.
Inv ==
    /\ TypeOK
    /\ KeptInv
    /\ RetryInv
    /\ MessagesInv
    /\ CacheInv
    /\ HandlingInv
    /\ FutureNotAccumulated
=============================================================================
