------------------------------- MODULE Receiver -------------------------------
(***************************************************************************)
(* The Receiver of the Sampler (lib/sampler/receiver/src/lib): the start   *)
(* and stop events of continuous usages.  It is stateless and runs in any  *)
(* number of instances; Handlers are the requests that can be in progress  *)
(* at once, in one instance or in several.  Between two awaited database   *)
(* operations of a request any other process may run.                      *)
(***************************************************************************)
EXTENDS SpanStore

CONSTANTS
    Handlers,
    Events,       \* the events clients may send, each any number of times
    SlackPast,    \* cfg.slack.pastInterval
    SlackFuture   \* cfg.slack.futureInterval

Event == [ kind : {"start", "stop"}, target : Targets, time : Time \ {0},
           id : EventIds \cup {None} ]

ASSUME EventsAssumption == Events \subseteq Event /\ None \notin Event
ASSUME SlackAssumption == SlackPast \in Nat /\ SlackFuture \in Nat

VARIABLE request  \* of each handler: where it is, the event, the last answer

\* The awaits a request can be at: the query for a duplicate of a refused start,
\* of a stop without span and of a refused stop, and the update that ends a span.
Pending == {"duplicateStart", "missingSpan", "endSpan", "duplicateEnd"}
Replies == {"created", "conflict", "missing", "outOfOrder", "outOfSlack"}

Request == [ at : Pending \cup {"idle"}, event : Events \cup {None},
             reply : Replies \cup {None} ]

ASSUME NoneIsNoReply == None \notin Replies

ReceiverTypeOK == request \in [Handlers -> Request]

NoRequest == [at |-> "idle", event |-> None, reply |-> None]

ReceiverInit == request = [h \in Handlers |-> NoRequest]

Answer(h, event, reply) ==
    request' = [request EXCEPT ![h] = [at |-> "idle", event |-> event, reply |-> reply]]

GoOn(h, event, at) ==
    request' = [request EXCEPT ![h] = [at |-> at, event |-> event, reply |-> None]]

-----------------------------------------------------------------------------

\* SlackValidator.validate lets the event pass.
InSlack(event) == event.time >= now - SlackPast /\ event.time <= now + SlackFuture

\* An event of this kind reaches a free handler.
Arrives(h, event, kind) == request[h].at = "idle" /\ event.kind = kind

RefuseOutOfSlack(h, event) ==
    /\ request[h].at = "idle"
    /\ ~InSlack(event)
    /\ Answer(h, event, "outOfSlack")
    /\ UNCHANGED storeVars

\* handleStart
HandleStart(h, event) ==
    /\ Arrives(h, event, "start")
    /\ InSlack(event)
    /\ \/ /\ StartSpan(event.target, event.time, event.id, TRUE)
          /\ Answer(h, event, "created")
       \/ /\ StartSpan(event.target, event.time, event.id, FALSE)
          /\ GoOn(h, event, "duplicateStart")

\* _isDuplicateStart after a refused insert
CheckDuplicateStart(h) ==
    LET event == request[h].event IN
    /\ request[h].at = "duplicateStart"
    /\ Answer(h, event, IF ExistsSpanWithStartDedupID(event.id) THEN "created" ELSE "conflict")
    /\ UNCHANGED storeVars

\* handleStop up to the await of endSpan: the span found is only used for the
\* comparison, the update looks for its document anew.
HandleStop(h, event) ==
    /\ Arrives(h, event, "stop")
    /\ InSlack(event)
    /\ \/ SpansByTarget(event.target) = {} /\ GoOn(h, event, "missingSpan")
       \/ \E d \in SpansByTarget(event.target) :
             IF event.time < spans[d].start
             THEN Answer(h, event, "outOfOrder")
             ELSE GoOn(h, event, "endSpan")
    /\ UNCHANGED storeVars

\* _isDuplicateEnd when no span is open
CheckMissingSpan(h) ==
    LET event == request[h].event IN
    /\ request[h].at = "missingSpan"
    /\ Answer(h, event, IF ExistsSpanWithEndDedupID(event.id) THEN "created" ELSE "missing")
    /\ UNCHANGED storeVars

\* handleStop from the await of endSpan
EndFoundSpan(h) ==
    LET event == request[h].event IN
    /\ request[h].at = "endSpan"
    /\ \/ /\ EndSpan(event.target, event.time, event.id, TRUE)
          /\ Answer(h, event, "created")
       \/ /\ EndSpan(event.target, event.time, event.id, FALSE)
          /\ GoOn(h, event, "duplicateEnd")

\* _isDuplicateEnd after a refused update
CheckDuplicateEnd(h) ==
    LET event == request[h].event IN
    /\ request[h].at = "duplicateEnd"
    /\ Answer(h, event, IF ExistsSpanWithEndDedupID(event.id) THEN "created" ELSE "conflict")
    /\ UNCHANGED storeVars

\* A database operation fails, the instance crashes, or the client gives up: the
\* request ends without an answer the client could take for a result.
FailRequest(h) ==
    /\ request[h].at # "idle"
    /\ request' = [request EXCEPT ![h] = NoRequest]
    /\ UNCHANGED storeVars

ReceiverStep(h) ==
    \/ \E event \in Events :
          RefuseOutOfSlack(h, event) \/ HandleStart(h, event) \/ HandleStop(h, event)
    \/ CheckDuplicateStart(h)
    \/ CheckMissingSpan(h)
    \/ EndFoundSpan(h)
    \/ CheckDuplicateEnd(h)
    \/ FailRequest(h)

=============================================================================
