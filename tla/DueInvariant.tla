--------------------------- MODULE DueInvariant ---------------------------
(***************************************************************************)
(* Why Abacus has accumulated what the events say: what each event, also a *)
(* partly processed one, has left in the carry-over database and in the    *)
(* usage that was accumulated.                                             *)
(***************************************************************************)
EXTENDS BridgeInvariant

One(b) == IF b THEN 1 ELSE 0

MonthOfEvent(i) == MonthOf(TimeOf(i))

\* The plan that an event finds, the usages it becomes, and its place among
\* the events of its resource in its tick.
Before(i) == PlanAfter(events[i].res, i - 1)

Parts(i) ==
    IF events[i].kind = "UPDATED"
    THEN <<Usage(i, Before(i), "DELETED", TimeOf(i)),
           Usage(i, events[i].plan, "CREATED", TimeOf(i) + 1)>>
    ELSE <<Usage(i, events[i].plan, events[i].kind, TimeOf(i))>>

PartsOf(i) == {Parts(i)[n] : n \in DOMAIN Parts(i)}

Nth(i) == Cardinality({j \in Dated(events[i].res) : j <= i /\ events[j].tick = events[i].tick})

\* Cloud Foundry starts what does not run, and updates and stops what does.
EventsInv ==
    \A i \in DOMAIN events :
        /\ events[i].kind = "CREATED" => Before(i) = NoDoc
        /\ events[i].kind = "DELETED" => Before(i) = events[i].plan
        /\ events[i].kind = "UPDATED" => Before(i) \notin {NoDoc, events[i].plan}
        /\ Nth(i) <= PerTick

-----------------------------------------------------------------------------
\* The events of a resource that have been processed, and the next one.
Done(res) == Dated(res) \cap settled
Turn(res) == {i \in Dated(res) \ settled : \A j \in Dated(res) : j < i => j \in settled}

\* An event is still to be processed which is of an earlier month than one to
\* which the resource has been carried over.
Late(res) == \E i \in Dated(res) \ settled : Overtaken(i)

\* A resource that has met no fault, and will not because of what it met.
Clean(res) == supported[res] /\ res \notin torn \cup stale /\ ~Late(res)

RunsSettled(res, plan, month) ==
    LET before == {i \in Done(res) : MonthOfEvent(i) <= month}
    IN  /\ before # {}
        /\ events[Max(before)].kind # "DELETED"
        /\ events[Max(before)].plan = plan

DueSettled(res, plan, month) ==
    One(RunsSettled(res, plan, month))
    - One(/\ month > 0
          /\ RunsSettled(res, plan, month - 1)
          /\ ~Renewed(res, plan, month))

\* A usage of an event has been written to the database; it has been reported.
Written(x, i) == Stored(BuildKey(x)) # NoDoc /\ Stored(BuildKey(x)).guid = i

Reported(usage) ==
    \E u \in ledger : u.res = usage.res /\ u.plan = usage.plan /\ u.time = usage.time

Begun(x, i) == Written(x, i) \/ Reported(AdjustTimestamp(x, i))

HalfDone(res, plan, month, state) ==
    \E i \in Turn(res) : \E x \in PartsOf(i) :
        x.plan = plan /\ x.state = state /\ MonthOf(x.time) = month /\ Begun(x, i)

\* What has been accumulated is due for the events that have been processed,
\* but for what is reported already of the next one.
SumInv(res) ==
    \A plan \in Plans, month \in Months :
        Running(res, plan, month) =
            DueSettled(res, plan, month)
            + One(HalfDone(res, plan, month, "CREATED"))
            - One(HalfDone(res, plan, month, "DELETED"))

-----------------------------------------------------------------------------
\* A document was carried over from the month before, or is that of the last
\* event of its plan in the month, with the time of its usage.
Carried(k) ==
    /\ carry[k].time = StartOf(k[3])
    /\ carry[k].state = "CREATED"
    /\ MonthOfEvent(carry[k].guid) < k[3]

OfEvent(k) ==
    LET i == carry[k].guid
    IN  /\ i \in Done(k[1]) \cup Turn(k[1])
        /\ carry[k].time <= events[i].tick * Gap + 2 * Nth(i)
        /\ \E x \in PartsOf(i) : /\ BuildKey(x) = k
                                 /\ carry[k].state = x.state
                                 /\ x.time <= carry[k].time

DocsInv(res) ==
    /\ \A k \in Key : k[1] = res /\ carry[k] # NoDoc =>
          /\ Carried(k) \/ OfEvent(k)
          /\ Reported([res |-> res, plan |-> k[2], time |-> carry[k].time])
    /\ \A i \in Done(res) : \A x \in PartsOf(i) :
          Stored(BuildKey(x)) # NoDoc /\ Stored(BuildKey(x)).guid >= i

\* A usage that was accumulated is one that was renewed, if it is dated to the
\* start of a month. Any other is not later than the document, or is of the next
\* event.
EntryInv(u) ==
    LET month == MonthOf(u.time)
    IN  IF u.time = StartOf(month)
        THEN month \in Months \ {0} /\ RunsSettled(u.res, u.plan, month - 1)
        ELSE \/ Stored(BuildKey(u)) # NoDoc /\ u.time <= Stored(BuildKey(u)).time
             \/ \E i \in Turn(u.res) : \E x \in PartsOf(i) :
                   u.plan = x.plan /\ u.time = AdjustTimestamp(x, i).time

\* Events are processed in their order.
OrderInv(res) == \A i \in Done(res), j \in Dated(res) : j < i => j \in settled

ResInv(res) ==
    /\ SumInv(res) /\ DocsInv(res) /\ OrderInv(res)
    /\ \A u \in ledger : u.res = res => EntryInv(u)

-----------------------------------------------------------------------------
Entry == [res : Resources, plan : Plans, time : Nat, adds : {1, -1}]

LedgerInv ==
    /\ ledger \subseteq Entry /\ IsFiniteSet(ledger)
    /\ \A k \in Key : carry[k] # NoDoc => supported[k[1]]
    /\ settled \cup overlooked \cup reader.unlisted \subseteq DOMAIN events
    /\ \A i \in overlooked : events[i].res \in torn

\* The usages of the event that are left, the first of them adjusted, and the
\* document that adjusted it.
PartInv(i, n) ==
    LET x == Parts(i)[n]
        todo == bridge.todo
        doc == Stored(BuildKey(x))
    IN  /\ Len(todo) = Len(Parts(i)) - n + 1
        /\ \A m \in 2 .. Len(todo) : todo[m] = Parts(i)[n + m - 1]
        /\ Head(todo) = IF bridge.at = "adjusting" THEN x ELSE AdjustTimestamp(x, i)
        /\ \A m \in 1 .. n - 1 : Written(Parts(i)[m], i)
        /\ bridge.at # "adjusting" /\ doc # NoDoc =>
              doc.guid <= i /\ (doc.guid = i => doc.time = x.time)
        /\ bridge.at \in {"getting", "putting"} => Reported(Head(todo))

ProcessInv ==
    bridge.at \in Reporting =>
        LET i == bridge.event
        IN  /\ bridge.at \in {"getting", "putting"} => supported[Head(bridge.todo).res]
            /\ \A m \in DOMAIN bridge.todo : bridge.todo[m].res = events[i].res
            /\ Clean(events[i].res) => \E n \in DOMAIN Parts(i) : PartInv(i, n)

\* The renewer carries over documents of a month that is over, and has reported
\* what it is about to insert.
CarryingInv ==
    /\ \A ref \in renewer.refs : ref.doc.state = "CREATED" /\ ref.key[3] < Month
    /\ renewer.at \in {"finding", "inserting"} =>
          LET ref == renewer.job
          IN  /\ ref.doc.state = "CREATED" /\ ref.key[3] < Month
              /\ supported[ref.key[1]]
              /\ Clean(ref.key[1]) =>
                    /\ Renewed(ref.key[1], ref.key[2], ref.key[3] + 1)
                    /\ MonthOfEvent(ref.doc.guid) <= ref.key[3]

\* As long as a resource has met no fault, what the bridge and the renewer have
\* reported of it and carried over is what its events so far say.
DueInv ==
    /\ EventsInv /\ LedgerInv /\ ProcessInv /\ CarryingInv
    /\ \A res \in Resources : Clean(res) => ResInv(res)

\* The inductive invariant: at every await of the bridge and of the renewer
\* (event-bridge.js, processEvent; renewer, processUsage), events are processed
\* in their order and none is passed but those that an old page did not list,
\* and usage and documents are what the events say.
CFBridgeInv == BridgeInv /\ DueInv
=============================================================================
