---------------------------- MODULE EventBridge ----------------------------
(***************************************************************************)
(* The bridge between Cloud Foundry and Abacus (utils/bridge, with the     *)
(* mappers and converters of cf/applications and cf/services): it polls    *)
(* the usage events of the Cloud Controller, reports usage for each,       *)
(* remembers it in the carry-over database and saves how far it has come.  *)
(*                                                                         *)
(* An event is named by its place in the list of the Cloud Controller,     *)
(* which is also its guid here. STARTED and STOPPED of an application are  *)
(* written CREATED and DELETED, as those of a service.                     *)
(***************************************************************************)
EXTENDS CarryOver, Sequences, SequencesExt

CONSTANTS MaxEvents,     \* bound: events of the Cloud Controller
          PageSize,      \* events of a page
          MinAge,        \* cfg.polling.events.minAge, in ticks
          MaxDelay,      \* the ticks after which an event is listed
          MaxFaults,     \* bound: calls that fail, restarts
          PerTick        \* bound: events of a resource in one tick

ASSUME EventBridgeAssumption ==
    /\ PageSize \in Nat \ {0}
    /\ MaxDelay \in Nat
    /\ MinAge \in Nat
    /\ MinAge >= MaxDelay
    /\ PerTick \in Nat \ {0}
    /\ 2 * PerTick < Gap

VARIABLES
    events,       \* the list of the Cloud Controller
    purged,       \* how many of the first events have been purged
    saved,        \* the progress document: the last guid, 0 for none
    revision,     \* dbcache: the revision of the progress document is known
    cached,       \* event-progress: the last guid, as cached
    reader,       \* the event reader of this poll
    bridge,       \* where the poll is
    settled,      \* events that have been processed or skipped
    overlooked,   \* history: events passed that an old page did not list
    faults,
    torn          \* resources that met a fault that section 6 of the README names

controllerVars == <<events, purged>>
progressVars == <<saved, revision, cached>>
historyVars == <<overlooked, torn>>
bridgeVars == <<controllerVars, progressVars, reader, bridge, settled, faults,
                historyVars>>

NoReader == [after |-> 0, next |-> 0, page |-> {}, unlisted |-> {}]

Polled == [at |-> "idle", event |-> 0, todo |-> <<>>, doc |-> NoDoc]

BridgeInit ==
    /\ events = <<>>
    /\ purged = 0
    /\ saved = NoDoc
    /\ revision = FALSE
    /\ cached = 0
    /\ reader = NoReader
    /\ bridge = Polled
    /\ settled = {}
    /\ overlooked = {}
    /\ faults = 0
    /\ torn = {}

-----------------------------------------------------------------------------
(***************************************************************************)
(* The Cloud Controller. It lists an event some time after its date, and   *)
(* purges old events.                                                      *)
(***************************************************************************)
Dated(res) == {i \in DOMAIN events : events[i].res = res}

\* The plan of a resource after the first n events, NoDoc if it does not run.
PlanAfter(res, n) ==
    LET past == {i \in Dated(res) : i <= n}
    IN  IF past = {} \/ events[Max(past)].kind = "DELETED"
        THEN NoDoc ELSE events[Max(past)].plan

PlanOf(res) == PlanAfter(res, Len(events))

Happens(res, plan, kind) ==
    \/ kind = "CREATED" /\ PlanOf(res) = NoDoc
    \/ kind = "DELETED" /\ PlanOf(res) = plan
    \/ kind = "UPDATED" /\ PlanOf(res) \notin {NoDoc, plan}

Emit(res, plan, kind) ==
    /\ Len(events) < MaxEvents
    /\ Happens(res, plan, kind)
    /\ Cardinality({i \in Dated(res) : events[i].tick = now}) < PerTick
    /\ events' = Append(events, [res |-> res, plan |-> plan, kind |-> kind,
                                 tick |-> now])
    /\ UNCHANGED <<carryVars, purged, progressVars, reader, bridge,
                   settled, faults, historyVars>>

\* Time passes.
Advance == Tick /\ UNCHANGED <<carry, ledger, supported>>

\* Not during a poll: the pages that it reads would shift.
Purge ==
    /\ bridge.at = "idle"
    /\ purged < Len(events)
    /\ purged + 1 \in settled \cup overlooked
    /\ faults < MaxFaults
    /\ purged' = purged + 1
    /\ faults' = faults + 1
    /\ UNCHANGED <<carryVars, events, progressVars, reader, bridge,
                   settled, historyVars>>

TimeOf(i) == events[i].tick * Gap + 1

\* A mutant: an event is read as soon as it is listed.
AnyAge(i) == TRUE

IsOldEnough(i) == now - events[i].tick > MinAge

-----------------------------------------------------------------------------
(***************************************************************************)
(* The poll. A new reader starts after the cached progress, and reads on   *)
(* page by page, until there is no more or an event is too young.          *)
(***************************************************************************)
\* What a query after a guid asks for; an event may be late to be listed.
Asked(after) == {i \in DOMAIN events : i > after /\ i > purged}

MayBeLate(i) == now - events[i].tick <= MaxDelay

Place(i, list) == Cardinality({j \in list : j < i})

PageOf(list, n) ==
    {i \in list : Place(i, list) \in (n - 1) * PageSize .. n * PageSize - 1}

EndPoll == bridge' = Polled /\ reader' = NoReader

Reader == IF bridge.at = "idle" THEN [NoReader EXCEPT !.after = cached, !.next = 1]
                                ELSE reader

\* An event that is old enough by now is processed, the rest of the page kept.
Consume(i, from) ==
    IF IsOldEnough(i)
    THEN /\ reader' = [from EXCEPT !.page = @ \ {i},
                                   !.unlisted = {j \in @ : j > i}]
         /\ bridge' = [bridge EXCEPT !.at = "mapping", !.event = i]
    ELSE EndPoll

IsNext(i, page) == i \in page /\ \A j \in page : i <= j

AtPage == /\ bridge.at \in {"idle", "reading"}
          /\ Reader.page = {}
          /\ Reader.next > 0

ReadPage ==
    /\ AtPage
    /\ Reader.after = 0 \/ Reader.after > purged
    /\ \E late \in SUBSET {i \in Asked(Reader.after) : MayBeLate(i)} :
        LET list == Asked(Reader.after) \ late
            page == PageOf(list, Reader.next)
            more == Reader.next * PageSize < Cardinality(list)
            read == [Reader EXCEPT
                        !.page = page,
                        !.unlisted = {j \in late : \E i \in page : j < i},
                        !.next = IF more THEN @ + 1 ELSE 0]
        IN  \/ page = {} /\ EndPoll
            \/ \E i \in page : IsNext(i, page) /\ Consume(i, read)
    /\ UNCHANGED <<carryVars, controllerVars, progressVars, settled, faults,
                   historyVars>>

\* The page may be older than the age that its events are compared with: what
\* it did not list is passed with the events after it.
NextItem ==
    /\ bridge.at = "reading"
    /\ \E i \in reader.page :
        LET passed == {j \in reader.unlisted \ settled : j < i /\ IsOldEnough(i)}
        IN  /\ IsNext(i, reader.page)
            /\ Consume(i, reader)
            /\ overlooked' = overlooked \cup passed
            /\ torn' = torn \cup {events[j].res : j \in passed}
    /\ UNCHANGED <<carryVars, controllerVars, progressVars, settled, faults>>

NoMorePages ==
    /\ bridge.at = "reading"
    /\ reader.page = {}
    /\ reader.next = 0
    /\ EndPoll
    /\ UNCHANGED <<carryVars, controllerVars, progressVars, settled, faults,
                   historyVars>>

\* A mutant: the error is retried with the same guid.
GuidNotFoundRetried ==
    /\ AtPage
    /\ Reader.after # 0
    /\ Reader.after <= purged
    /\ EndPoll
    /\ UNCHANGED <<carryVars, controllerVars, progressVars, settled, faults,
                   historyVars>>

\* The Cloud Controller does not know the guid (status 400, code 10005): start again from
\* the first.
GuidNotFound ==
    /\ AtPage
    /\ Reader.after # 0
    /\ Reader.after <= purged
    /\ cached' = 0
    /\ bridge' = [bridge EXCEPT !.at = "clearing"]
    /\ reader' = NoReader
    /\ UNCHANGED <<carryVars, controllerVars, saved, revision, settled, faults,
                   historyVars>>

-----------------------------------------------------------------------------
(***************************************************************************)
(* An event becomes usage: none, one, or for a change of the plan two.     *)
(***************************************************************************)
Usage(i, plan, state, time) ==
    [res |-> events[i].res, plan |-> plan, state |-> state, time |-> time]

\* The documents of a resource in this month or, if there is none, the last.
Preceding(res) ==
    LET docs(month) == {k \in Key : /\ k[1] = res
                                    /\ k[3] = month
                                    /\ carry[k] # NoDoc}
        found == IF docs(Month) # {} THEN docs(Month) ELSE docs(Month - 1)
    IN  {k[2] : k \in {k \in found :
                         \A l \in found : carry[l].time <= carry[k].time}}

\* progress.save sets the cached progress before it writes the document.
ToSaving(i) ==
    /\ bridge' = [Polled EXCEPT !.at = "saving", !.event = i]
    /\ cached' = i
    /\ settled' = settled \cup {i}

MapEvent ==
    /\ bridge.at = "mapping"
    /\ LET i == bridge.event
           kind == events[i].kind
           plan == events[i].plan
           send(usages) == bridge' = [bridge EXCEPT !.at = "adjusting",
                                                    !.todo = usages]
       IN  \/ /\ kind \in {"CREATED", "DELETED"}
              /\ send(<<Usage(i, plan, kind, TimeOf(i))>>)
              /\ UNCHANGED <<cached, settled, torn>>
           \/ /\ kind = "UPDATED"
              /\ \E before \in Preceding(events[i].res) :
                    /\ send(<<Usage(i, before, "DELETED", TimeOf(i)),
                              Usage(i, plan, "CREATED", TimeOf(i) + 1)>>)
                    /\ torn' = IF before = PlanAfter(events[i].res, i - 1)
                               THEN torn ELSE torn \cup {events[i].res}
              /\ UNCHANGED <<cached, settled>>
           \/ /\ kind = "UPDATED" /\ Preceding(events[i].res) = {}
              /\ ToSaving(i)
              /\ torn' = torn \cup {events[i].res}
    /\ UNCHANGED <<carryVars, controllerVars, saved, revision, reader, faults,
                   overlooked>>

\* The usage was reported and stored before at another time.
ReportedElsewhere(usage, guid) ==
    LET stored == Stored(BuildKey(usage))
    IN  /\ stored # NoDoc
        /\ \/ stored.guid > guid
           \/ stored.guid = guid /\ stored.time # usage.time

AdjustTime ==
    /\ bridge.at = "adjusting"
    /\ bridge' = [bridge EXCEPT !.at = "reporting",
                    !.todo = <<AdjustTimestamp(Head(@), bridge.event)>> \o Tail(@)]
    /\ torn' = IF ReportedElsewhere(Head(bridge.todo), bridge.event)
               THEN torn \cup {Head(bridge.todo).res} ELSE torn
    /\ UNCHANGED <<carryVars, controllerVars, progressVars, reader, settled,
                   faults, overlooked>>

\* A mutant: the progress is saved after the first usage.
FirstPartDone == ToSaving(bridge.event)

\* The next usage of the event, or its progress.
PartDone ==
    IF Len(bridge.todo) > 1
    THEN /\ bridge' = [bridge EXCEPT !.at = "adjusting", !.todo = Tail(@),
                                     !.doc = NoDoc]
         /\ UNCHANGED <<cached, settled>>
    ELSE ToSaving(bridge.event)

Report ==
    /\ bridge.at = "reporting"
    /\ supported[Head(bridge.todo).res]
    /\ Accumulate(Head(bridge.todo))
    /\ bridge' = [bridge EXCEPT !.at = "getting"]
    /\ UNCHANGED <<now, carry, supported, controllerVars, progressVars, reader,
                   settled, faults, historyVars>>

\* 451: the license of the account is not supported.
ReportUnsupported ==
    /\ bridge.at = "reporting"
    /\ ~supported[Head(bridge.todo).res]
    /\ PartDone
    /\ UNCHANGED <<carryVars, controllerVars, saved, revision, reader, faults,
                   historyVars>>

GetDoc ==
    /\ bridge.at = "getting"
    /\ bridge' = [bridge EXCEPT !.at = "putting",
                                !.doc = Stored(BuildKey(Head(bridge.todo)))]
    /\ UNCHANGED <<carryVars, controllerVars, progressVars, reader, settled,
                   faults, historyVars>>

\* The renewer has carried the resource of an event over to a later month.
Overtaken(i) ==
    \E plan \in Plans, month \in Months :
        month > MonthOf(TimeOf(i)) /\ Renewed(events[i].res, plan, month)

WriteDoc ==
    LET key == BuildKey(Head(bridge.todo))
        i == bridge.event
    IN  /\ ~PutConflicts(bridge.doc, key)
        /\ Put(key, ResourceInfo(Head(bridge.todo), i))
        /\ torn' = IF Overtaken(i) THEN torn \cup {events[i].res} ELSE torn

PutDoc ==
    /\ bridge.at = "putting"
    /\ WriteDoc
    /\ PartDone
    /\ UNCHANGED <<now, ledger, supported, controllerVars, saved, revision,
                   reader, faults, overlooked>>

\* Another document was inserted since: the event is processed again.
PutConflict ==
    /\ bridge.at = "putting"
    /\ PutConflicts(bridge.doc, BuildKey(Head(bridge.todo)))
    /\ EndPoll
    /\ UNCHANGED <<carryVars, controllerVars, progressVars, settled, faults,
                   historyVars>>

-----------------------------------------------------------------------------
(***************************************************************************)
(* The progress document. dbcache updates it if it knows a revision and    *)
(* inserts it otherwise.                                                   *)
(***************************************************************************)
WriteConflicts == ~revision /\ saved # NoDoc

SaveProgress ==
    /\ bridge.at \in {"saving", "clearing"}
    /\ ~WriteConflicts
    /\ saved' = cached
    /\ revision' = TRUE
    /\ IF bridge.at = "saving"
       THEN bridge' = [Polled EXCEPT !.at = "reading"] /\ UNCHANGED reader
       ELSE EndPoll
    /\ UNCHANGED <<carryVars, controllerVars, cached, settled, faults, historyVars>>

SaveConflict ==
    /\ bridge.at \in {"saving", "clearing"}
    /\ WriteConflicts
    /\ EndPoll
    /\ UNCHANGED <<carryVars, controllerVars, progressVars, settled, faults,
                   historyVars>>

-----------------------------------------------------------------------------
(***************************************************************************)
(* Failures: a call fails, before or after it was applied, which ends the  *)
(* poll; the bridge restarts.                                              *)
(***************************************************************************)
Fault == faults < MaxFaults /\ faults' = faults + 1

CallFails ==
    /\ bridge.at # "idle"
    /\ Fault
    /\ EndPoll
    /\ UNCHANGED <<carryVars, controllerVars, progressVars, settled, historyVars>>

AnswerLost ==
    /\ Fault
    /\ EndPoll
    /\ \/ /\ bridge.at = "reporting"
          /\ supported[Head(bridge.todo).res]
          /\ Accumulate(Head(bridge.todo))
          /\ UNCHANGED <<carry, saved, torn>>
       \/ /\ bridge.at = "putting"
          /\ WriteDoc
          /\ UNCHANGED <<ledger, saved>>
       \/ /\ bridge.at \in {"saving", "clearing"}
          /\ ~WriteConflicts
          /\ saved' = cached
          /\ UNCHANGED <<carry, ledger, torn>>
    /\ UNCHANGED <<now, supported, controllerVars, revision, cached, settled,
                   overlooked>>

\* The progress is loaded before the bridge starts to poll.
Restart ==
    /\ Fault
    /\ EndPoll
    /\ cached' = IF saved = NoDoc THEN 0 ELSE saved
    /\ revision' = (saved # NoDoc)
    /\ UNCHANGED <<carryVars, controllerVars, saved, settled, historyVars>>

BridgeStep ==
    \/ ReadPage \/ NextItem \/ NoMorePages \/ GuidNotFound
    \/ MapEvent \/ AdjustTime \/ Report \/ ReportUnsupported \/ GetDoc
    \/ PutDoc \/ PutConflict \/ SaveProgress \/ SaveConflict

BridgeFault == CallFails \/ AnswerLost \/ Restart

Controller ==
    \/ \E res \in Resources, plan \in Plans,
           kind \in {"CREATED", "UPDATED", "DELETED"} :
          Emit(res, plan, kind)
    \/ Purge
=============================================================================
