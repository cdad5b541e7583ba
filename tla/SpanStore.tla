------------------------------- MODULE SpanStore -------------------------------
(***************************************************************************)
(* The storage the Sampler's Receiver and Worker applications share        *)
(* (lib/sampler/storage/src/lib/span-dao.js): one MongoDB collection of    *)
(* spans, each the document of one continuous usage.  A database operation *)
(* on one document is atomic; what several operations of a process do is   *)
(* not, and is for the modules that use this one.                          *)
(*                                                                         *)
(* Abstracted: measured_usage (copied once, never changed), last_change_at *)
(* (a debugging aid) and last_interval.start (written, never read).        *)
(***************************************************************************)
EXTENDS Sampling, FiniteSets

CONSTANTS
    SpanIds,   \* the _id MongoDB can give a document; their number bounds the model
    Targets,   \* what a usage is of: organization, space, consumer, ..., instance
    EventIds   \* the ids clients give their events to have retries recognised

VARIABLES
    now,       \* the wall clock, which every process reads
    spans,     \* the document of every _id ever assigned, None before that
    deleted    \* the _id of the documents cleaned up: they are kept in spans as history

storeVars == <<now, spans, deleted>>

\* A random uuid differs from the zero one and from every other.
Zero == "zero"
Random == "random"

Plan == [start : Time, end : Time, guid : Nat]

Span == [ target   : Targets,
          corr     : {Zero, Random},          \* target.correlation_id
          start    : Time,
          end      : Time \cup {None},        \* end_is_set is end # None
          startId  : EventIds \cup {None},    \* start_dedup_id
          endId    : EventIds \cup {None},    \* end_dedup_id
          last     : Time,                    \* processing.last_interval.end
          planned  : Plan \cup {None},        \* processing.planned_interval
          complete : BOOLEAN,
          version  : Nat ]

ASSUME NoneIsNoRecord == None \notin Plan /\ None \notin Span

StoreTypeOK ==
    /\ now \in Time
    /\ spans \in [SpanIds -> Span \cup {None}]
    /\ deleted \subseteq {s \in SpanIds : spans[s] # None}

StoreInit ==
    /\ now = 0
    /\ spans = [s \in SpanIds |-> None]
    /\ deleted = {}

\* The documents in the collection.
Docs == {s \in SpanIds : spans[s] # None} \ deleted

Batches(found, limit) ==
    {b \in SUBSET found :
        Cardinality(b) = IF Cardinality(found) < limit THEN Cardinality(found) ELSE limit}

-----------------------------------------------------------------------------
\* The indices unique_target, unique_start_dedup_id and unique_end_dedup_id.

TargetTaken(target) ==
    \E d \in Docs : spans[d].target = target /\ spans[d].corr = Zero
ExistsSpanWithStartDedupID(id) ==
    id # None /\ \E d \in Docs : spans[d].startId = id

\* Mutant: an event with an id is taken for a duplicate without looking it up.
DuplicateIfItHasID(id) == id # None

ExistsSpanWithEndDedupID(id) ==
    id # None /\ \E d \in Docs : spans[d].endId = id

StartKeyTaken(target, id) == TargetTaken(target) \/ ExistsSpanWithStartDedupID(id)

-----------------------------------------------------------------------------

NewSpan(target, time, id) ==
    [ target |-> target, corr |-> Zero, start |-> time, end |-> None,
      startId |-> id, endId |-> None, last |-> time, planned |-> None,
      complete |-> FALSE, version |-> 1 ]

\* startSpan: inserts a document, or finds that an index has its key already.
StartSpan(target, time, id, applied) ==
    /\ applied = ~StartKeyTaken(target, id)
    /\ \/ /\ applied
          /\ \E s \in SpanIds :
                /\ spans[s] = None
                /\ spans' = [spans EXCEPT ![s] = NewSpan(target, time, id)]
       \/ ~applied /\ UNCHANGED spans
    /\ UNCHANGED <<now, deleted>>

\* getSpanByTarget: every caller asks for the zero correlation id.
SpansByTarget(target) ==
    {d \in Docs : spans[d].target = target /\ spans[d].corr = Zero}

\* Mutant: stopping a span rewinds what has been sampled of it to its end.
EndedTrimsSampling(doc, time, id) ==
    [doc EXCEPT !.corr = Random, !.end = time, !.endId = id,
                !.last = IF @ > time THEN time ELSE @]

Ended(doc, time, id) == [doc EXCEPT !.corr = Random, !.end = time, !.endId = id]

\* The documents endSpan's filter finds.
Endable(target) == {d \in SpansByTarget(target) : spans[d].end = None}

\* endSpan: one findOneAndUpdate, which leaves the version alone.
EndSpan(target, time, id, applied) ==
    /\ applied = (Endable(target) # {} /\ ~ExistsSpanWithEndDedupID(id))
    /\ \/ /\ applied
          /\ \E d \in Endable(target) :
                spans' = [spans EXCEPT ![d] = Ended(@, time, id)]
       \/ ~applied /\ UNCHANGED spans
    /\ UNCHANGED <<now, deleted>>

-----------------------------------------------------------------------------

\* Mutant: the version is not part of the filter.
AnyVersion(s, version) == s \in Docs

\* The filter of the two conditional updates of the section processing.
Unchanged(s, version) == s \in Docs /\ spans[s].version = version

\* Mutant: planning does not increment the version.
PlannedKeepsVersion(doc, plan, version) == [doc EXCEPT !.planned = plan]

Planned(doc, plan, version) ==
    [doc EXCEPT !.planned = plan, !.version = version + 1]

Processed(doc, plan, complete, version) ==
    [doc EXCEPT !.complete = complete, !.last = plan.end, !.planned = None,
                !.version = version + 1]

\* updateSpanPlannedInterval
UpdateSpanPlannedInterval(s, plan, version, applied) ==
    /\ applied = Unchanged(s, version)
    /\ spans' = IF applied THEN [spans EXCEPT ![s] = Planned(@, plan, version)] ELSE spans
    /\ UNCHANGED <<now, deleted>>

\* updateSpanProcessedInterval
UpdateSpanProcessedInterval(s, plan, complete, version, applied) ==
    /\ applied = Unchanged(s, version)
    /\ spans' = IF applied
                THEN [spans EXCEPT ![s] = Processed(@, plan, complete, version)]
                ELSE spans
    /\ UNCHANGED <<now, deleted>>

-----------------------------------------------------------------------------

\* Mutant: stopped spans wait for their window to pass like the others.
FindIncompleteByAge(before) ==
    {d \in Docs : ~spans[d].complete /\ spans[d].last < before}

\* findIncompleteSpans, before offset and limit are applied.
FindIncompleteSpans(before) ==
    {d \in Docs : ~spans[d].complete /\ (spans[d].last < before \/ spans[d].end # None)}

\* Mutant: the retention period is not waited for.
FindCompleteAnyAge(before) == {d \in Docs : spans[d].complete}
\* Mutant: stopped spans are taken for complete ones.
FindStoppedSpans(before) == {d \in Docs : spans[d].end # None /\ spans[d].last < before}

\* findCompleteSpans, before offset and limit are applied.
FindCompleteSpans(before) == {d \in Docs : spans[d].complete /\ spans[d].last < before}

\* deleteSpansByIDs
DeleteSpansByIDs(ids) ==
    /\ deleted' = deleted \cup (ids \cap Docs)
    /\ UNCHANGED <<now, spans>>

=============================================================================
