--------------------------- MODULE SamplerInvariant ---------------------------
(***************************************************************************)
(* The inductive invariant of the Sampler: why its bills are right.  Its   *)
(* core is what a snapshot a Worker works from still says of the span it   *)
(* was taken of, when any number of other steps were taken since.          *)
(***************************************************************************)
EXTENDS Sampler

\* A request in progress is about an event.
RequestsInv == \A h \in Handlers : request[h].at # "idle" => request[h].event # None

\* A document: a complete one has been sampled up to its end, and an interval that
\* is planned begins where the last one ended, lies in one window, and is over
\* unless the span has been stopped.
SpanInv(s) ==
    LET doc == spans[s] IN
    /\ doc.end # 0
    /\ doc.complete => doc.end # None /\ doc.last = doc.end /\ doc.planned = None
    /\ doc.planned # None =>
          /\ doc.planned.start = doc.last
          /\ doc.planned.guid <= lastGuid[s]
          /\ NoBoundaryBetween(doc.planned.start, doc.planned.end)
          /\ doc.end = None => doc.planned.end <= now

SpansInv == \A s \in Started : SpanInv(s)

\* Usages have been posted for the plans there were, and for no others.
GuidsInv ==
    \A s \in SpanIds :
        /\ \A g \in accepted[s] : g <= lastGuid[s]
        /\ s \notin Started => billed[s] = [b \in Boundary |-> 0]

\* Posting a plan once more changes no bill.
Harmless(s, plan) == plan.guid \in accepted[s] \/ dropped[s] # {}

\* A snapshot: if the version of the document is still the same, so is the section
\* processing of it; if not, the plan of the snapshot has been posted.  The end it
\* was read with is never changed, and a span read open was due for sampling.
SnapshotInv(s, doc) ==
    /\ s \in Started
    /\ doc.version <= spans[s].version
    /\ doc.version = spans[s].version =>
          /\ ~spans[s].complete
          /\ doc.planned = spans[s].planned
          /\ doc.last = spans[s].last
    /\ doc.version # spans[s].version /\ doc.planned # None => Harmless(s, doc.planned)
    /\ doc.planned # None =>
          /\ doc.planned.guid <= lastGuid[s]
          /\ NoBoundaryBetween(doc.planned.start, doc.planned.end)
    /\ doc.end # 0
    /\ doc.end # None => spans[s].end = doc.end
    /\ doc.end = None => doc.last < Horizon /\ NextStart(doc.last) <= now

QueuesInv == \A w \in Workers : \A item \in queue[w] : SnapshotInv(item.id, item.doc)

\* The snapshot whose usage has just been posted is one of the batch.
JobInv(w) ==
    LET item == job[w] IN
    item # None =>
        /\ item \in queue[w]
        /\ item.doc.planned # None
        /\ Harmless(item.id, item.doc.planned)

JobsInv == \A w \in Workers : JobInv(w)

\* What is about to be deleted, or has been, is complete.
SweepsInv ==
    /\ \A w \in Workers : \A s \in sweep[w] : s \in Started /\ spans[s].complete
    /\ \A s \in deleted : s \in Started /\ spans[s].complete

\* The document a Worker plans or updates from can be older than the document in the
\* store, by any number of steps of Receivers and other Workers, and nothing it does
\* with it is wrong: the invariant all others of the Sampler follow from.
Inv ==
    /\ TypeOK
    /\ RequestsInv
    /\ SpansInv
    /\ GuidsInv
    /\ QueuesInv
    /\ JobsInv
    /\ SweepsInv
    /\ BilledByWindow

-----------------------------------------------------------------------------
\* Clients give no id to two starts, or to two stops.
UniqueIds ==
    \A e, f \in Events : e.id # None /\ e.id = f.id /\ e.kind = f.kind => e = f

\* A request goes on as the start or the stop it has begun as, and is answered as such.
KindsInv ==
    \A h \in Handlers :
        /\ request[h].reply = "created" => request[h].event # None
        /\ request[h].at = "duplicateStart" => request[h].event.kind = "start"
        /\ request[h].at \in Pending \ {"duplicateStart"} => request[h].event.kind = "stop"

\* The ids in a document are those of the events it was started and stopped by.
RecordedInv ==
    \A s \in Started :
        LET doc == spans[s] IN
        /\ doc.startId # None => \E e \in Events :
              /\ e.kind = "start" /\ e.id = doc.startId
              /\ e.target = doc.target /\ e.time = doc.start
        /\ doc.endId # None => \E e \in Events :
              /\ e.kind = "stop" /\ e.id = doc.endId
              /\ e.target = doc.target /\ e.time = doc.end

EventsInv == KindsInv /\ RecordedInv /\ AcknowledgedIsRecorded

\* What is deleted, or about to be, has ended longer ago than the retention.
SettledLongAgo ==
    \A s \in deleted \cup UNION {sweep[w] : w \in Workers} :
        s \in Started /\ spans[s].complete /\ spans[s].last < now - CleanupAge

\* Two documents that are in the collection share no id: what the indices are for.
UniqueInv ==
    \A r, s \in Docs : r # s =>
        /\ spans[r].startId = spans[s].startId => spans[r].startId = None
        /\ spans[r].endId = spans[s].endId => spans[r].endId = None

RetriesInv == SettledLongAgo /\ UniqueInv

=============================================================================
