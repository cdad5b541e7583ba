-------------------------------- MODULE Worker --------------------------------
(***************************************************************************)
(* The Worker of the Sampler (lib/sampler/worker/src): it turns the spans  *)
(* of the store into usage documents, one interval at a time, and cleans   *)
(* the store up.  Any number of Workers may run; each runs two loops, one  *)
(* over incomplete spans and one over complete ones (scheduler.js), that   *)
(* interleave at every await.  What a Worker has read is a snapshot.       *)
(*                                                                         *)
(* Abstracted: the pauses between the runs of a loop and throttling, which *)
(* only delay; the order the database returns documents in (any).          *)
(***************************************************************************)
EXTENDS SpanStore, AbacusLedger

CONSTANTS
    Workers,
    BatchSize,     \* cfg.processingBatchSize
    CleanupBatch,  \* cfg.cleanupBatchSize
    CleanupAge     \* cfg.cleanupAge

ASSUME WorkerAssumption ==
    BatchSize \in Nat \ {0} /\ CleanupBatch \in Nat \ {0} /\ CleanupAge \in Nat
ASSUME UsagesAreSpans == Usages = SpanIds

VARIABLES
    queue,     \* of each worker: the snapshots of its batch still to be processed
    job,       \* ... the one among them whose usage has been posted, or None
    sweep,     \* ... the _id of the documents it is about to delete
    lastGuid   \* of each span: the guids of its plans are numbered up to this one

workerVars == <<queue, job, sweep, lastGuid>>

Snapshot == [id : SpanIds, doc : Span]

ASSUME NoneIsNoSnapshot == None \notin Snapshot

WorkerTypeOK ==
    /\ queue \in [Workers -> SUBSET Snapshot]
    /\ job \in [Workers -> Snapshot \cup {None}]
    /\ sweep \in [Workers -> SUBSET SpanIds]
    /\ lastGuid \in [SpanIds -> Nat]

WorkerInit ==
    /\ queue = [w \in Workers |-> {}]
    /\ job = [w \in Workers |-> None]
    /\ sweep = [w \in Workers |-> {}]
    /\ lastGuid = [s \in SpanIds |-> 0]

Done(w, item) == queue' = [queue EXCEPT ![w] = @ \ {item}]

\* An exception leaves the loop over the batch: the rest of it is not processed.
Abort(w) == queue' = [queue EXCEPT ![w] = {}]

-----------------------------------------------------------------------------

\* processSpans: read the next batch.
Poll(w) ==
    /\ queue[w] = {}
    /\ \E batch \in Batches(FindIncompleteSpans(OneWindowBefore(now)), BatchSize) :
          /\ batch # {}
          /\ queue' = [queue EXCEPT ![w] = {[id |-> s, doc |-> spans[s]] : s \in batch}]
    /\ UNCHANGED <<storeVars, ledgerVars, job, sweep, lastGuid>>

NextPlan(item) ==
    [ start |-> item.doc.last,
      end   |-> NextIntervalEnd(item.doc.last, item.doc.end),
      guid  |-> lastGuid[item.id] + 1 ]

\* _processUnplannedSpan: agree on the next interval, unless another worker has.
PlanInterval(w) ==
    \E item \in queue[w] :
        /\ job[w] = None
        /\ item.doc.planned = None
        /\ \E applied \in BOOLEAN :
              /\ UpdateSpanPlannedInterval(item.id, NextPlan(item), item.doc.version, applied)
              /\ lastGuid' = IF applied THEN [lastGuid EXCEPT ![item.id] = @ + 1] ELSE lastGuid
        /\ Done(w, item)
        /\ UNCHANGED <<ledgerVars, job, sweep>>

\* _processPlannedSpan up to the answer of the collector, which may be
\* 202, nothing although the usage was taken in, 451, or an error.
Posting(w, item) == item \in queue[w] /\ job[w] = None /\ item.doc.planned # None

PostAccepted(w) ==
    \E item \in queue[w] :
        /\ Posting(w, item)
        /\ TakeIn(item.id, item.doc.planned, now)
        /\ job' = [job EXCEPT ![w] = item]
        /\ UNCHANGED <<storeVars, queue, sweep, lastGuid>>

PostAnswerLost(w) ==
    \E item \in queue[w] :
        /\ Posting(w, item)
        /\ TakeIn(item.id, item.doc.planned, now)
        /\ Abort(w)
        /\ UNCHANGED <<storeVars, job, sweep, lastGuid>>

PostRefused(w) ==
    \E item \in queue[w] :
        /\ Posting(w, item)
        /\ RefuseForLegalReasons(item.id)
        /\ job' = [job EXCEPT ![w] = item]
        /\ UNCHANGED <<storeVars, queue, sweep, lastGuid>>

PostFailed(w) ==
    \E item \in queue[w] :
        /\ Posting(w, item)
        /\ Abort(w)
        /\ UNCHANGED <<storeVars, ledgerVars, job, sweep, lastGuid>>

\* The interval planned reaches the end the span had when it was read.
ReachesEnd(doc) == doc.planned.end = doc.end

\* _processPlannedSpan from the update of the store.
ProcessInterval(w) ==
    LET item == job[w] IN
    /\ item # None
    /\ \E applied \in BOOLEAN :
          UpdateSpanProcessedInterval(item.id, item.doc.planned, ReachesEnd(item.doc),
                                      item.doc.version, applied)
    /\ job' = [job EXCEPT ![w] = None]
    /\ Done(w, item)
    /\ UNCHANGED <<ledgerVars, sweep, lastGuid>>

-----------------------------------------------------------------------------

\* cleanupSpans: read what is to be deleted, then delete it.
FindForCleanup(w) ==
    /\ sweep[w] = {}
    /\ \E batch \in Batches(FindCompleteSpans(now - CleanupAge), CleanupBatch) :
          /\ batch # {}
          /\ sweep' = [sweep EXCEPT ![w] = batch]
    /\ UNCHANGED <<storeVars, ledgerVars, queue, job, lastGuid>>

Cleanup(w) ==
    /\ sweep[w] # {}
    /\ DeleteSpansByIDs(sweep[w])
    /\ sweep' = [sweep EXCEPT ![w] = {}]
    /\ UNCHANGED <<ledgerVars, queue, job, lastGuid>>

\* The process is killed and started again, between any two steps.
Crash(w) ==
    /\ queue[w] # {} \/ sweep[w] # {}
    /\ queue' = [queue EXCEPT ![w] = {}]
    /\ job' = [job EXCEPT ![w] = None]
    /\ sweep' = [sweep EXCEPT ![w] = {}]
    /\ UNCHANGED <<storeVars, ledgerVars, lastGuid>>

WorkerStep(w) ==
    \/ Poll(w)
    \/ PlanInterval(w)
    \/ PostAccepted(w)
    \/ PostAnswerLost(w)
    \/ PostRefused(w)
    \/ PostFailed(w)
    \/ ProcessInterval(w)
    \/ FindForCleanup(w)
    \/ Cleanup(w)
    \/ Crash(w)

=============================================================================
