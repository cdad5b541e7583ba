--------------------------- MODULE ReducerInvariant ---------------------------
(***************************************************************************)
(* Why the aggregator misses no usage that the accumulator has answered:   *)
(* the inductive invariant behind AnsweredIsAggregated.  A call is in one  *)
(* batch at most, so that the answer of a group never ends a call that is  *)
(* still being reduced by another; and everything a duplicate is detected  *)
(* by, the cache and the markers, is written after the sink was posted to. *)
(***************************************************************************)
EXTENDS Reducer

\* A call waits in the queue of its group, at one place.
QueueInv ==
    /\ \A g \in Groups : \A i \in DOMAIN queue[g] :
          /\ call[queue[g][i]].at = "batched"
          /\ GroupOf[call[queue[g][i]].usage] = g
    /\ \A g \in Groups : \A i, j \in DOMAIN queue[g] : queue[g][i] = queue[g][j] => i = j

\* The calls being reduced are those of the runs, each in one of them.
RunsInv ==
    /\ \A r \in runs : r.batch # <<>> /\ r.good <= Len(r.batch)
    /\ \A r \in runs : \A c \in Members(r) : call[c].at = "reducing"
    /\ \A q, r \in runs : q # r => Members(q) \cap Members(r) = {}

\* The sink has the usages of a run whose posts succeeded.
PostedInv == HasSink => \A r \in runs : r.at = "posted" => UsagesOf(Members(r)) \subseteq sink

\* The sink has the usages a duplicate of which would be detected, and those answered.
KnownInv == HasSink => cache \cup markers \cup acknowledged \subseteq sink

\* It has the usages of the calls that will be answered as done.
SettledInv ==
    HasSink => \A c \in Calls :
                  call[c].at \in {"succeeded", "conflicting"} => call[c].usage \in sink

\* The inductive invariant.
Inv == TypeOK /\ QueueInv /\ RunsInv /\ PostedInv /\ KnownInv /\ SettledInv

-----------------------------------------------------------------------------
(***************************************************************************)
(* Why no update of a sum is lost or made twice: the inductive invariant   *)
(* behind AccumulatedExactly.  A usage is in the hands of one call, and    *)
(* not counted yet; the keys of a group that is being reduced belong to    *)
(* one run, so that what it has read is still the last document when it    *)
(* writes; and it writes the newest document there is.  The last holds as  *)
(* long as batches have usage of one month, whose period does not end      *)
(* before they are done: without it sums are lost (ReducerOverlap.cfg).    *)
(***************************************************************************)

\* Groups that share a document share a lock.
LocksCoverKeys ==
    \A g, h \in Groups : KeysOf[g] \cap KeysOf[h] # {} => LockOf[g] = LockOf[h]

\* What is reduced together is usage of one month.
MonthlyBatches ==
    \A r \in runs : \A c, d \in Members(r) :
        UsageMonth[call[c].usage] = UsageMonth[call[d].usage]

\* Usage of a month to come is not taken in.
NotAhead == \A c \in Calls : call[c] # Idle => UsageMonth[call[c].usage] <= MonthOf[clock]

\* Past its search for a duplicate, and before the end of its group.
InHand(c) == call[c].at \in {"logging", "batched", "reducing"}

\* The period of a call in hand is the one its usage has now.
CurrentCalls == \A c \in Calls : InHand(c) => call[c].period = PeriodOf(call[c].usage)

\* The usage of a call in hand is in no other one's, and has not been counted.
AloneInv ==
    \A c \in Calls : InHand(c) =>
        /\ call[c].usage \notin markers
        /\ \A d \in Calls : InHand(d) /\ call[d].usage = call[c].usage => c = d

\* A run has each of its calls once, and all in its group; two runs that have begun
\* have different locks.
GroupsInv ==
    /\ \A r \in runs : \A i, j \in DOMAIN r.batch :
          /\ GroupOf[call[r.batch[i]].usage] = GroupOfRun(r)
          /\ r.batch[i] = r.batch[j] => i = j
    /\ \A q, r \in runs :
          q.at # "waiting" /\ r.at # "waiting" /\ LockOf[GroupOfRun(q)] = LockOf[GroupOfRun(r)]
              => q = r

\* What a run has read is still the last document.
MonthOfRun(r) == UsageMonth[call[r.batch[1]].usage]

BaseInv ==
    \A r \in runs : r.at # "waiting" =>
        \A k \in KeysOf[GroupOfRun(r)] : r.base[k] = LastAccum(k, MonthOfRun(r))

\* No document is of a period to come.
PastInv ==
    \A k \in Keys : \A p \in Periods : docs[k][p] # None =>
        MonthOf[p] < MonthOf[clock] \/ (MonthOf[p] = MonthOf[clock] /\ p <= clock)

ExactInv ==
    /\ NotAhead
    /\ AloneInv
    /\ GroupsInv
    /\ BaseInv
    /\ PastInv
    /\ AccumulatedExactly

=============================================================================
