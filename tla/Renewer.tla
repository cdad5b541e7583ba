------------------------------ MODULE Renewer ------------------------------
(***************************************************************************)
(* The renewer (cf/renewer): early in a month it reads the carry-over      *)
(* documents of the last one and, for each resource that is still running, *)
(* reports usage that starts with the month and inserts a document for it. *)
(***************************************************************************)
EXTENDS CarryOver, Sequences, SequencesExt

CONSTANTS Slack,          \* ticks of a month in which the renewer works
          DocsPerPage     \* PAGE_SIZE

ASSUME RenewerAssumption ==
    /\ Slack \in Nat
    /\ DocsPerPage \in Nat \ {0}

VARIABLES renewer,        \* where the renewer is
          stale           \* history: resources renewed from an old document

renewerVars == <<renewer, stale>>

Waiting == [at |-> "waiting", read |-> 0, full |-> FALSE, refs |-> {},
            job |-> NoDoc]

RenewerInit == renewer = Waiting /\ stale = {}

-----------------------------------------------------------------------------
(***************************************************************************)
(* The documents of last month are a range of keys, read page by page.     *)
(***************************************************************************)
ResourceOrder == SetToSeq(Resources)
PlanOrder == SetToSeq(Plans)

Sorts(k, l) ==
    LET rank(seq, x) == CHOOSE i \in DOMAIN seq : seq[i] = x
        res(key) == rank(ResourceOrder, key[1])
        plan(key) == rank(PlanOrder, key[2])
    IN  \/ res(k) < res(l)
        \/ res(k) = res(l) /\ plan(k) < plan(l)

DocsOf(month) == {k \in Key : k[3] = month /\ carry[k] # NoDoc}

Reference(key) == [key |-> key, doc |-> carry[key]]

IsSupported(ref) == ref.doc.state = "CREATED"

ReadPageFrom(read) ==
    LET docs == DocsOf(Month - 1)
        place(k) == Cardinality({l \in docs : Sorts(l, k)})
        page == {k \in docs : place(k) \in read .. read + DocsPerPage - 1}
        here == {Reference(k) : k \in page}
        size == Cardinality(here)
    IN  renewer' = IF here = {} THEN Waiting
                   ELSE [Waiting EXCEPT !.at = "getting",
                                        !.read = read + size,
                                        !.full = size = DocsPerPage,
                                        !.refs = {ref \in here : IsSupported(ref)}]

\* The timer fires; outside the slack of the month nothing is done.
Renew ==
    /\ renewer.at = "waiting"
    /\ Month > 0
    /\ now <= MonthTicks * Month + Slack
    /\ ReadPageFrom(0)
    /\ UNCHANGED <<carryVars, stale>>

\* The page has been processed: read the next, unless it was the last.
PageDone ==
    /\ renewer.at = "getting"
    /\ renewer.refs = {}
    /\ IF renewer.full THEN ReadPageFrom(renewer.read) ELSE renewer' = Waiting
    /\ UNCHANGED <<carryVars, stale>>

-----------------------------------------------------------------------------
(***************************************************************************)
(* One document: the usage it refers to is read from the collector, moved  *)
(* to the start of the month, reported, and remembered.                    *)
(***************************************************************************)
\* The documents of a page are processed in their order.
IsFirst(ref) == \A other \in renewer.refs \ {ref} : Sorts(ref.key, other.key)

Take(ref) == renewer' = [renewer EXCEPT !.at = "finding", !.job = ref,
                                        !.refs = @ \ {ref}]

Drop(ref) == renewer' = [renewer EXCEPT !.refs = @ \ {ref}]

JobDone == renewer' = [renewer EXCEPT !.at = "getting", !.job = NoDoc]

\* refreshUsage: the usage is moved to the start of this month, which is the one after
\* that of the document as long as the run of the renewer is (see ReportStart).
StartUsage(ref) ==
    [res |-> ref.key[1], plan |-> ref.key[2], state |-> "CREATED",
     time |-> StartOf(ref.key[3] + 1)]

\* A run that goes on when its month is over is left out: it would move the usage to a later
\* month.
ReportStart ==
    /\ renewer.at = "getting"
    /\ \E ref \in renewer.refs :
          /\ IsFirst(ref) /\ ref.key[3] = Month - 1
          /\ supported[ref.key[1]]
          /\ Accumulate(StartUsage(ref))
          /\ stale' = IF carry[ref.key] # ref.doc THEN stale \cup {ref.key[1]}
                                                  ELSE stale
          /\ Take(ref)
    /\ UNCHANGED <<now, carry, supported>>

StartRefused ==
    /\ renewer.at = "getting"
    /\ \E ref \in renewer.refs :
          IsFirst(ref) /\ ~supported[ref.key[1]] /\ Drop(ref)
    /\ UNCHANGED <<carryVars, stale>>

FindDoc ==
    /\ renewer.at = "finding"
    /\ IF Stored(BuildKey(StartUsage(renewer.job))) = NoDoc
       THEN renewer' = [renewer EXCEPT !.at = "inserting"]
       ELSE JobDone
    /\ UNCHANGED <<carryVars, stale>>

InsertDoc ==
    /\ renewer.at = "inserting"
    /\ LET usage == StartUsage(renewer.job)
           old == renewer.job.doc
       IN  /\ ~PutConflicts(NoDoc, BuildKey(usage))
           /\ Put(BuildKey(usage),
                  [ResourceInfo(usage, old.guid) EXCEPT !.state = old.state])
    /\ JobDone
    /\ UNCHANGED <<now, ledger, supported, stale>>

InsertConflict ==
    /\ renewer.at = "inserting"
    /\ PutConflicts(NoDoc, BuildKey(StartUsage(renewer.job)))
    /\ JobDone
    /\ UNCHANGED <<carryVars, stale>>

\* A call fails: the document is left for the next run.
RenewFails ==
    /\ \/ renewer.at = "getting" /\ \E ref \in renewer.refs : IsFirst(ref) /\ Drop(ref)
       \/ renewer.at \in {"finding", "inserting"} /\ JobDone
    /\ UNCHANGED <<carryVars, stale>>

\* The renewer restarts, or cannot read the next page.
RenewStops ==
    /\ renewer.at # "waiting"
    /\ renewer' = Waiting
    /\ UNCHANGED <<carryVars, stale>>

RenewerStep ==
    \/ Renew \/ PageDone \/ ReportStart \/ StartRefused
    \/ FindDoc \/ InsertDoc \/ InsertConflict

RenewerFault == RenewFails \/ RenewStops
=============================================================================
