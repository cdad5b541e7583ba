------------------------------ MODULE UsageOutput ------------------------------
(***************************************************************************)
(* The output database of an accumulator or an aggregator, as              *)
(* utils/dataflow/src/index.js and utils/dbclient/src/index.js use it.     *)
(* Under each key it keeps one document for every period of SAMPLING (an   *)
(* hour in the manifests) in which usage was reduced; a document carries   *)
(* the sum of all that came before it in its month, so that the last one   *)
(* of a month is the one that counts.  An empty document, the marker of a  *)
(* usage, is kept to detect duplicates.                                    *)
(*                                                                         *)
(* Abstracted: a sum is the number of times each usage is counted in it,   *)
(* whatever the formulas of the plan make of its quantities.               *)
(***************************************************************************)
EXTENDS Integers, Sequences, FiniteSets

CONSTANTS
    Usages,       \* what the key and the times of a marker tell apart
    Groups,       \* opt.input.groups, joined: what is reduced together
    GroupOf,      \* the group of a usage
    Keys,         \* the keys of the documents that carry sums
    KeysOf,       \* opt.output.keys of a group, without the marker's
    LastPeriod,   \* the clock stops in this period
    MonthOf,      \* the month of a period
    UsageMonth,   \* the month a usage ends in
    None

Periods == 0 .. LastPeriod
Months == {MonthOf[p] : p \in Periods}

ASSUME PeriodsAssumption ==
    /\ LastPeriod \in Nat
    /\ MonthOf \in [Periods -> Nat]
    /\ \A p, q \in Periods : p <= q => MonthOf[p] <= MonthOf[q]

ASSUME UsagesAssumption ==
    /\ GroupOf \in [Usages -> Groups]
    /\ KeysOf \in [Groups -> SUBSET Keys]
    /\ UsageMonth \in [Usages -> Months]

VARIABLES
    docs,      \* under each key, for each period: a sum, or None
    markers    \* the usages whose marker is there

outputVars == <<docs, markers>>

Sum == [Usages -> Nat]
LastDoc == [period : Periods, sum : Sum]

ASSUME NoneIsNoSum == None \notin Sum \cup LastDoc \cup Usages \cup Keys

OutputTypeOK ==
    /\ docs \in [Keys -> [Periods -> Sum \cup {None}]]
    /\ markers \subseteq Usages

OutputInit ==
    /\ docs = [k \in Keys |-> [p \in Periods |-> None]]
    /\ markers = {}

-----------------------------------------------------------------------------

FirstPeriodOf(month) == CHOOSE p \in Periods : MonthOf[p] = month /\ \A q \in Periods :
                            MonthOf[q] = month => p <= q
LastPeriodOf(month) == CHOOSE p \in Periods : MonthOf[p] = month /\ \A q \in Periods :
                            MonthOf[q] = month => q <= p

\* The periods of a month for which there is a document under key k.
Found(k, month) == {p \in Periods : MonthOf[p] = month /\ docs[k][p] # None}

\* lastAccum: the last document of a month under key k, if there is one.
LastAccum(k, month) ==
    IF Found(k, month) = {}
    THEN None
    ELSE LET last == CHOOSE p \in Found(k, month) : \A q \in Found(k, month) : q <= p
         IN  [period |-> last, sum |-> docs[k][last]]

\* The sum after the usages of a list were added to that of a document.
Reduced(doc, list) ==
    [u \in Usages |-> (IF doc = None THEN 0 ELSE doc.sum[u])
                          + Cardinality({i \in DOMAIN list : list[i] = u})]

\* A new document of period p would replace one that is there, which fails with a
\* conflict: only the document lastAccum returned, before, can be updated.
Conflicts(k, p, before) ==
    docs[k][p] # None /\ (before = None \/ before.period # p)

=============================================================================
