----------------------------- MODULE AbacusLedger -----------------------------
(***************************************************************************)
(* What the metering pipeline makes of the usage documents the Sampler     *)
(* worker posts, as far as the bill of a continuous usage depends on it:   *)
(* the meter puts usage of a future day into its error database            *)
(* (lib/metering/meter/src/lib/message-handler.js), the accumulator finds  *)
(* a usage it has already accumulated by its dedup_id                      *)
(* (lib/aggregation/accumulator/src/lib/accumulator-config.js, keys and    *)
(* times of the output), refuses usage of a past month once the slack of   *)
(* the present one is over, and adds the rest to the window its timestamp  *)
(* lies in.                                                                *)
(*                                                                         *)
(* Abstracted: the queue between collector and meter and the retries (a    *)
(* usage is taken in at the moment it is collected); the usage documents   *)
(* of a span carry its target and measures, here they carry its _id.  The  *)
(* windows the meter and the accumulator use are those of the sampling     *)
(* dimension, which is 'day' by default.                                   *)
(***************************************************************************)
EXTENDS Sampling

CONSTANTS
    Usages,        \* the continuous usages there are bills for
    Months,        \* the window boundaries that start a month
    AbacusSlack    \* SLACK of the accumulator, in ticks

ASSUME MonthsAssumption ==
    /\ Months \subseteq Boundary
    /\ \A t \in Time : \E m \in Months : m <= t /\ \A n \in Months : n <= t => n <= m

ASSUME AbacusSlackAssumption == AbacusSlack \in Nat

VARIABLES
    accepted,   \* the guids of the usages accumulated for a continuous usage
    billed,     \* the duration accumulated for it in each window
    dropped     \* why usages of it were refused, if any were

ledgerVars == <<accepted, billed, dropped>>

Reasons == {"legal", "future", "slack"}

LedgerTypeOK ==
    /\ accepted \in [Usages -> SUBSET Nat]
    /\ billed \in [Usages -> [Boundary -> Int]]
    /\ dropped \in [Usages -> SUBSET Reasons]

LedgerInit ==
    /\ accepted = [u \in Usages |-> {}]
    /\ billed = [u \in Usages |-> [b \in Boundary |-> 0]]
    /\ dropped = [u \in Usages |-> {}]

StartOfMonth(t) == CHOOSE m \in Months : m <= t /\ \A n \in Months : n <= t => n <= m

\* usage.end > moment.utc().endOf('day')
IsFuture(time, at) == StartOf(time) > at

\* accumulate's outOfSlack: of last month or before, and the slack is over.
OutOfSlack(time, at) ==
    time < StartOfMonth(at) /\ at > StartOfMonth(at) + AbacusSlack

\* Mutant: duplicates are not recognised.
NeverDuplicate(u, guid) == FALSE

\* detectDup on the marker document of the usage.
IsDuplicate(u, guid) == guid \in accepted[u]

\* The usage of an interval is its duration at its midpoint.
Add(u, plan) ==
    [billed EXCEPT ![u][StartOf(Midpoint(plan.start, plan.end))] =
        @ + (plan.end - plan.start)]

Drop(u, reason) == dropped' = [dropped EXCEPT ![u] = @ \cup {reason}]

\* A usage document that the collector has accepted at the time at.
TakeIn(u, plan, at) ==
    LET time == Midpoint(plan.start, plan.end) IN
    \/ /\ IsFuture(time, at)
       /\ Drop(u, "future")
       /\ UNCHANGED <<accepted, billed>>
    \/ /\ ~IsFuture(time, at)
       /\ IsDuplicate(u, plan.guid)
       /\ UNCHANGED ledgerVars
    \/ /\ ~IsFuture(time, at)
       /\ ~IsDuplicate(u, plan.guid)
       /\ OutOfSlack(time, at)
       /\ Drop(u, "slack")
       /\ UNCHANGED <<accepted, billed>>
    \/ /\ ~IsFuture(time, at)
       /\ ~IsDuplicate(u, plan.guid)
       /\ ~OutOfSlack(time, at)
       /\ accepted' = [accepted EXCEPT ![u] = @ \cup {plan.guid}]
       /\ billed' = Add(u, plan)
       /\ UNCHANGED dropped

\* The collector answers 451: the licence of the account is not supported.
RefuseForLegalReasons(u) == Drop(u, "legal") /\ UNCHANGED <<accepted, billed>>

=============================================================================
