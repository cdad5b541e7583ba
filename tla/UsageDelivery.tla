----------------------------- MODULE UsageDelivery -----------------------------
(***************************************************************************)
(* What the buffered pipeline promises of a usage document from the moment *)
(* the collector has it in its queue: it is kept in the end, in the output *)
(* database of the meter when the accumulator has taken it in, or in the   *)
(* error database.                                                         *)
(***************************************************************************)
EXTENDS Naturals

CONSTANT Usages

VARIABLES
    collected,   \* the usages the collector has accepted
    counted,     \* the usages the accumulator has taken in
    metered,     \* the usages the meter keeps as processed
    rejected     \* the usages it keeps with an error

vars == <<collected, counted, metered, rejected>>

Init == collected = {} /\ counted = {} /\ metered = {} /\ rejected = {}

Collect(u) ==
    /\ u \notin collected
    /\ collected' = collected \cup {u}
    /\ UNCHANGED <<counted, metered, rejected>>

Count(u) ==
    /\ u \in collected
    /\ counted' = counted \cup {u}
    /\ UNCHANGED <<collected, metered, rejected>>

\* A usage can be both: copies of a message are handled apart.
Meter(u) ==
    /\ u \in counted \ metered
    /\ metered' = metered \cup {u}
    /\ UNCHANGED <<collected, counted, rejected>>

Reject(u) ==
    /\ u \in collected \ rejected
    /\ rejected' = rejected \cup {u}
    /\ UNCHANGED <<collected, counted, metered>>

Next == \E u \in Usages : Collect(u) \/ Count(u) \/ Meter(u) \/ Reject(u)

SafeSpec == Init /\ [][Next]_vars

\* A collected usage does not stay without a record.
Keep(u) == u \notin metered \cup rejected /\ (Meter(u) \/ Reject(u))

Spec == SafeSpec /\ \A u \in Usages : WF_vars(Keep(u))

=============================================================================
