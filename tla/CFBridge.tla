------------------------------ MODULE CFBridge ------------------------------
(***************************************************************************)
(* A bridge and the renewer beside it, on one carry-over database, and     *)
(* what Abacus has accumulated of their reports.                           *)
(***************************************************************************)
EXTENDS EventBridge, Renewer

vars == <<carryVars, bridgeVars, renewerVars>>

Init == CarryOverInit /\ BridgeInit /\ RenewerInit

Bridge == (Controller \/ BridgeStep \/ BridgeFault) /\ UNCHANGED renewerVars

Clock == Advance /\ UNCHANGED <<bridgeVars, renewerVars>>

Renewal == RenewerStep /\ UNCHANGED bridgeVars

RenewalFault ==
    /\ RenewerFault
    /\ Fault
    /\ UNCHANGED <<controllerVars, progressVars, reader, bridge, settled,
                   historyVars>>

Next == Bridge \/ Clock \/ Renewal \/ RenewalFault

Spec == Init /\ [][Next]_vars

\* The bridge polls again after a failure, for ever, and time passes.
FairSpec ==
    /\ Spec
    /\ WF_vars(BridgeStep /\ UNCHANGED renewerVars)
    /\ WF_vars(Clock)

-----------------------------------------------------------------------------
Usages ==
    [res : Resources, plan : Plans, state : {"CREATED", "DELETED"},
     time : Nat]

TypeOK ==
    /\ now \in 0 .. Horizon
    /\ \A k \in Key : carry[k] # NoDoc =>
          /\ carry[k].guid \in DOMAIN events
          /\ MonthOf(carry[k].time) = k[3]
    /\ cached \in {0} \cup DOMAIN events
    /\ saved \in {NoDoc, 0} \cup DOMAIN events
    /\ \A i \in DOMAIN bridge.todo : bridge.todo[i] \in Usages

\* Nothing is skipped: every event up to the one the bridge continues after
\* has been processed, though the Cloud Controller lists events out of order
\* and calls fail (event-reader.js, isOldEnough; event-bridge.js, save),
\* except for those that were not yet listed when a page was read and were
\* passed when the rest of that page had become old enough (overlooked).
Covered(n) == 1 .. n \subseteq settled \cup overlooked

NothingSkipped ==
    /\ Covered(cached)
    /\ saved # NoDoc => Covered(saved)

\* What a resource should amount to in a month: one instance of its plan if
\* it ran at the end of the month, less the one that was carried over from the
\* month before, if it has been.
RunsAfter(res, plan, month) ==
    LET before == {i \in Dated(res) : MonthOf(TimeOf(i)) <= month}
    IN  /\ before # {}
        /\ events[Max(before)].kind # "DELETED"
        /\ events[Max(before)].plan = plan

Due(res, plan, month) ==
    LET one(b) == IF b THEN 1 ELSE 0
    IN  one(RunsAfter(res, plan, month))
        - one(/\ month > 0
              /\ RunsAfter(res, plan, month - 1)
              /\ ~Renewed(res, plan, month))

CaughtUp ==
    /\ bridge.at = "idle"
    /\ cached = Len(events)

\* Once the bridge has caught up, the usage that Abacus has accumulated is
\* that of the events, in each month and for each plan, whatever failed, was
\* repeated or was moved behind another event on the way: for resources that
\* have not met one of the faults that are described (torn, stale).
UsageIsDue ==
    CaughtUp =>
        \A res \in Resources \ (torn \cup stale), plan \in Plans,
           month \in 0 .. Month :
            supported[res] => Running(res, plan, month) = Due(res, plan, month)

\* Once the bridge has caught up, the carry-over documents of the month say
\* which resources run: the renewer neither revives nor forgets one.
CarriedIsRunning ==
    CaughtUp =>
        \A k \in Key :
            (/\ k[3] <= Month
             /\ k[1] \notin torn \cup stale
             /\ carry[k] # NoDoc)
            => (carry[k].state = "CREATED" <=> RunsAfter(k[1], k[2], k[3]))

\* Every event that is old enough before the clock stops is processed in the
\* end, and stays behind the bridge, unless it has been overlooked.
EveryEventSettled ==
    <>[](\A i \in DOMAIN events \ overlooked :
             events[i].tick + MinAge < Horizon => i \in settled)
=============================================================================
