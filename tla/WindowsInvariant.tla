-------------------------- MODULE WindowsInvariant --------------------------
(***************************************************************************)
(* The inductive invariant of module UsageWindows: what the cells of the   *)
(* accumulator, of the usage on its way and of the aggregator add up to.   *)
(***************************************************************************)
EXTENDS UsageWindows

Cell == [previous : Int, current : Int]

\* The day that the newest cells of an accumulated usage are of.
EndOf(usage) ==
    IF MonthOfDay(usage.end) < MonthOfDay(usage.processed)
    THEN LastDayOf(MonthOfDay(usage.end))
    ELSE usage.processed

\* What a usage adds to the sum of its month.
Added(usage) ==
    usage.windows["month"][1].current - usage.windows["month"][1].previous

AddedOn(usage, d) == IF usage.end = d THEN Added(usage) ELSE 0

Pending(queue, d) ==
    SumFunctionOnSet([n \in DOMAIN queue |-> AddedOn(queue[n], d)], DOMAIN queue)

\* The usage that the aggregator has got, by instance and day.
Received ==
    [i \in Instances |-> [d \in Days |-> spent[i][d] - Pending(posted[i], d)]]

-----------------------------------------------------------------------------
\* The days of a month until the clock stops.
DaysIn(m) == DaysOf(m) \cap Days

\* The windows of an instance, long enough for the slack.
InstanceWindows(windows) ==
    /\ windows \in [Dimensions -> Seq(Cell)]
    /\ Len(windows["day"]) > SlackDays /\ Len(windows["month"]) > 0

\* A usage on its way adds the same to the cell of its day and of its month.
Consistent(usage) ==
    LET slot == EndOf(usage) - usage.end + 1
        cell == usage.windows["day"][slot]
    IN  /\ usage.processed \in 0 .. today /\ usage.end \in 0 .. usage.processed
        /\ InstanceWindows(usage.windows)
        /\ slot <= Len(usage.windows["day"])
        /\ cell.current - cell.previous = Added(usage)

PostedInv == \A i \in Instances : \A n \in DOMAIN posted[i] : Consistent(posted[i][n])

\* The cells of an instance are its usage, until a document is used for late
\* usage.
InstanceIsSummed(doc, m, usage) ==
    /\ doc = NoDocument => \A d \in DaysIn(m) : usage[d] = 0
    /\ doc # NoDocument =>
          /\ doc.processed \in FirstDayOf(m) .. today
          /\ InstanceWindows(doc.windows)
    /\ doc # NoDocument /\ MonthOfDay(doc.processed) = m =>
          /\ doc.windows["month"][1].current = SumFunctionOnSet(usage, DaysIn(m))
          /\ \A d \in DaysIn(m) :
                /\ d > doc.processed => usage[d] = 0
                /\ doc.processed - d \in 0 .. SlackDays =>
                      doc.windows["day"][doc.processed - d + 1].current = usage[d]

SummedInv ==
    \A i \in Instances, m \in MonthsOfDays : InstanceIsSummed(summed[i][m], m, spent[i])

-----------------------------------------------------------------------------
PlanWindows ==
    {plans \in [Plans -> [Dimensions -> Seq(Int)]] :
        \A p \in Plans, dim \in Dimensions : Len(plans[p][dim]) > 0}

SumOfPlans(plans, dim, j) ==
    SumFunctionOnSet([p \in Plans |-> CellOf(plans[p][dim], j)], Plans)

MonthIsSummed(plans, k, m, usage) ==
    SumOfPlans(plans, "month", 0) = UsageOn(usage, k, DaysIn(m))

\* The window of a plan has room for the slack, or nothing was put into it yet.
HasRoom(window) ==
    \/ Len(window) > SlackDays
    \/ \A j \in DOMAIN window : window[j] = 0

\* The newest cells are of the day.
DaysAreSummed(plans, day, k, m, usage) ==
    /\ \A p \in Plans : HasRoom(plans[p]["day"])
    /\ \A d \in DaysIn(m) :
          /\ d > day => \A i \in InstancesOf(k) : usage[i][d] = 0
          /\ day - d \in 0 .. SlackDays =>
                SumOfPlans(plans, "day", day - d) = UsageOn(usage, k, {d})

\* The day that the newest cells of a document are of.
NewestDay(doc, m) ==
    IF doc.processed < LastDayOf(m) THEN doc.processed ELSE LastDayOf(m)

DocumentIsSummed(doc, k, m, usage) ==
    /\ doc = NoDocument => \A i \in InstancesOf(k), d \in DaysIn(m) : usage[i][d] = 0
    /\ doc # NoDocument =>
          /\ doc.processed \in FirstDayOf(m) .. today
          /\ doc.plans \in PlanWindows
          /\ MonthIsSummed(doc.plans, k, m, usage)
          /\ ~lagged => DaysAreSummed(doc.plans, NewestDay(doc, m), k, m, usage)

AggregatedInv ==
    \A k \in Keys, m \in MonthsOfDays : DocumentIsSummed(aggregated[k][m], k, m, Received)

-----------------------------------------------------------------------------
\* The documents are those of the months, and what is on its way to the
\* aggregator is a queue for each instance.
ShapeInv ==
    /\ today \in Days
    /\ spent \in [Instances -> [Days -> Int]]
    /\ DOMAIN summed = Instances
    /\ \A i \in Instances : DOMAIN summed[i] = MonthsOfDays
    /\ DOMAIN posted = Instances
    /\ \A i \in Instances : posted[i] \in Seq(ToSet(posted[i]))
    /\ DOMAIN aggregated = Keys
    /\ \A k \in Keys : DOMAIN aggregated[k] = MonthsOfDays

\* The sums hold while each formula has got its own result.
WindowsInv ==
    /\ ShapeInv
    /\ ~mixed => PostedInv /\ SummedInv /\ AggregatedInv
=============================================================================
