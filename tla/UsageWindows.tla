---------------------------- MODULE UsageWindows ----------------------------
(***************************************************************************)
(* What the accumulator, the aggregator and the reports make of the        *)
(* quantities of a metric that is summed up (the default formulas of       *)
(* config/metering): windows of cells, one for a day or a month each, the  *)
(* newest first, which are shifted as time passes (utils/timewindow) and   *)
(* kept in documents of their own for every month.                         *)
(*                                                                         *)
(* A tick of the clock is a day, seen at its noon.  A missing cell is 0:   *)
(* neither the formulas nor the sums of a report tell them apart.  That a  *)
(* usage is reduced once, and in turn, is the subject of module Reducer.   *)
(***************************************************************************)
EXTENDS Integers, Sequences, FiniteSets, SequencesExt, Functions, FiniteSetsExt

CONSTANTS
    Instances,    \* resource instances of one organization
    SpaceOf,      \* the space, the consumer and the plan of an instance
    ConsumerOf,
    PlanOfInstance,
    Quantities,   \* of a usage
    MonthDays,    \* days of a month
    SlackDays,    \* SLACK, in days
    LastNoon,     \* the clock stops at the noon of this day
    MaxUsages     \* usages submitted

ASSUME UsageWindowsAssumption ==
    /\ MonthDays \in Nat \ {0}
    /\ SlackDays \in 0 .. MonthDays
    /\ LastNoon \in Nat /\ MaxUsages \in Nat
    /\ Quantities \subseteq Nat \ {0}
    /\ IsFiniteSet(Instances)
    /\ DOMAIN SpaceOf = Instances /\ DOMAIN ConsumerOf = Instances
    /\ DOMAIN PlanOfInstance = Instances
    /\ "organization" \notin Range(SpaceOf) \cup Range(ConsumerOf)
    /\ Range(SpaceOf) \cap Range(ConsumerOf) = {}

VARIABLES
    today,
    summed,       \* accumulator: the document of an instance and a month
    posted,       \* accumulated usage on its way to the aggregator
    aggregated,   \* aggregator: the document of a key and a month
    memo,         \* the results of the formulas that are cached
    spent,        \* history: what was accepted, by instance and day
    submitted,    \* history: how many usages
    lagged,       \* history: a usage was aggregated the day after
    mixed         \* history: a formula got the cached result of other arguments

windowVars == <<today, summed, posted, aggregated, memo, spent,
                submitted, lagged, mixed>>

Days == 0 .. LastNoon
MonthOfDay(d) == d \div MonthDays
MonthsOfDays == {MonthOfDay(d) : d \in Days}
FirstDayOf(m) == m * MonthDays
LastDayOf(m) == (m + 1) * MonthDays - 1

Plans == Range(PlanOfInstance)
Keys == {"organization"} \cup Range(SpaceOf) \cup Range(ConsumerOf)
KeysOfInstance(i) == {"organization", SpaceOf[i], ConsumerOf[i]}

Dimensions == {"day", "month"}
InDimension(dim, d) == IF dim = "day" THEN d ELSE MonthOfDay(d)

NoDocument == [processed |-> -1]

-----------------------------------------------------------------------------
(***************************************************************************)
(* timewindow.                                                             *)
(***************************************************************************)
Diff(day1, day2, dim) == InDimension(dim, day2) - InDimension(dim, day1)

SlackWindows(dim) ==
    IF dim = "day" THEN SlackDays + 1
    ELSE IF SlackDays = 0 THEN 1
    ELSE (SlackDays - 1) \div MonthDays + 2

Cells(n, cell) == [j \in 1 .. n |-> cell]

\* The newest cells are empty, the oldest are lost.
ShiftWindow(before, after, window, dim, empty) ==
    LET n == Diff(before, after, dim)
    IN  [j \in 1 .. Len(window) |->
            IF n <= 0 THEN window[j] ELSE IF j > n THEN window[j - n] ELSE empty]

ShiftWindows(before, after, windows, empty) ==
    [dim \in Dimensions |-> ShiftWindow(before, after, windows[dim], dim, empty)]

TimeWindowIndex(current, day, dim) == Max({0, Diff(day, current, dim)})

Longer(window, n, cell) ==
    window \o Cells(Max({0, n - Len(window)}), cell)

-----------------------------------------------------------------------------
(***************************************************************************)
(* The results of the formulas are cached under the text of their          *)
(* arguments, one after the other.                                         *)
(***************************************************************************)
Text == LET text[n \in Nat] == IF n < 10 THEN <<n>>
                               ELSE Append(text[n \div 10], n % 10)
        IN  text

AccumulateKey(plan, cell, quantity, day, from) ==
    <<plan, Text[cell.current] \o Text[quantity], day, from>>

AggregateKey(plan, sum, cell) ==
    <<plan, Text[sum] \o Text[cell.previous] \o Text[cell.current]>>

Memoized(cache, key, result) == IF key \in DOMAIN cache THEN cache[key] ELSE result

Remember(cache, key, result) ==
    [k \in DOMAIN cache \cup {key} |-> Memoized(cache, k, result)]

-----------------------------------------------------------------------------
(***************************************************************************)
(* The accumulator.                                                        *)
(***************************************************************************)
IsOfLastMonth(day) == MonthOfDay(day) < MonthOfDay(today)

\* A mutant: usage of the slack's last day is still accepted the day after.
OutOfLongerSlack(day) ==
    IsOfLastMonth(day) /\ today - FirstDayOf(MonthOfDay(today)) > SlackDays

OutOfSlack(day) ==
    IsOfLastMonth(day) /\ today - FirstDayOf(MonthOfDay(today)) >= SlackDays

\* Usage of a past month is reduced at the end of that month.
Itime(day) == IF IsOfLastMonth(day) THEN LastDayOf(MonthOfDay(day)) ELSE today

EmptyCell == [previous |-> 0, current |-> 0]

Accum(doc) ==
    IF doc = NoDocument
    THEN [dim \in Dimensions |-> Cells(SlackWindows(dim), EmptyCell)]
    ELSE doc.windows

\* The windows to accumulate into: long enough, then shifted.
Prepared(doc, day) ==
    LET expanded == [dim \in Dimensions |->
            Longer(Accum(doc)[dim], 1 + TimeWindowIndex(Itime(day), day, dim),
                   EmptyCell)]
    IN  IF doc = NoDocument THEN expanded
        ELSE ShiftWindows(doc.processed, today, expanded, EmptyCell)

\* The cell of a window that a usage falls into by its bounds.
CellAt(day, dim) == Diff(day, Itime(day), dim) + 1

Accumulate(i, day, q) ==
    LET m == MonthOfDay(day)
        doc == summed[i][m]
        windows == Prepared(doc, day)
        cell(dim) == windows[dim][CellAt(day, dim)]
        key(dim) == AccumulateKey(PlanOfInstance[i], cell(dim), q, day,
                                  <<dim, InDimension(dim, day)>>)
        result(dim) == Memoized(memo, key(dim), cell(dim).current + q)
        newa == [dim \in Dimensions |->
                   [windows[dim] EXCEPT ![CellAt(day, dim)] =
                      [previous |-> cell(dim).current, current |-> result(dim)]]]
    IN  /\ submitted < MaxUsages
        /\ ~OutOfSlack(day)
        /\ summed' = [summed EXCEPT ![i][m] =
                             [processed |-> today, windows |-> newa]]
        /\ posted' = [posted EXCEPT ![i] = Append(@,
                        [end |-> day, processed |-> today, windows |-> newa])]
        /\ memo' = Remember(Remember(memo, key("day"), result("day")),
                            key("month"), result("month"))
        /\ spent' = [spent EXCEPT ![i][day] = @ + q]
        /\ submitted' = submitted + 1
        /\ mixed' = (mixed \/ \E dim \in Dimensions : result(dim) # cell(dim).current + q)
        /\ UNCHANGED <<today, aggregated, lagged>>

-----------------------------------------------------------------------------
(***************************************************************************)
(* The aggregator.                                                         *)
(***************************************************************************)
\* A mutant: the end of the month of late usage is not looked for.
UsageProcessed(usage) == usage.processed

CalculateUsageEnd(usage) ==
    IF IsOfLastMonth(usage.end) THEN LastDayOf(MonthOfDay(usage.end))
    ELSE usage.processed

NewAggregate == [p \in Plans |-> [dim \in Dimensions |-> <<0>>]]

\* A mutant: the windows of a document are not shifted to the usage's time.
NotShifted(doc, newEnd) ==
    IF doc = NoDocument THEN NewAggregate ELSE doc.plans

\* timewindow.shift of the org, the space or the consumer.
Shifted(doc, newEnd) ==
    IF doc = NoDocument THEN NewAggregate
    ELSE IF newEnd < doc.processed THEN doc.plans
    ELSE [p \in Plans |-> ShiftWindows(doc.processed, newEnd, doc.plans[p], 0)]

\* One window of one document, and what the formula's cache then holds.
AggrWindow(state, usage, plan, newEnd, k, dim) ==
    LET slot == TimeWindowIndex(newEnd, usage.end, dim) + 1
        window == Longer(state.docs[k][plan][dim], Len(usage.windows[dim]), 0)
        cell == usage.windows[dim][slot]
        key == AggregateKey(plan, window[slot], cell)
        sum == window[slot] + cell.current - cell.previous
        new == Memoized(state.memo, key, sum)
    IN  IF slot > Len(usage.windows[dim])
        THEN [state EXCEPT !.docs[k][plan][dim] = window]
        ELSE [docs |-> [state.docs EXCEPT ![k][plan][dim] = [window EXCEPT ![slot] = new]],
              memo |-> Remember(state.memo, key, new),
              mixed |-> state.mixed \/ new # sum]

AggrWindows(state, usage, plan, newEnd, k) ==
    AggrWindow(AggrWindow(state, usage, plan, newEnd, k, "day"),
               usage, plan, newEnd, k, "month")

Aggr(i, usage, newEnd) ==
    LET plan == PlanOfInstance[i]
        start == [docs |-> [k \in KeysOfInstance(i) |->
                              Shifted(aggregated[k][MonthOfDay(usage.end)], newEnd)],
                  memo |-> memo, mixed |-> mixed]
        afterOrganization == AggrWindows(start, usage, plan, newEnd, "organization")
        afterSpace == AggrWindows(afterOrganization, usage, plan, newEnd, SpaceOf[i])
    IN  AggrWindows(afterSpace, usage, plan, newEnd, ConsumerOf[i])

Aggregate(i) ==
    LET usage == Head(posted[i])
        new == Aggr(i, usage, CalculateUsageEnd(usage))
        doc(k) == [processed |-> today,
                   plans |-> [p \in Plans |->
                      ShiftWindows(usage.processed, Itime(usage.end), new.docs[k][p], 0)]]
    IN  /\ posted[i] # <<>>
        /\ posted' = [posted EXCEPT ![i] = Tail(@)]
        /\ aggregated' = [k \in Keys |->
              IF k \in KeysOfInstance(i)
              THEN [aggregated[k] EXCEPT ![MonthOfDay(usage.end)] = doc(k)]
              ELSE aggregated[k]]
        /\ memo' = new.memo
        /\ mixed' = new.mixed
        /\ lagged' = (lagged \/ usage.processed < today)
        /\ UNCHANGED <<today, summed, spent, submitted>>

\* Results are cached for minutes: none is left the next day.  To forget one
\* sooner is to compute it as it should be.
NextDay ==
    /\ today < LastNoon
    /\ today' = today + 1
    /\ memo' = <<>>
    /\ UNCHANGED <<summed, posted, aggregated, spent, submitted, lagged, mixed>>

WindowsInit ==
    /\ today = 0
    /\ summed = [i \in Instances |-> [m \in MonthsOfDays |-> NoDocument]]
    /\ posted = [i \in Instances |-> <<>>]
    /\ aggregated = [k \in Keys |-> [m \in MonthsOfDays |-> NoDocument]]
    /\ memo = <<>>
    /\ spent = [i \in Instances |-> [d \in Days |-> 0]]
    /\ submitted = 0
    /\ lagged = FALSE
    /\ mixed = FALSE

WindowsNext ==
    \/ \E i \in Instances :
          \/ \E day \in 0 .. today, q \in Quantities : Accumulate(i, day, q)
          \/ Aggregate(i)
    \/ NextDay

WindowsSpec == WindowsInit /\ [][WindowsNext]_windowVars

-----------------------------------------------------------------------------
(***************************************************************************)
(* The reports of a month: of today, or as of the end of a past month.     *)
(***************************************************************************)
ReportDay(m) == IF m = MonthOfDay(today) THEN today ELSE LastDayOf(m)

\* The latest document of a month; the organization's names the others.
DocumentOf(k, m) == aggregated[k][m]

\* The windows of an organization or a consumer, shifted to the report's day.
ReportedPlans(doc, day) == Shifted(doc, day)

CellOf(window, j) == IF j < Len(window) THEN window[j + 1] ELSE 0

\* The sum of the plans, for as many cells as the first plan's window has.
ReportedCell(doc, day, dim, j) ==
    SumFunctionOnSet([p \in Plans |-> CellOf(ReportedPlans(doc, day)[p][dim], j)], Plans)

\* timewindow.adjustWindows: the cells of later days are dropped, if any
\* cell is left then.
Adjusted(doc, day, dim) ==
    LET ahead == IF day > doc.processed THEN 0 ELSE Diff(day, doc.processed, dim)
        window == doc.windows[dim]
    IN  IF ahead < Len(window) THEN SubSeq(window, ahead + 1, Len(window)) ELSE window

\* The usage of an instance.
InstanceCell(i, m, dim, j) ==
    LET doc == summed[i][m]
        window == Adjusted(doc, ReportDay(m), dim)
    IN  IF doc = NoDocument \/ j >= Len(window) THEN 0 ELSE window[j + 1].current

InstancesOf(k) == {i \in Instances : k \in KeysOfInstance(i)}

UsageOn(usage, k, days) ==
    SumFunctionOnSet([i \in InstancesOf(k) |-> SumFunctionOnSet(usage[i], days)], InstancesOf(k))

SpentOn(k, days) == UsageOn(spent, k, days)

DaysOf(m) == FirstDayOf(m) .. LastDayOf(m)

\* There is usage, and all of it is aggregated.
AllAggregated == submitted > 0 /\ \A i \in Instances : posted[i] = <<>>

\* The usage of a resource instance is reported as soon as it was accumulated, for
\* this month and, on a day on which there is any, for each day that is not older
\* than the slack; what was accumulated late for the month before is not in it.
InstancesAreReported ==
    LET m == MonthOfDay(today)
    IN  \A i \in Instances :
            /\ InstanceCell(i, m, "month", 0)
                   = SumFunctionOnSet(spent[i], DaysOf(m) \cap Days)
            /\ summed[i][m].processed = today =>
                  \A d \in DaysOf(m) \cap today - SlackDays .. today :
                      InstanceCell(i, m, "day", today - d) = spent[i][d]

\* The report of a month shows the sum of the usage of the month that was
\* accepted, for the organization, its spaces and its consumers, however
\* late the usage came and in whatever order.
MonthsAreReported ==
    AllAggregated => \A k \in Keys, m \in MonthsOfDays :
        ReportedCell(DocumentOf(k, m), ReportDay(m), "month", 0)
            = SpentOn(k, DaysOf(m) \cap Days)

\* The report shows the usage of each day of the month that is not older
\* than the slack, if usage is aggregated the day it is accumulated; and that of
\* each instance.
DaysAreReported ==
    /\ AllAggregated /\ ~lagged =>
          \A k \in {"organization"} \cup Range(ConsumerOf), m \in MonthsOfDays,
             j \in 0 .. SlackDays :
                LET day == ReportDay(m) - j
                IN  day \in DaysOf(m) \cap Days =>
                      ReportedCell(DocumentOf(k, m), ReportDay(m), "day", j)
                          = SpentOn(k, {day})
    /\ submitted > 0 => InstancesAreReported

\* None of the usage of a month is on its way to the aggregator.
Settled(m) == \A i \in Instances : \A n \in DOMAIN posted[i] : MonthOfDay(posted[i][n].end) # m

Bill(m) == ReportedCell(DocumentOf("organization", m), LastDayOf(m), "month", 0)

\* The slack that lets usage of a past month in is over.
SlackIsOver == today >= FirstDayOf(MonthOfDay(today)) + SlackDays

\* The bill of a past month does not change, and none of its usage is on its way,
\* while the slack is over and the usage of the month is aggregated.  outOfSlack
\* takes usage of every past month during the slack of each later one: a bill is
\* final for the rest of a month, not for good.
ClosedMonthIsFinal ==
    [][\A m \in MonthsOfDays :
         m < MonthOfDay(today) /\ SlackIsOver /\ Settled(m) =>
            Settled(m)' /\ Bill(m)' = Bill(m)]_windowVars
=============================================================================
