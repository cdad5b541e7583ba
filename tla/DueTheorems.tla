--------------------------- MODULE DueTheorems ---------------------------
(***************************************************************************)
(* The usage that Abacus has accumulated is that of the events, and the    *)
(* carry-over documents say what runs: proofs of UsageIsDue and            *)
(* CarriedIsRunning from the invariant of DueInvariant.                    *)
(*                                                                         *)
(* The lemmas follow the argument: times and months, the usages that an    *)
(* event becomes, what the documents say, sums, what a step leaves alone,  *)
(* the usage that is being processed, its report and its document, and     *)
(* then each action.                                                       *)
(***************************************************************************)
EXTENDS DueInvariant, BridgeTheorems

-----------------------------------------------------------------------------
(***************************************************************************)
(* Ticks, milliseconds and months.                                         *)
(***************************************************************************)
LEMMA Times ==
    /\ \A a, b \in Int : a * b \in Int /\ (a + 1) * b = a * b + b
    /\ \A a, b, c \in Nat : a <= b => a * c <= b * c
    /\ \A a, b, c \in Nat : a * (b * c) = (a * b) * c
OBVIOUS

\* What a quotient is.
LEMMA Quotient ==
    ASSUME NEW a \in Nat, NEW b \in Nat \ {0}
    PROVE  /\ a \div b \in Nat /\ (a \div b) * b <= a /\ a < (a \div b) * b + b
           /\ \A q \in Nat : q * b <= a /\ a < q * b + b => a \div b = q
<1>1. a \div b \in Nat /\ (a \div b) * b <= a /\ a < (a \div b) * b + b OBVIOUS
<1>2. ASSUME NEW q \in Nat, NEW d \in Nat, q * b <= a, a < q * b + b, d * b <= a,
             a < d * b + b
      PROVE  ~ (d < q)
  <2> SUFFICES ASSUME d < q PROVE FALSE OBVIOUS
  <2>1. (d + 1) * b <= q * b BY Times
  <2>2. (d + 1) * b = d * b + b OBVIOUS
  <2> QED BY <1>2, <2>1, <2>2
<1> DEFINE d == a \div b
<1>3. d \in Nat /\ d * b <= a /\ a < d * b + b BY <1>1
<1> HIDE DEF d
<1>4. ASSUME NEW q \in Nat, q * b <= a, a < q * b + b PROVE d = q
  <2>1. ~ (d < q) /\ ~ (q < d) BY <1>2, <1>3, <1>4
  <2> QED BY <1>3, <2>1
<1> QED BY <1>1, <1>4 DEF d

\* Of two numbers the greater has the greater quotient.
LEMMA QuotientGrows ==
    ASSUME NEW a \in Nat, NEW c \in Nat, a <= c, NEW b \in Nat \ {0}
    PROVE  a \div b <= c \div b
<1> DEFINE d == a \div b
           e == c \div b
<1>1. d \in Nat /\ d * b <= a /\ e \in Nat /\ c < e * b + b BY Quotient
<1> HIDE DEF d, e
<1>2. ~ (e < d)
  <2> SUFFICES ASSUME e < d PROVE FALSE OBVIOUS
  <2>1. (e + 1) * b <= d * b BY <1>1, Times
  <2>2. (e + 1) * b = e * b + b BY <1>1
  <2>3. e * b \in Nat /\ d * b \in Nat BY <1>1, Products
  <2> QED BY <1>1, <2>1, <2>2, <2>3
<1>3. d <= e BY <1>1, <1>2
<1> QED BY <1>3 DEF d, e

\* The numbers that time is cut by.
LEMMA Lengths ==
    /\ Gap \in Nat /\ Gap > 1 /\ Gap \in Nat \ {0} /\ MonthTicks \in Nat \ {0} /\ MonthTicks \in Nat
    /\ MonthLength \in Nat \ {0} /\ MonthLength = MonthTicks * Gap
    /\ Horizon \in Nat /\ PerTick \in Nat /\ PerTick > 0 /\ 2 * PerTick < Gap
<1>1. \A a, b \in Nat \ {0} : a * b \in Nat \ {0} OBVIOUS
<1>2. Gap \in Nat /\ Gap > 1 /\ Gap \in Nat \ {0} /\ MonthTicks \in Nat \ {0} BY CarryOverAssumption
<1> QED BY <1>1, <1>2, CarryOverAssumption, EventBridgeAssumption DEF MonthLength

\* A time within a tick is of the month of the tick.
LEMMA MonthOfTime ==
    ASSUME NEW n \in Nat, NEW e \in 0 .. Gap - 1
    PROVE  MonthOf(n * Gap + e) = n \div MonthTicks /\ n * Gap + e \in Nat
<1> DEFINE q == n \div MonthTicks
           t == n * Gap + e
<1>1. q \in Nat /\ q * MonthTicks <= n /\ n < q * MonthTicks + MonthTicks BY Lengths, Quotient
<1> HIDE DEF q
<1>2. n * Gap \in Nat /\ t \in Nat /\ e \in Nat /\ e < Gap BY Lengths, Products
<1>3. q * MonthTicks \in Nat /\ q * MonthTicks + MonthTicks \in Nat
      /\ n + 1 <= q * MonthTicks + MonthTicks
  BY <1>1, Lengths, Products
<1>4. (q * MonthTicks) * Gap <= n * Gap BY <1>1, <1>3, Lengths, Times
<1>5. (n + 1) * Gap <= (q * MonthTicks + MonthTicks) * Gap BY <1>3, Lengths, Times
<1>6. (n + 1) * Gap = n * Gap + Gap BY Lengths, Times
<1>7. q * MonthTicks + MonthTicks = (q + 1) * MonthTicks BY <1>1, Lengths, Times
<1>8. (q * MonthTicks) * Gap = q * MonthLength BY <1>1, Lengths, Times
<1>9. ((q + 1) * MonthTicks) * Gap = (q + 1) * MonthLength BY <1>1, Lengths, Times
<1>10. (q + 1) * MonthLength = q * MonthLength + MonthLength BY <1>1, Lengths, Times
<1>11. q * MonthLength \in Nat BY <1>1, Lengths, Products
<1>12. q * MonthLength <= t /\ t < q * MonthLength + MonthLength
  <2>1. q * MonthLength <= n * Gap BY <1>4, <1>8
  <2>2. n * Gap + Gap <= q * MonthLength + MonthLength
    BY <1>5, <1>6, <1>7, <1>9, <1>10
  <2> QED BY <1>2, <1>11, <2>1, <2>2, Lengths
<1>13. t \div MonthLength = q BY <1>1, <1>2, <1>12, Lengths, Quotient
<1> QED BY <1>2, <1>13 DEF MonthOf, q

\* The start of a month, and of those before it.
LEMMA StartOfMonth ==
    ASSUME NEW m \in Nat
    PROVE  /\ StartOf(m) \in Nat /\ MonthOf(StartOf(m)) = m
           /\ \A n \in Nat : n \div MonthTicks = m => StartOf(m) <= n * Gap
           /\ \A n \in Nat, e \in 1 .. Gap - 1 : n * Gap + e # StartOf(m)
<1>1. m * MonthTicks \in Nat BY Lengths, Products
<1>2. StartOf(m) = (m * MonthTicks) * Gap BY Lengths, Times DEF StartOf
<1>3. StartOf(m) \in Nat BY <1>1, <1>2, Lengths, Products
<1>4. MonthOf(StartOf(m)) = m
  <2>1. StartOf(m) = m * MonthLength BY DEF StartOf
  <2>2. StartOf(m) \div MonthLength = m BY <1>3, <2>1, Lengths, Quotient
  <2> QED BY <2>2 DEF MonthOf
<1>5. ASSUME NEW n \in Nat, n \div MonthTicks = m PROVE StartOf(m) <= n * Gap
  <2>1. m * MonthTicks <= n BY <1>5, Lengths, Quotient
  <2> QED BY <1>1, <1>2, <2>1, Lengths, Times
<1>6. ASSUME NEW n \in Nat, NEW e \in 1 .. Gap - 1, n * Gap + e = StartOf(m) PROVE FALSE
  <2> DEFINE k == m * MonthTicks
  <2>1. k \in Nat /\ n * Gap + e = k * Gap BY <1>1, <1>2, <1>6
  <2> HIDE DEF k
  <2>2. n * Gap \in Nat /\ k * Gap \in Nat BY <2>1, Lengths, Products
  <2>3. CASE k <= n
    <3>1. k * Gap <= n * Gap BY <2>1, <2>3, Lengths, Times
    <3> QED BY <2>1, <2>2, <3>1
  <2>4. CASE n + 1 <= k
    <3>1. (n + 1) * Gap <= k * Gap /\ (n + 1) * Gap = n * Gap + Gap
      BY <2>1, <2>4, Lengths, Times
    <3> QED BY <2>1, <2>2, <3>1, Lengths
  <2> QED BY <2>1, <2>3, <2>4
<1> QED BY <1>3, <1>4, <1>5, <1>6

\* The months that the clock can reach.
LEMMA MonthsReached ==
    /\ Months = 0 .. (Horizon \div MonthTicks) /\ Horizon \div MonthTicks \in Nat
    /\ \A n \in 0 .. Horizon : n \div MonthTicks \in Months
    /\ now \in 0 .. Horizon => Month = now \div MonthTicks /\ Month \in Months
<1>1. ASSUME NEW n \in Nat PROVE MonthOf(n * Gap) = n \div MonthTicks
  <2>1. 0 \in 0 .. Gap - 1 /\ n * Gap \in Nat BY Lengths, Products
  <2>2. n * Gap + 0 = n * Gap BY <2>1
  <2>3. MonthOf(n * Gap + 0) = n \div MonthTicks BY <2>1, MonthOfTime
  <2> QED BY <2>2, <2>3
<1>2. Months = 0 .. (Horizon \div MonthTicks) BY <1>1, Lengths DEF Months
<1>3. Horizon \div MonthTicks \in Nat BY Lengths, Quotient
<1>4. ASSUME NEW n \in 0 .. Horizon PROVE n \div MonthTicks \in Months /\ n \in Nat
  <2>1. n \in Nat /\ n <= Horizon BY Lengths
  <2>2. n \div MonthTicks \in Nat /\ n \div MonthTicks <= Horizon \div MonthTicks
    BY <2>1, Lengths, Quotient, QuotientGrows
  <2> QED BY <1>2, <1>3, <2>1, <2>2
<1>5. now \in 0 .. Horizon => Month = now \div MonthTicks
  BY <1>1, <1>4 DEF Month
<1> QED BY <1>2, <1>3, <1>4, <1>5

-----------------------------------------------------------------------------
(***************************************************************************)
(* Events, and the usages they become.                                     *)
(***************************************************************************)
\* The greatest of some events.
LEMMA MaxIsGreatest ==
    ASSUME NEW n \in Nat, NEW S \in SUBSET (1 .. n), S # {}
    PROVE  Max(S) \in S /\ (\A k \in S : k <= Max(S))
           /\ \A m \in S : (\A k \in S : k <= m) => m = Max(S)
<1>1. S \in SUBSET (0 .. n) OBVIOUS
<1>2. PICK m \in S : \A k \in S : k <= m BY <1>1, HasGreatest
<1>3. \A k \in S : m >= k
  <2>1. \A k \in S : k \in Nat /\ m \in Nat OBVIOUS
  <2> QED BY <1>2, <2>1
<1>4. Max(S) \in S /\ \A k \in S : Max(S) >= k BY <1>3 DEF Max
<1>5. \A k \in S : k \in Nat OBVIOUS
<1> HIDE DEF Max
<1>6. \A k \in S : k <= Max(S) BY <1>4, <1>5
<1>7. ASSUME NEW k \in S, \A l \in S : l <= k PROVE k = Max(S)
  <2>1. Max(S) <= k /\ k <= Max(S) BY <1>4, <1>6, <1>7
  <2>2. Max(S) \in Nat /\ k \in Nat BY <1>4, <1>5
  <2>3. \A a, b \in Nat : a <= b /\ b <= a => a = b OBVIOUS
  <2> QED BY ONLY <2>1, <2>2, <2>3
<1> QED BY <1>4, <1>6, <1>7

\* What is known of every event.
LEMMA EventIs ==
    ASSUME TypesInv, ListInv, NEW i \in DOMAIN events
    PROVE  /\ events[i] \in Event /\ events[i].res \in Resources /\ events[i].plan \in Plans
           /\ events[i].kind \in {"CREATED", "DELETED", "UPDATED"}
           /\ events[i].tick \in Nat /\ i \in Nat
           /\ TimeOf(i) = events[i].tick * Gap + 1 /\ TimeOf(i) \in Nat /\ TimeOf(i) + 1 \in Nat
           /\ MonthOfEvent(i) = events[i].tick \div MonthTicks
           /\ MonthOfEvent(i) \in Months /\ MonthOfEvent(i) \in Nat
           /\ MonthOf(TimeOf(i) + 1) = MonthOfEvent(i)
           /\ StartOf(MonthOfEvent(i)) < TimeOf(i)
<1>1. /\ events \in Seq(Event) /\ Len(events) \in Nat /\ DOMAIN events = 1 .. Len(events)
  BY TypesMean
<1>2. events[i] \in Event /\ events[i].tick \in Nat /\ TimeOf(i) \in Nat /\ TimeOf(i) + 1 \in Nat
  BY <1>1, TimeIsNatural
<1>3. events[i].tick \in 0 .. Horizon
  <2>1. events[i].tick <= now /\ now \in 0 .. Horizon
    BY DEF ListInv, TypesInv, TypeOK
  <2> QED BY <1>2, <2>1, Lengths
<1>4. events[i].tick \div MonthTicks \in Months /\ events[i].tick \div MonthTicks \in Nat
  BY <1>2, <1>3, MonthsReached, Lengths, Quotient
<1> DEFINE n == events[i].tick
<1>5. 1 \in 0 .. Gap - 1 BY Lengths
<1>6. MonthOf(n * Gap + 1) = n \div MonthTicks
  BY <1>2, <1>5, MonthOfTime
<1>7. MonthOf(TimeOf(i) + 1) = n \div MonthTicks
  <2>1. n * Gap \in Nat BY <1>2, Lengths, Products
  <2>2. (n * Gap + 1) + 1 = n * Gap + 2 BY <2>1
  <2>3. 2 \in 0 .. Gap - 1 BY Lengths
  <2>4. MonthOf(n * Gap + 2) = n \div MonthTicks BY <1>2, <2>3, MonthOfTime
  <2> QED BY <2>2, <2>4 DEF TimeOf
<1>8. StartOf(n \div MonthTicks) < TimeOf(i)
  <2>1. n \div MonthTicks \in Nat BY <1>4
  <2>2. StartOf(n \div MonthTicks) <= n * Gap /\ StartOf(n \div MonthTicks) \in Nat
    BY <1>2, <2>1, StartOfMonth
  <2>3. n * Gap \in Nat BY <1>2, Lengths, Products
  <2> QED BY <2>2, <2>3 DEF TimeOf
<1>9. MonthOfEvent(i) = events[i].tick \div MonthTicks BY <1>6 DEF MonthOfEvent, TimeOf
<1> QED BY <1>1, <1>2, <1>4, <1>7, <1>8, <1>9 DEF Event, TimeOf, States

\* Events are in the order of their time.
LEMMA EventsInOrder ==
    ASSUME TypesInv, ListInv, NEW i \in DOMAIN events, NEW j \in DOMAIN events
    PROVE  /\ i <= j => events[i].tick <= events[j].tick /\ MonthOfEvent(i) <= MonthOfEvent(j)
           /\ MonthOfEvent(i) < MonthOfEvent(j) => i < j
           /\ i \in Nat /\ j \in Nat
<1>1. /\ i \in Nat /\ j \in Nat /\ events[i].tick \in Nat /\ events[j].tick \in Nat
      /\ MonthOfEvent(i) = events[i].tick \div MonthTicks
      /\ MonthOfEvent(j) = events[j].tick \div MonthTicks
      /\ MonthOfEvent(i) \in Nat /\ MonthOfEvent(j) \in Nat
  BY EventIs
<1>2. ASSUME NEW a \in DOMAIN events, NEW b \in DOMAIN events, a <= b
      PROVE  events[a].tick <= events[b].tick /\ MonthOfEvent(a) <= MonthOfEvent(b)
  <2>1. events[a].tick <= events[b].tick BY <1>2 DEF ListInv
  <2>2. /\ events[a].tick \in Nat /\ events[b].tick \in Nat
        /\ MonthOfEvent(a) = events[a].tick \div MonthTicks
        /\ MonthOfEvent(b) = events[b].tick \div MonthTicks
    BY EventIs
  <2> QED BY <2>1, <2>2, QuotientGrows, Lengths
<1>3. MonthOfEvent(i) < MonthOfEvent(j) => i < j
  <2> SUFFICES ASSUME MonthOfEvent(i) < MonthOfEvent(j), j <= i PROVE FALSE
    BY <1>1
  <2>1. MonthOfEvent(j) <= MonthOfEvent(i) BY <1>2
  <2> QED BY <1>1, <2>1
<1> QED BY <1>1, <1>2, <1>3

\* An event after which a resource runs under a plan.
Starts(i, plan) == events[i].kind # "DELETED" /\ events[i].plan = plan

\* The last of some events says which plan a resource runs under.
LEMMA LastStarts ==
    ASSUME TypesInv, NEW past \in SUBSET DOMAIN events, NEW plan
    PROVE  (past # {} /\ events[Max(past)].kind # "DELETED" /\ events[Max(past)].plan = plan)
           <=> \E j \in past : Starts(j, plan) /\ \A k \in past : k <= j
<1>1. Len(events) \in Nat /\ past \in SUBSET (1 .. Len(events)) BY TypesMean
<1>2. past # {} => /\ Max(past) \in past /\ (\A k \in past : k <= Max(past))
                   /\ \A m \in past : (\A k \in past : k <= m) => m = Max(past)
  BY <1>1, MaxIsGreatest
<1> QED BY <1>2 DEF Starts

\* The plan that a resource runs under after some events.
LEMMA PlanIsOfLast ==
    ASSUME TypesInv, ListInv, NEW res, NEW n
    PROVE  /\ PlanAfter(res, n) \in Plans \cup {NoDoc}
           /\ \A plan \in Plans :
                 PlanAfter(res, n) = plan <=>
                 \E j \in Dated(res) : /\ j <= n /\ Starts(j, plan)
                                       /\ \A k \in Dated(res) : k <= n => k <= j
           /\ PlanAfter(res, n) = NoDoc =>
                 \A plan \in Plans :
                    ~ \E j \in Dated(res) : /\ j <= n /\ Starts(j, plan)
                                            /\ \A k \in Dated(res) : k <= n => k <= j
<1> DEFINE past == {i \in Dated(res) : i <= n}
<1>1. past \in SUBSET DOMAIN events BY DEF Dated
<1>2. past # {} => Max(past) \in DOMAIN events
  <2>1. Len(events) \in Nat /\ past \in SUBSET (1 .. Len(events)) BY <1>1, TypesMean
  <2> QED BY <1>1, <2>1, MaxIsGreatest
<1>3. PlanAfter(res, n) = IF past = {} \/ events[Max(past)].kind = "DELETED"
                          THEN NoDoc ELSE events[Max(past)].plan
  BY DEF PlanAfter
<1>4. past # {} => events[Max(past)].plan \in Plans BY <1>2, EventIs
<1>5. NoDoc \notin Plans BY CarryOverAssumption
<1>6. \A plan \in Plans :
         PlanAfter(res, n) = plan <=> \E j \in past : Starts(j, plan) /\ \A k \in past : k <= j
  <2> TAKE plan \in Plans
  <2>1. (past # {} /\ events[Max(past)].kind # "DELETED" /\ events[Max(past)].plan = plan)
        <=> \E j \in past : Starts(j, plan) /\ \A k \in past : k <= j
    BY <1>1, LastStarts
  <2> HIDE DEF past
  <2> QED BY <1>3, <1>5, <2>1
<1>7. \A plan \in Plans : (\E j \in past : Starts(j, plan) /\ \A k \in past : k <= j)
        <=> \E j \in Dated(res) : /\ j <= n /\ Starts(j, plan)
                                  /\ \A k \in Dated(res) : k <= n => k <= j
  OBVIOUS
<1>8. PlanAfter(res, n) \in Plans \cup {NoDoc}
  <2> HIDE DEF past
  <2> QED BY <1>3, <1>4
<1> HIDE DEF past
<1> QED BY <1>5, <1>6, <1>7, <1>8

\* Which plan a resource runs under after the processed events, up to a month.
LEMMA RunsIsOfLast ==
    ASSUME TypesInv, NEW res, NEW plan, NEW month
    PROVE  /\ RunsSettled(res, plan, month) <=>
              \E j \in Done(res) : /\ MonthOfEvent(j) <= month /\ Starts(j, plan)
                                   /\ \A k \in Done(res) : MonthOfEvent(k) <= month => k <= j
           /\ RunsAfter(res, plan, month) <=>
              \E j \in Dated(res) : /\ MonthOfEvent(j) <= month /\ Starts(j, plan)
                                    /\ \A k \in Dated(res) : MonthOfEvent(k) <= month => k <= j
<1> DEFINE settledBefore == {i \in Done(res) : MonthOfEvent(i) <= month}
           before == {i \in Dated(res) : MonthOfEvent(i) <= month}
<1>1. settledBefore \in SUBSET DOMAIN events /\ before \in SUBSET DOMAIN events
  BY DEF Done, Dated
<1>2. RunsSettled(res, plan, month) <=>
         (settledBefore # {} /\ events[Max(settledBefore)].kind # "DELETED"
          /\ events[Max(settledBefore)].plan = plan)
  BY DEF RunsSettled
<1>3. RunsAfter(res, plan, month) <=>
         (before # {} /\ events[Max(before)].kind # "DELETED" /\ events[Max(before)].plan = plan)
  BY DEF RunsAfter, MonthOfEvent
<1> HIDE DEF settledBefore, before
<1>4. RunsSettled(res, plan, month) <=>
         \E j \in settledBefore : Starts(j, plan) /\ \A k \in settledBefore : k <= j
  BY <1>1, <1>2, LastStarts
<1>5. RunsAfter(res, plan, month) <=>
         \E j \in before : Starts(j, plan) /\ \A k \in before : k <= j
  BY <1>1, <1>3, LastStarts
<1> QED BY <1>4, <1>5 DEF settledBefore, before

\* The usages that an event becomes: they are of its resource and month, and of
\* different plans. One that starts a plan is of the plan of the event, one that
\* ends a plan of the plan before.
LEMMA PartsAre ==
    ASSUME TypesInv, ListInv, EventsInv, NEW i \in DOMAIN events
    PROVE  /\ \A x \in PartsOf(i) :
                 /\ x \in Usages /\ x.res = events[i].res /\ x.plan \in Plans
                 /\ x.state \in {"CREATED", "DELETED"}
                 /\ x.time \in {TimeOf(i), TimeOf(i) + 1}
                 /\ MonthOf(x.time) = MonthOfEvent(i)
                 /\ BuildKey(x) = <<events[i].res, x.plan, MonthOfEvent(i)>>
                 /\ BuildKey(x) \in Key
           /\ \A x, y \in PartsOf(i) : x.plan = y.plan \/ x.state = y.state => x = y
           /\ \A plan \in Plans :
                 /\ (\E x \in PartsOf(i) : x.plan = plan /\ x.state = "CREATED")
                    <=> Starts(i, plan)
                 /\ (\E x \in PartsOf(i) : x.plan = plan /\ x.state = "DELETED")
                    <=> Before(i) = plan
           /\ \A x \in PartsOf(i) : x.time = TimeOf(i) + 1 => events[i].kind = "UPDATED"
<1> DEFINE e == events[i]
           u == Usage(i, Before(i), "DELETED", TimeOf(i))
           v == Usage(i, e.plan, "CREATED", TimeOf(i) + 1)
           w == Usage(i, e.plan, e.kind, TimeOf(i))
<1>1. /\ e.res \in Resources /\ e.plan \in Plans
      /\ e.kind \in {"CREATED", "DELETED", "UPDATED"}
      /\ TimeOf(i) \in Nat /\ TimeOf(i) + 1 \in Nat /\ TimeOf(i) # TimeOf(i) + 1
      /\ MonthOf(TimeOf(i)) = MonthOfEvent(i) /\ MonthOf(TimeOf(i) + 1) = MonthOfEvent(i)
      /\ MonthOfEvent(i) \in Months
  BY EventIs DEF MonthOfEvent
<1>2. Before(i) \in Plans \cup {NoDoc} /\ NoDoc \notin Plans
  BY PlanIsOfLast, CarryOverAssumption DEF Before
<1>3. /\ e.kind = "CREATED" => Before(i) = NoDoc
      /\ e.kind = "DELETED" => Before(i) = e.plan
      /\ e.kind = "UPDATED" => Before(i) \notin {NoDoc, e.plan}
  BY DEF EventsInv
<1>4. CASE e.kind = "UPDATED"
  <2>1. Parts(i) = <<u, v>> BY <1>4 DEF Parts
  <2>2. PartsOf(i) = {u, v} BY <2>1 DEF PartsOf
  <2>3. u = [res |-> e.res, plan |-> Before(i), state |-> "DELETED", time |-> TimeOf(i)]
    BY DEF Usage
  <2>4. v = [res |-> e.res, plan |-> e.plan, state |-> "CREATED", time |-> TimeOf(i) + 1]
    BY DEF Usage
  <2> HIDE DEF e, u, v
  <2>5. Before(i) \in Plans /\ Before(i) # e.plan BY <1>2, <1>3, <1>4
  <2>6. u \in Usages /\ v \in Usages BY <1>1, <2>3, <2>4, <2>5 DEF Usages
  <2>7. /\ BuildKey(u) = <<e.res, Before(i), MonthOfEvent(i)>>
        /\ BuildKey(v) = <<e.res, e.plan, MonthOfEvent(i)>>
        /\ BuildKey(u) \in Key /\ BuildKey(v) \in Key
    BY <1>1, <2>3, <2>4, <2>5 DEF BuildKey, Key
  <2> QED BY <1>1, <1>4, <2>2, <2>3, <2>4, <2>5, <2>6, <2>7 DEF Starts, e
<1>5. CASE e.kind # "UPDATED"
  <2>1. Parts(i) = <<w>> BY <1>5 DEF Parts
  <2>2. PartsOf(i) = {w} BY <2>1 DEF PartsOf
  <2>3. w = [res |-> e.res, plan |-> e.plan, state |-> e.kind, time |-> TimeOf(i)]
    BY DEF Usage
  <2> HIDE DEF e, w
  <2>4. w \in Usages BY <1>1, <1>5, <2>3 DEF Usages
  <2>5. BuildKey(w) = <<e.res, e.plan, MonthOfEvent(i)>> /\ BuildKey(w) \in Key
    BY <1>1, <2>3 DEF BuildKey, Key
  <2>6. \A x \in PartsOf(i) : x = w BY <2>2
  <2>7. \A plan \in Plans :
           /\ (\E x \in PartsOf(i) : x.plan = plan /\ x.state = "CREATED") <=> Starts(i, plan)
           /\ (\E x \in PartsOf(i) : x.plan = plan /\ x.state = "DELETED") <=> Before(i) = plan
    BY <1>1, <1>2, <1>3, <1>5, <2>2, <2>3 DEF Starts, e
  <2> QED BY <1>1, <1>5, <2>2, <2>3, <2>4, <2>5, <2>6, <2>7 DEF e
<1> QED BY <1>4, <1>5

\* The place of an event among those of its resource in its tick.
LEMMA NthGrows ==
    ASSUME TypesInv, ListInv, EventsInv, NEW i \in DOMAIN events
    PROVE  /\ Nth(i) \in Nat /\ 1 <= Nth(i) /\ Nth(i) <= PerTick
           /\ \A j \in DOMAIN events :
                 j < i /\ events[j].res = events[i].res /\ events[j].tick = events[i].tick
                 => Nth(j) + 1 <= Nth(i)
<1> DEFINE upto(k) == {j \in Dated(events[k].res) : j <= k /\ events[j].tick = events[k].tick}
<1>1. \A k \in DOMAIN events : /\ IsFiniteSet(upto(k)) /\ Cardinality(upto(k)) \in Nat
                               /\ Nth(k) = Cardinality(upto(k)) /\ k \in upto(k)
  <2> TAKE k \in DOMAIN events
  <2>1. Len(events) \in Nat /\ DOMAIN events = 1 .. Len(events) BY TypesMean
  <2>2. IsFiniteSet(1 .. Len(events)) BY <2>1, FS_Interval
  <2>3. upto(k) \subseteq 1 .. Len(events) BY <2>1 DEF Dated
  <2>4. IsFiniteSet(upto(k)) BY <2>2, <2>3, FS_Subset
  <2>5. k \in upto(k) BY <2>1 DEF Dated
  <2>6. Nth(k) = Cardinality(upto(k)) BY DEF Nth
  <2> HIDE DEF upto
  <2> QED BY <2>4, <2>5, <2>6, FS_CardinalityType
<1>2. ASSUME NEW j \in DOMAIN events, j < i, events[j].res = events[i].res,
             events[j].tick = events[i].tick
      PROVE  Nth(j) + 1 <= Nth(i)
  <2>1. j \in Nat /\ i \in Nat BY EventIs
  <2>2. \A k \in DOMAIN events : k \in Nat BY EventIs
  <2>3. upto(j) \subseteq upto(i) \ {i}
    <3>1. \A k \in DOMAIN events : k <= j => k <= i /\ k # i BY <1>2, <2>1, <2>2
    <3> QED BY <1>2, <3>1 DEF Dated
  <2> HIDE DEF upto
  <2>4. Cardinality(upto(i) \ {i}) = Cardinality(upto(i)) - 1 /\ IsFiniteSet(upto(i) \ {i})
    BY <1>1, FS_RemoveElement
  <2>5. Cardinality(upto(j)) <= Cardinality(upto(i) \ {i}) BY <2>3, <2>4, FS_Subset
  <2>6. Nth(j) \in Nat /\ Nth(i) \in Nat /\ Nth(j) <= Nth(i) - 1 BY <1>1, <2>4, <2>5
  <2> QED BY <2>6
<1>3. 1 <= Nth(i)
  <2> HIDE DEF upto
  <2>1. upto(i) # {} BY <1>1
  <2>2. Cardinality(upto(i)) # 0 BY <1>1, <2>1, FS_EmptySet
  <2>3. \A n \in Nat : n # 0 => 1 <= n OBVIOUS
  <2> QED BY <1>1, <2>2, <2>3
<1>4. Nth(i) \in Nat
  <2> HIDE DEF upto
  <2> QED BY <1>1
<1>5. Nth(i) <= PerTick BY DEF EventsInv
<1> HIDE DEF upto
<1> QED BY <1>2, <1>3, <1>4, <1>5

\* The processed events of a resource are before the next one.
LEMMA TurnIsNext ==
    ASSUME TypesInv, ListInv, NEW res, OrderInv(res), NEW i \in Turn(res)
    PROVE  /\ i \in Dated(res) /\ i \in DOMAIN events /\ i \notin settled /\ events[i].res = res
           /\ \A j \in Turn(res) : j = i
           /\ \A j \in Done(res) : j < i
           /\ \A j \in Dated(res) : j < i <=> j \in Done(res)
<1>1. /\ i \in Dated(res) /\ i \in DOMAIN events /\ i \notin settled /\ events[i].res = res
      /\ \A j \in Dated(res) : j < i => j \in settled
  BY DEF Turn, Dated
<1>2. \A j \in Dated(res) : j \in DOMAIN events /\ j \in Nat
  BY EventIs DEF Dated
<1>3. \A j \in Turn(res) : j = i
  <2> TAKE j \in Turn(res)
  <2>1. j \in Dated(res) /\ j \notin settled /\ \A k \in Dated(res) : k < j => k \in settled
    BY DEF Turn
  <2>2. ~ (j < i) /\ ~ (i < j) BY <1>1, <2>1
  <2> QED BY <1>1, <1>2, <2>1, <2>2
<1>4. \A j \in Done(res) : j < i /\ j \in Dated(res)
  <2> TAKE j \in Done(res)
  <2>1. j \in Dated(res) /\ j \in settled BY DEF Done
  <2>2. ~ (i < j) BY <1>1, <2>1 DEF OrderInv
  <2>3. i # j BY <1>1, <2>1
  <2> QED BY <1>1, <1>2, <2>1, <2>2, <2>3
<1> QED BY <1>1, <1>3, <1>4 DEF Done

\* The times of the usages of an event.
LEMMA PartTimes ==
    ASSUME TypesInv, ListInv, EventsInv, NEW i \in DOMAIN events, NEW x \in PartsOf(i)
    PROVE  /\ x.time \in Nat /\ StartOf(MonthOfEvent(i)) < x.time
           /\ events[i].tick * Gap < x.time /\ events[i].tick * Gap \in Nat
           /\ x.time <= events[i].tick * Gap + 2 * Nth(i)
<1>1. /\ x.time \in {TimeOf(i), TimeOf(i) + 1} /\ TimeOf(i) \in Nat
      /\ TimeOf(i) = events[i].tick * Gap + 1 /\ events[i].tick \in Nat
      /\ StartOf(MonthOfEvent(i)) < TimeOf(i) /\ MonthOfEvent(i) \in Nat
  BY PartsAre, EventIs
<1>2. Nth(i) \in Nat /\ 1 <= Nth(i) BY NthGrows
<1>3. events[i].tick * Gap \in Nat /\ StartOf(MonthOfEvent(i)) \in Nat
  BY <1>1, Lengths, Products, StartOfMonth
<1> DEFINE t == events[i].tick * Gap
           s == StartOf(MonthOfEvent(i))
<1>4. t \in Nat /\ s \in Nat /\ x.time \in {t + 1, (t + 1) + 1} /\ s < t + 1 BY <1>1, <1>3
<1> HIDE DEF t, s
<1>5. x.time \in Nat /\ t < x.time /\ s < x.time /\ x.time <= t + 2 * Nth(i) BY <1>2, <1>4
<1> QED BY <1>3, <1>5 DEF t, s

\* A time that is as close to an event as those of its usages is of its month,
\* and not the start of one.
LEMMA CloseTimes ==
    ASSUME TypesInv, ListInv, EventsInv, NEW i \in DOMAIN events, NEW t \in Nat,
           events[i].tick * Gap < t, t <= events[i].tick * Gap + 2 * Nth(i)
    PROVE  MonthOf(t) = MonthOfEvent(i) /\ \A m \in Nat : t # StartOf(m)
<1>1. events[i].tick \in Nat /\ MonthOfEvent(i) = events[i].tick \div MonthTicks
  BY EventIs
<1>2. Nth(i) \in Nat /\ Nth(i) <= PerTick BY NthGrows
<1> DEFINE n == events[i].tick * Gap
           e == t - n
<1>3. n \in Nat BY <1>1, Lengths, Products
<1>4. n < t /\ t <= n + 2 * Nth(i) OBVIOUS
<1> HIDE DEF n
<1>5. e \in 1 .. Gap - 1 /\ e \in 0 .. Gap - 1 /\ n + e = t
  BY <1>2, <1>3, <1>4, Lengths
<1> HIDE DEF e
<1>6. MonthOf(n + e) = events[i].tick \div MonthTicks BY <1>1, <1>5, MonthOfTime DEF n
<1>7. \A m \in Nat : n + e # StartOf(m) BY <1>1, <1>5, StartOfMonth DEF n
<1> QED BY <1>1, <1>5, <1>6, <1>7

\* What moving a usage does to it.
LEMMA Moves ==
    ASSUME carry \in [Key -> Doc \cup {NoDoc}], NEW x \in Usages, NEW i, NEW a,
           a = AdjustTimestamp(x, i)
    PROVE  LET stored == Stored(BuildKey(x))
           IN  /\ a \in Usages /\ a.res = x.res /\ a.plan = x.plan /\ a.state = x.state
               /\ stored # NoDoc => stored \in Doc
               /\ \/ a = x /\ (stored # NoDoc /\ stored.guid # i => stored.time < x.time)
                  \/ /\ stored # NoDoc /\ stored.guid # i /\ x.time <= stored.time
                     /\ a.time = stored.time + 1
<1> DEFINE stored == Stored(BuildKey(x))
           later == stored.time + 1
<1>1. stored # NoDoc => stored \in Doc BY StoredIsDoc
<1>2. x.time \in Nat /\ a \in Usages BY AdjustedIsUsage DEF Usages
<1>3. CASE stored # NoDoc /\ stored.guid # i /\ stored.time >= x.time
  <2>1. stored.time \in Nat /\ later \in Nat /\ x.time <= stored.time BY <1>1, <1>2, <1>3 DEF Doc
  <2>2. a = [x EXCEPT !.time = later] BY <1>3 DEF AdjustTimestamp
  <2> HIDE DEF later
  <2>3. a.res = x.res /\ a.plan = x.plan /\ a.state = x.state /\ a.time = later
    BY <2>2 DEF Usages
  <2> QED BY <1>1, <1>2, <1>3, <2>1, <2>3 DEF later
<1>4. CASE ~ (stored # NoDoc /\ stored.guid # i /\ stored.time >= x.time)
  <2>1. a = x BY <1>4 DEF AdjustTimestamp
  <2>2. stored # NoDoc => stored.time \in Nat BY <1>1 DEF Doc
  <2>3. \A s \in Nat : ~ (s >= x.time) => s < x.time BY <1>2
  <2> HIDE DEF stored
  <2>4. stored # NoDoc /\ stored.guid # i => stored.time < x.time BY <1>4, <2>2, <2>3
  <2> QED BY <1>1, <1>2, <2>1, <2>4 DEF stored
<1> QED BY <1>3, <1>4

\* What is assumed of the state in the proofs about a resource.
Facts == TypesInv /\ ListInv /\ EventsInv /\ LedgerInv

\* A usage of the next event is moved behind what is stored, and stays in its
\* tick.
LEMMA Moved ==
    ASSUME Facts, NEW res, OrderInv(res), DocsInv(res), NEW i \in Turn(res),
           NEW x \in PartsOf(i), NEW a, a = AdjustTimestamp(x, i)
    PROVE  LET stored == Stored(BuildKey(x))
           IN  /\ a \in Usages /\ a.res = res /\ a.plan = x.plan /\ a.state = x.state
               /\ a.time \in Nat /\ x.time <= a.time
               /\ a.time <= events[i].tick * Gap + 2 * Nth(i)
               /\ MonthOf(a.time) = MonthOfEvent(i) /\ BuildKey(a) = BuildKey(x)
               /\ \A m \in Nat : a.time # StartOf(m)
               /\ stored # NoDoc => stored \in Doc
               /\ stored # NoDoc /\ stored.guid # i => stored.time < a.time
               /\ stored # NoDoc /\ stored.guid = i => a = x
<1> USE DEF Facts
<1> DEFINE stored == Stored(BuildKey(x))
           k == BuildKey(x)
           n == events[i].tick * Gap
<1>1. /\ i \in DOMAIN events /\ i \notin settled /\ events[i].res = res
      /\ \A j \in Turn(res) : j = i
      /\ \A j \in Done(res) : j < i
  BY TurnIsNext
<1>2. /\ x \in Usages /\ x.res = res /\ x.plan \in Plans /\ k \in Key
      /\ k = <<res, x.plan, MonthOfEvent(i)>>
  BY <1>1, PartsAre
<1>3. /\ x.time \in Nat /\ StartOf(MonthOfEvent(i)) < x.time /\ n < x.time /\ n \in Nat
      /\ x.time <= n + 2 * Nth(i) /\ MonthOfEvent(i) \in Nat
      /\ Nth(i) \in Nat /\ Nth(i) <= PerTick /\ events[i].tick \in Nat
  BY <1>1, PartTimes, EventIs, NthGrows
<1>4. carry \in [Key -> Doc \cup {NoDoc}] BY TypesMean DEF CarryOK
<1>5. /\ a \in Usages /\ a.res = x.res /\ a.plan = x.plan /\ a.state = x.state
      /\ stored # NoDoc => stored \in Doc
      /\ \/ a = x /\ (stored # NoDoc /\ stored.guid # i => stored.time < x.time)
         \/ /\ stored # NoDoc /\ stored.guid # i /\ x.time <= stored.time
            /\ a.time = stored.time + 1
  BY <1>2, <1>4, Moves
<1>6. stored = carry[k] BY <1>2 DEF Stored
<1>7. ASSUME stored # NoDoc, stored.guid # i, x.time <= stored.time
      PROVE  stored.time + 1 <= n + 2 * Nth(i)
  <2> DEFINE j == stored.guid
             l == events[j].tick * Gap
  <2>1. stored \in Doc /\ stored.time \in Nat BY <1>5, <1>7 DEF Doc
  <2>2. k[1] = res /\ k[3] = MonthOfEvent(i) BY <1>2
  <2>3. Carried(k) \/ OfEvent(k) BY <1>2, <1>6, <1>7, <2>2 DEF DocsInv
  <2>4. ~ Carried(k)
    <3> SUFFICES ASSUME Carried(k) PROVE FALSE OBVIOUS
    <3>1. stored.time = StartOf(MonthOfEvent(i)) BY <1>6, <2>2 DEF Carried
    <3> QED BY <1>3, <1>7, <2>1, <3>1
  <2>5. j \in Done(res) \cup Turn(res) /\ stored.time <= l + 2 * Nth(j)
    BY <1>6, <2>2, <2>3, <2>4 DEF OfEvent
  <2>6. j \in Done(res) /\ j < i /\ j \in DOMAIN events /\ events[j].res = res
    BY <1>1, <1>7, <2>5 DEF Done, Dated
  <2>7. /\ events[j].tick \in Nat /\ j \in Nat /\ i \in Nat
        /\ Nth(j) \in Nat /\ Nth(j) <= PerTick
    BY <1>1, <2>6, EventIs, NthGrows
  <2>8. l \in Nat BY <2>7, Lengths, Products
  <2> HIDE DEF j, l, n, stored, k
  <2>9. events[j].tick <= events[i].tick
    <3>1. j <= i BY <2>6, <2>7
    <3> QED BY <1>1, <2>6, <3>1, EventsInOrder
  <2>10. CASE events[j].tick = events[i].tick
    <3>1. Nth(j) + 1 <= Nth(i) BY <1>1, <2>6, <2>10, NthGrows
    <3>2. l = n BY <2>10 DEF l, n
    <3> QED BY <1>3, <2>1, <2>5, <2>7, <3>1, <3>2
  <2>11. CASE events[j].tick # events[i].tick
    <3>1. events[j].tick + 1 <= events[i].tick BY <1>3, <2>7, <2>9, <2>11
    <3>2. (events[j].tick + 1) * Gap <= n BY <1>3, <2>7, <3>1, Lengths, Times DEF n
    <3>3. (events[j].tick + 1) * Gap = l + Gap BY <2>7, Lengths, Times DEF l
    <3> QED BY <1>3, <1>7, <2>1, <2>5, <2>7, <2>8, <3>2, <3>3, Lengths
  <2> QED BY <2>10, <2>11
<1> HIDE DEF stored, k, n
<1>8. a.time \in Nat /\ x.time <= a.time /\ a.time <= n + 2 * Nth(i)
  <2>1. CASE a = x BY <1>3, <2>1
  <2>2. CASE /\ stored # NoDoc /\ stored.guid # i /\ x.time <= stored.time
             /\ a.time = stored.time + 1
    <3>1. stored.time \in Nat BY <1>5, <2>2 DEF Doc
    <3> QED BY <1>3, <1>7, <2>2, <3>1
  <2> QED BY <1>5, <2>1, <2>2
<1>9. n < a.time BY <1>3, <1>8
<1>10. MonthOf(a.time) = MonthOfEvent(i) /\ \A m \in Nat : a.time # StartOf(m)
  BY <1>1, <1>8, <1>9, CloseTimes DEF n
<1>11. BuildKey(a) = k BY <1>2, <1>5, <1>10 DEF BuildKey
<1>12. stored # NoDoc /\ stored.guid # i => stored.time < a.time
  <2> SUFFICES ASSUME stored # NoDoc, stored.guid # i PROVE stored.time < a.time
    OBVIOUS
  <2>1. stored.time \in Nat BY <1>5 DEF Doc
  <2> QED BY <1>5, <2>1
<1> QED BY <1>2, <1>5, <1>8, <1>10, <1>11, <1>12 DEF n, stored, k

\* A resource runs under a plan until an event finds that plan.
LEMMA RunsUntilFound ==
    ASSUME Facts, NEW res, OrderInv(res), NEW plan \in Plans, NEW month \in Nat,
           NEW j \in Done(res), MonthOfEvent(j) <= month, Starts(j, plan),
           \A f \in Done(res) : ~ (j < f /\ MonthOfEvent(f) <= month /\ Before(f) = plan)
    PROVE  RunsSettled(res, plan, month)
<1> USE DEF Facts
<1> DEFINE later == {l \in Done(res) : j < l /\ MonthOfEvent(l) <= month}
<1>1. \A l \in Dated(res) : l \in Nat /\ l \in DOMAIN events
  BY EventIs DEF Dated
<1>2. Done(res) \subseteq Dated(res) BY DEF Done
<1>3. later = {}
  <2> SUFFICES ASSUME later # {} PROVE FALSE OBVIOUS
  <2>1. later \in SUBSET Nat BY <1>1, <1>2
  <2>2. PICK f \in later : \A l \in later : f <= l BY <2>1, HasLeast
  <2>3. f \in Done(res) /\ j < f /\ MonthOfEvent(f) <= month /\ f \in Nat /\ j \in Nat
    BY <1>1, <1>2
  <2>4. ASSUME NEW k \in Dated(res), k <= f - 1, ~ (k <= j) PROVE FALSE
    <3>1. k \in Nat /\ k < f /\ j < k /\ k \in DOMAIN events /\ f \in DOMAIN events
      BY <1>1, <1>2, <2>3, <2>4
    <3>2. k \in Done(res) BY <2>3, <3>1 DEF OrderInv, Done
    <3>3. MonthOfEvent(k) <= MonthOfEvent(f) /\ MonthOfEvent(k) \in Nat /\ MonthOfEvent(f) \in Nat
      <4>1. k <= f BY <2>3, <3>1
      <4> QED BY <3>1, <4>1, EventsInOrder, EventIs
    <3>4. MonthOfEvent(k) <= month BY <2>3, <3>3
    <3>5. k \in later BY <3>1, <3>2, <3>4
    <3>6. f <= k BY <2>2, <3>5
    <3> QED BY <2>3, <3>1, <3>6
  <2>5. j \in Dated(res) /\ j <= f - 1 BY <1>2, <2>3
  <2>6. \E l \in Dated(res) : /\ l <= f - 1 /\ Starts(l, plan)
                              /\ \A k \in Dated(res) : k <= f - 1 => k <= l
    BY <2>4, <2>5
  <2>7. events[f].res = res /\ Before(f) = plan
    <3>1. events[f].res = res BY <1>2, <2>3 DEF Dated
    <3>2. PlanAfter(res, f - 1) = plan BY <2>6, PlanIsOfLast
    <3> QED BY <3>1, <3>2 DEF Before
  <2> QED BY <2>3, <2>7
<1>4. ASSUME NEW k \in Done(res), MonthOfEvent(k) <= month PROVE k <= j
  <2>1. k \in Nat /\ j \in Nat BY <1>1, <1>2
  <2>2. k \notin later BY <1>3
  <2>3. ~ (j < k) BY <1>4, <2>2
  <2> QED BY <2>1, <2>3
<1> QED BY <1>4, RunsIsOfLast

\* A document says whether its resource runs, once all events up to its month
\* have been processed.
LEMMA DocSaysRuns ==
    ASSUME Facts, NEW res, ResInv(res), NEW k \in Key, k[1] = res, carry[k] # NoDoc,
           \A i \in Dated(res) \ settled : ~ (MonthOfEvent(i) <= k[3])
    PROVE  /\ carry[k].state = "CREATED" <=> RunsSettled(res, k[2], k[3])
           /\ MonthOfEvent(carry[k].guid) <= k[3]
<1> USE DEF Facts
<1> DEFINE g == carry[k].guid
<1>0. OrderInv(res) /\ DocsInv(res) BY DEF ResInv
<1>1. /\ k = <<res, k[2], k[3]>> /\ k[2] \in Plans /\ k[3] \in Months /\ k[3] \in Nat
      /\ res \in Resources
  BY DEF Key, Months
<1>2. carry[k] \in Doc /\ g \in DOMAIN events /\ carry[k].state \in States /\ g \in Nat
  BY TypesMean, EventIs DEF CarryOK, Doc
<1>3. ASSUME NEW f \in Done(res), MonthOfEvent(f) = k[3],
             Before(f) = k[2] \/ Starts(f, k[2])
      PROVE  f <= g
  <2>1. f \in DOMAIN events /\ events[f].res = res /\ f \in Nat BY EventIs DEF Done, Dated
  <2>2. PICK x \in PartsOf(f) : x.plan = k[2] BY <1>1, <1>3, <2>1, PartsAre
  <2>3. BuildKey(x) = k BY <1>1, <1>3, <2>1, <2>2, PartsAre
  <2>4. Stored(BuildKey(x)).guid >= f BY <1>0 DEF DocsInv
  <2>5. g >= f BY <2>3, <2>4 DEF Stored
  <2> QED BY <1>2, <2>1, <2>5
<1>4. \A f \in Done(res) : f \in DOMAIN events /\ f \in Nat /\ MonthOfEvent(f) \in Nat
  BY EventIs DEF Done, Dated
<1>5. CASE Carried(k)
  <2>1. /\ carry[k].state = "CREATED" /\ carry[k].time = StartOf(k[3])
        /\ MonthOfEvent(g) < k[3]
    BY <1>5 DEF Carried
  <2>2. PICK u \in ledger : u.res = res /\ u.plan = k[2] /\ u.time = StartOf(k[3])
    BY <1>0, <2>1 DEF DocsInv, Reported
  <2>3. MonthOf(u.time) = k[3] BY <1>1, <2>2, StartOfMonth
  <2>4. EntryInv(u) BY <2>2 DEF ResInv
  <2>5. k[3] > 0 /\ RunsSettled(res, k[2], k[3] - 1)
    <3>1. k[3] # 0 /\ RunsSettled(res, k[2], k[3] - 1) BY <2>2, <2>3, <2>4 DEF EntryInv
    <3> QED BY <1>1, <3>1
  <2>6. PICK j \in Done(res) :
           /\ MonthOfEvent(j) <= k[3] - 1 /\ Starts(j, k[2])
           /\ \A l \in Done(res) : MonthOfEvent(l) <= k[3] - 1 => l <= j
    BY <2>5, RunsIsOfLast
  <2>7. MonthOfEvent(j) <= k[3] BY <1>1, <1>4, <2>6
  <2>8. ASSUME NEW f \in Done(res), j < f, MonthOfEvent(f) <= k[3], Before(f) = k[2]
        PROVE  FALSE
    <3>1. MonthOfEvent(f) = k[3]
      <4>1. ~ (MonthOfEvent(f) <= k[3] - 1) BY <1>4, <2>6, <2>8
      <4> QED BY <1>1, <1>4, <2>8, <4>1
    <3>2. f <= g BY <1>3, <2>8, <3>1
    <3>3. g < f
      <4>1. MonthOfEvent(g) < MonthOfEvent(f) BY <2>1, <3>1
      <4> QED BY <1>2, <1>4, <4>1, EventsInOrder
    <3> QED BY <1>2, <1>4, <3>2, <3>3
  <2>9. RunsSettled(res, k[2], k[3])
    BY <1>0, <1>1, <2>6, <2>7, <2>8, RunsUntilFound
  <2>10. MonthOfEvent(g) <= k[3] BY <1>1, <1>2, <2>1, EventIs
  <2> QED BY <2>1, <2>9, <2>10
<1>6. CASE OfEvent(k)
  <2>1. g \in Done(res) \cup Turn(res) BY <1>6 DEF OfEvent
  <2>2. PICK x \in PartsOf(g) : BuildKey(x) = k /\ carry[k].state = x.state
    BY <1>6 DEF OfEvent
  <2>3. /\ x.plan = k[2] /\ MonthOfEvent(g) = k[3] /\ x.state \in {"CREATED", "DELETED"}
        /\ x.plan \in Plans
    BY <1>1, <1>2, <2>2, PartsAre
  <2>4. MonthOfEvent(g) <= k[3] BY <1>1, <2>3
  <2>5. g \in Done(res)
    <3>1. g \notin Turn(res) BY <2>4 DEF Turn
    <3> QED BY <2>1, <3>1
  <2>6. CASE x.state = "CREATED"
    <3>1. Starts(g, k[2]) BY <1>1, <1>2, <2>3, <2>6, PartsAre
    <3>2. ASSUME NEW f \in Done(res), g < f, MonthOfEvent(f) <= k[3], Before(f) = k[2]
          PROVE  FALSE
      <4>1. MonthOfEvent(g) <= MonthOfEvent(f)
        <5>1. g <= f BY <1>2, <1>4, <3>2
        <5> QED BY <1>2, <1>4, <5>1, EventsInOrder
      <4>2. MonthOfEvent(f) = k[3] BY <1>1, <1>4, <2>3, <3>2, <4>1
      <4>3. f <= g BY <1>3, <3>2, <4>2
      <4> QED BY <1>2, <1>4, <3>2, <4>3
    <3>3. RunsSettled(res, k[2], k[3])
      BY <1>0, <1>1, <2>4, <2>5, <3>1, <3>2, RunsUntilFound
    <3> QED BY <2>2, <2>4, <2>6, <3>3
  <2>7. CASE x.state = "DELETED"
    <3>1. ~ Starts(g, k[2])
      <4> SUFFICES ASSUME Starts(g, k[2]) PROVE FALSE OBVIOUS
      <4>1. PICK y \in PartsOf(g) : y.plan = k[2] /\ y.state = "CREATED"
        BY <1>1, <1>2, PartsAre
      <4>2. x = y BY <1>2, <2>3, <4>1, PartsAre
      <4> QED BY <2>7, <4>1, <4>2
    <3>2. ASSUME RunsSettled(res, k[2], k[3]) PROVE FALSE
      <4>1. PICK j \in Done(res) :
               /\ MonthOfEvent(j) <= k[3] /\ Starts(j, k[2])
               /\ \A l \in Done(res) : MonthOfEvent(l) <= k[3] => l <= j
        BY <3>2, RunsIsOfLast
      <4>2. g <= j BY <2>4, <2>5, <4>1
      <4>3. MonthOfEvent(g) <= MonthOfEvent(j) BY <1>2, <1>4, <4>2, EventsInOrder
      <4>4. MonthOfEvent(j) = k[3] BY <1>1, <1>4, <2>3, <4>1, <4>3
      <4>5. j <= g BY <1>3, <4>1, <4>4
      <4>6. j = g BY <1>2, <1>4, <4>2, <4>5
      <4> QED BY <3>1, <4>1, <4>6
    <3> QED BY <2>2, <2>4, <2>7, <3>2
  <2> QED BY <2>3, <2>6, <2>7
<1>7. Carried(k) \/ OfEvent(k) BY <1>0 DEF DocsInv
<1> QED BY <1>5, <1>6, <1>7

-----------------------------------------------------------------------------
(***************************************************************************)
(* Sums.                                                                   *)
(***************************************************************************)
\* A sum of the integers that some usages add is the sum of a function.
LEMMA AddsAreSum ==
    ASSUME NEW S, NEW U, S \subseteq U
    PROVE  MapThenSumSet(LAMBDA u : u.adds, S) = SumFunctionOnSet([u \in U |-> u.adds], S)
<1> DEFINE f == [u \in U |-> u.adds]
           next(g, s) == IF s = {} THEN 0 ELSE Picked(s).adds + g[s \ {Picked(s)}]
           P(g) == g = [s \in SUBSET S |-> next(g, s)]
<1>1. MapThenSumSet(LAMBDA u : u.adds, S) = (CHOOSE g : P(g))[S]
  BY Zenon DEF MapThenSumSet, MapThenFoldSet, Picked
<1>2. \A s \in SUBSET S : s # {} => f[Picked(s)] = Picked(s).adds
  <2> TAKE s \in SUBSET S
  <2> HAVE s # {}
  <2>1. Picked(s) \in s BY PickedLeaves
  <2>2. Picked(s) \in U BY <2>1
  <2> QED BY <2>2
<1> HIDE DEF f
<1>3. ASSUME NEW g PROVE P(g) <=> IsSum(f, S, g)
  <2>1. \A s \in SUBSET S : next(g, s) = IF s = {} THEN 0 ELSE f[Picked(s)] + g[s \ {Picked(s)}]
    BY <1>2
  <2>2. [s \in SUBSET S |-> next(g, s)]
        = [s \in SUBSET S |-> IF s = {} THEN 0 ELSE f[Picked(s)] + g[s \ {Picked(s)}]]
    BY <2>1
  <2> QED BY <2>2, Zenon DEF IsSum
<1>4. (CHOOSE g : P(g)) = (CHOOSE g : IsSum(f, S, g))
  <2> HIDE DEF P
  <2> QED BY <1>3, Zenon
<1>5. SumFunctionOnSet(f, S) = (CHOOSE g : IsSum(f, S, g))[S] BY SumIsChosen
<1> QED BY <1>1, <1>4, <1>5 DEF f

\* What has been accumulated grows by what a new usage adds to it.
LEMMA RunningGrows ==
    ASSUME ledger \subseteq Entry, IsFiniteSet(ledger), NEW e \in Entry, e \notin ledger,
           ledger' = ledger \cup {e}, NEW res, NEW plan, NEW month
    PROVE  /\ Running(res, plan, month) \in Int
           /\ Running(res, plan, month)' =
                 Running(res, plan, month)
                 + (IF e.res = res /\ e.plan = plan /\ MonthOf(e.time) = month
                    THEN e.adds ELSE 0)
<1> DEFINE of(l) == {u \in l : u.res = res /\ u.plan = plan /\ MonthOf(u.time) = month}
           f == [u \in Entry |-> u.adds]
           S == of(ledger)
           T == of(ledger')
<1>1. Running(res, plan, month) = MapThenSumSet(LAMBDA u : u.adds, S)
  BY DEF Running
<1>2. Running(res, plan, month)' = MapThenSumSet(LAMBDA u : u.adds, T)
  BY Zenon DEF Running, MonthOf, MonthLength, MapThenSumSet, MapThenFoldSet
<1>3. S \subseteq Entry /\ T \subseteq Entry /\ IsFiniteSet(S) BY FS_Subset
<1>4. \A u \in Entry : f[u] = u.adds /\ f[u] \in Int BY DEF Entry
<1>5. CASE e.res = res /\ e.plan = plan /\ MonthOf(e.time) = month
  <2>1. T = S \cup {e} /\ T \ {e} = S /\ e \in T BY <1>5
  <2> HIDE DEF S, T, f
  <2>2. IsFiniteSet(T) BY <1>3, <2>1, FS_AddElement
  <2>3. \A u \in T : f[u] \in Int BY <1>3, <1>4
  <2>4. SumFunctionOnSet(f, T) = f[e] + SumFunctionOnSet(f, S) BY <2>1, <2>2, <2>3, SumRemoves
  <2>5. SumFunctionOnSet(f, S) \in Int BY <1>3, <1>4, SumIsInt
  <2>6. /\ MapThenSumSet(LAMBDA u : u.adds, S) = SumFunctionOnSet(f, S)
        /\ MapThenSumSet(LAMBDA u : u.adds, T) = SumFunctionOnSet(f, T)
    BY <1>3, AddsAreSum DEF f
  <2>7. f[e] = e.adds /\ f[e] \in Int BY <1>4
  <2>8. \A a, b \in Int : a + b = b + a OBVIOUS
  <2> QED BY <1>1, <1>2, <1>5, <2>4, <2>5, <2>6, <2>7, <2>8
<1>6. CASE ~ (e.res = res /\ e.plan = plan /\ MonthOf(e.time) = month)
  <2>1. T = S BY <1>6
  <2> HIDE DEF S, T, f
  <2>5. SumFunctionOnSet(f, S) \in Int BY <1>3, <1>4, SumIsInt
  <2>6. MapThenSumSet(LAMBDA u : u.adds, S) = SumFunctionOnSet(f, S) BY <1>3, AddsAreSum DEF f
  <2> QED BY <1>1, <1>2, <1>6, <2>1, <2>5, <2>6
<1> QED BY <1>5, <1>6

\* What has been accumulated of a resource is changed by usages of it alone.
LEMMA RunningStays ==
    ASSUME NEW res, NEW plan, NEW month,
           \A u : u.res = res => (u \in ledger' <=> u \in ledger)
    PROVE  Running(res, plan, month)' = Running(res, plan, month)
<1> DEFINE of(l) == {u \in l : u.res = res /\ u.plan = plan /\ MonthOf(u.time) = month}
<1>1. of(ledger) = of(ledger') OBVIOUS
<1>2. Running(res, plan, month) = MapThenSumSet(LAMBDA u : u.adds, of(ledger))
  BY DEF Running
<1>3. Running(res, plan, month)' = MapThenSumSet(LAMBDA u : u.adds, of(ledger'))
  BY Zenon DEF Running, MonthOf, MonthLength, MapThenSumSet, MapThenFoldSet
<1> QED BY <1>1, <1>2, <1>3

\* Nothing has been accumulated at first.
LEMMA RunningStarts ==
    ASSUME ledger = {}, NEW res, NEW plan, NEW month
    PROVE  Running(res, plan, month) = 0
<1> DEFINE S == {u \in ledger : u.res = res /\ u.plan = plan /\ MonthOf(u.time) = month}
           f == [u \in Entry |-> u.adds]
<1>1. S = {} /\ IsFiniteSet(S) BY FS_EmptySet
<1>2. Running(res, plan, month) = MapThenSumSet(LAMBDA u : u.adds, S)
  BY DEF Running
<1>3. SumFunctionOnSet(f, S) = 0
  <2> HIDE DEF f
  <2> QED BY <1>1, SumSteps
<1>4. MapThenSumSet(LAMBDA u : u.adds, S) = SumFunctionOnSet(f, S) BY <1>1, AddsAreSum
<1> QED BY <1>2, <1>3, <1>4

-----------------------------------------------------------------------------
(***************************************************************************)
(* What a step leaves alone.                                               *)
(***************************************************************************)
\* A step that writes no document of a resource and accumulates none of its usage.
Apart(res) ==
    /\ \A u : u.res = res => (u \in ledger' <=> u \in ledger)
    /\ \A k \in Key : k[1] = res => carry'[k] = carry[k]

\* A step that leaves the events as they are, though others may follow.
EventsKept ==
    \A i \in DOMAIN events : /\ i \in DOMAIN events' /\ events'[i] = events[i]
                             /\ Before(i)' = Before(i) /\ Nth(i)' = Nth(i)

\* What can be told of a resource is the same when nothing of it changes.
LEMMA ApartSame ==
    ASSUME NEW res, Apart(res), carry \in [Key -> Doc \cup {NoDoc}]
    PROVE  /\ \A key : key[1] = res => Stored(key)' = Stored(key)
           /\ \A plan, month : /\ Renewed(res, plan, month)' <=> Renewed(res, plan, month)
                               /\ Running(res, plan, month)' = Running(res, plan, month)
           /\ \A usage : usage.res = res => (Reported(usage)' <=> Reported(usage))
           /\ \A x \in Usages : \A i : x.res = res =>
                 /\ Stored(BuildKey(x))' = Stored(BuildKey(x))
                 /\ AdjustTimestamp(x, i)' = AdjustTimestamp(x, i)
                 /\ Written(x, i)' <=> Written(x, i)
                 /\ Begun(x, i)' <=> Begun(x, i)
<1>1. \A key : key[1] = res => Stored(key)' = Stored(key)
  BY DEF Apart, Stored, Key, Months, MonthOf, MonthLength
<1>2. \A plan, month : Renewed(res, plan, month)' <=> Renewed(res, plan, month)
  BY DEF Apart, Renewed, StartOf, MonthLength
<1>3. \A plan, month : Running(res, plan, month)' = Running(res, plan, month)
  BY RunningStays DEF Apart
<1>4. \A usage : usage.res = res => (Reported(usage)' <=> Reported(usage))
  BY DEF Apart, Reported
<1>5. ASSUME NEW x \in Usages, NEW i, x.res = res
      PROVE  /\ Stored(BuildKey(x))' = Stored(BuildKey(x))
             /\ AdjustTimestamp(x, i)' = AdjustTimestamp(x, i)
             /\ Written(x, i)' <=> Written(x, i)
             /\ Begun(x, i)' <=> Begun(x, i)
  <2>1. BuildKey(x)[1] = res /\ BuildKey(x)' = BuildKey(x)
    BY <1>5 DEF BuildKey, MonthOf, MonthLength
  <2>2. Stored(BuildKey(x))' = Stored(BuildKey(x)) BY <1>1, <2>1
  <2>3. AdjustTimestamp(x, i)' = AdjustTimestamp(x, i) BY <2>2 DEF AdjustTimestamp
  <2>4. Written(x, i)' <=> Written(x, i) BY <2>2 DEF Written
  <2>5. AdjustTimestamp(x, i).res = res BY <1>5, Moves
  <2> DEFINE a == AdjustTimestamp(x, i)
  <2>6. Reported(a)' <=> Reported(a) BY <1>4, <2>3, <2>5
  <2>7. Begun(x, i) <=> Written(x, i) \/ Reported(a) BY DEF Begun
  <2>8. Begun(x, i)' <=> Written(x, i)' \/ Reported(a)' BY DEF Begun
  <2> QED BY <2>2, <2>3, <2>4, <2>6, <2>7, <2>8
<1> QED BY <1>1, <1>2, <1>3, <1>4, <1>5

\* The events that are kept become the same usages.
LEMMA KeptSame ==
    ASSUME EventsKept, NEW i \in DOMAIN events
    PROVE  /\ TimeOf(i)' = TimeOf(i) /\ MonthOfEvent(i)' = MonthOfEvent(i)
           /\ Parts(i)' = Parts(i) /\ PartsOf(i)' = PartsOf(i)
           /\ events'[i] = events[i] /\ Nth(i)' = Nth(i) /\ Before(i)' = Before(i)
           /\ \A plan : Starts(i, plan)' <=> Starts(i, plan)
<1>1. events'[i] = events[i] /\ Before(i)' = Before(i) /\ Nth(i)' = Nth(i) BY DEF EventsKept
<1>2. TimeOf(i)' = TimeOf(i) BY <1>1 DEF TimeOf
<1>3. MonthOfEvent(i)' = MonthOfEvent(i) BY <1>2 DEF MonthOfEvent, MonthOf, MonthLength
<1>4. Parts(i)' = Parts(i) BY <1>1, <1>2 DEF Parts, Usage
<1>5. PartsOf(i)' = PartsOf(i) BY <1>4 DEF PartsOf
<1>6. \A plan : Starts(i, plan)' <=> Starts(i, plan) BY <1>1 DEF Starts
<1> QED BY <1>1, <1>2, <1>3, <1>4, <1>5, <1>6

\* No event changes.
LEMMA AllKept == UNCHANGED events => EventsKept
BY DEF EventsKept, Before, Nth, PlanAfter, Dated

\* What the processed events say is the same when they are.
LEMMA SettledSame ==
    ASSUME TypesInv, EventsKept, NEW res, Done(res)' = Done(res)
    PROVE  \A plan, month : RunsSettled(res, plan, month)' <=> RunsSettled(res, plan, month)
<1> TAKE plan, month
<1> DEFINE before == {i \in Done(res) : MonthOfEvent(i) <= month}
<1>1. Done(res) \subseteq DOMAIN events BY DEF Done, Dated
<1>2. before' = before BY <1>1, KeptSame
<1>3. RunsSettled(res, plan, month) <=>
         (before # {} /\ events[Max(before)].kind # "DELETED" /\ events[Max(before)].plan = plan)
  BY DEF RunsSettled
<1>4. RunsSettled(res, plan, month)' <=>
         (before # {} /\ events'[Max(before)].kind # "DELETED" /\ events'[Max(before)].plan = plan)
  <2>1. RunsSettled(res, plan, month)' <=>
         (before' # {} /\ events'[Max(before')].kind # "DELETED" /\ events'[Max(before')].plan = plan)
    BY DEF RunsSettled, Max
  <2> HIDE DEF before
  <2> QED BY <1>2, <2>1
<1> HIDE DEF before
<1>5. before # {} => events'[Max(before)] = events[Max(before)]
  <2> SUFFICES ASSUME before # {} PROVE Max(before) \in DOMAIN events
    BY KeptSame
  <2>1. Len(events) \in Nat /\ DOMAIN events = 1 .. Len(events) BY TypesMean
  <2>2. before \in SUBSET (1 .. Len(events)) BY <1>1, <2>1 DEF before
  <2>3. Max(before) \in before BY <2>1, <2>2, MaxIsGreatest
  <2> QED BY <2>1, <2>2, <2>3
<1> QED BY <1>3, <1>4, <1>5

\* What is due for the processed events is the same.
LEMMA DueSame ==
    ASSUME TypesInv, EventsKept, NEW res, Apart(res), Done(res)' = Done(res)
    PROVE  \A plan, month : DueSettled(res, plan, month)' = DueSettled(res, plan, month)
<1>1. \A plan, month : RunsSettled(res, plan, month)' <=> RunsSettled(res, plan, month)
  BY SettledSame
<1>2. \A plan, month : Renewed(res, plan, month)' <=> Renewed(res, plan, month)
  BY ApartSame, TypesMean DEF CarryOK
<1> QED BY <1>1, <1>2 DEF DueSettled, One

\* The next event is the same, or there was none and of this one nothing has
\* been reported.
TurnKept(res) ==
    \/ Turn(res)' = Turn(res)
    \/ Turn(res) = {} /\ \A i \in Turn(res)' : \A x \in PartsOf(i)' : ~ Begun(x, i)'

\* What holds of a resource holds after a step that leaves it alone.
LEMMA ResStays ==
    ASSUME Facts, EventsKept, NEW res, Apart(res), Done(res)' = Done(res), TurnKept(res),
           OrderInv(res)', ResInv(res)
    PROVE  ResInv(res)'
<1> USE DEF Facts
<1>1. /\ carry \in [Key -> Doc \cup {NoDoc}]
      /\ \A k \in Key : carry[k] # NoDoc => carry[k].guid \in DOMAIN events
  BY TypesMean DEF CarryOK
<1>2. Done(res) \subseteq DOMAIN events /\ Turn(res) \subseteq DOMAIN events
      /\ \A i \in Done(res) \cup Turn(res) : events[i].res = res
  BY DEF Done, Turn, Dated
<1>3. \A i \in Done(res) \cup Turn(res) : \A x \in PartsOf(i) : x \in Usages /\ x.res = res
  BY <1>2, PartsAre
<1>4. \A i \in DOMAIN events :
         /\ MonthOfEvent(i)' = MonthOfEvent(i) /\ PartsOf(i)' = PartsOf(i)
         /\ events'[i] = events[i] /\ Nth(i)' = Nth(i)
  BY KeptSame
<1>5. \A plan, month, state : HalfDone(res, plan, month, state)' <=> HalfDone(res, plan, month, state)
  <2> TAKE plan, month, state
  <2> DEFINE H(x, i) == x.plan = plan /\ x.state = state /\ MonthOf(x.time) = month
  <2>1. HalfDone(res, plan, month, state) <=>
           \E i \in Turn(res) : \E x \in PartsOf(i) : H(x, i) /\ Begun(x, i)
    BY DEF HalfDone
  <2>2. HalfDone(res, plan, month, state)' <=>
           \E i \in Turn(res)' : \E x \in PartsOf(i)' : H(x, i) /\ Begun(x, i)'
    BY DEF HalfDone, MonthOf, MonthLength
  <2> HIDE DEF H
  <2>3. CASE Turn(res)' = Turn(res)
    <3>1. \A i \in Turn(res) : \A x \in PartsOf(i) :
             PartsOf(i)' = PartsOf(i) /\ (Begun(x, i)' <=> Begun(x, i))
      BY <1>1, <1>2, <1>3, <1>4, ApartSame
    <3> QED BY <1>2, <1>4, <2>1, <2>2, <2>3, <3>1
  <2>4. CASE Turn(res) = {} /\ \A i \in Turn(res)' : \A x \in PartsOf(i)' : ~ Begun(x, i)'
    BY <2>1, <2>2, <2>4
  <2> QED BY <2>3, <2>4 DEF TurnKept
<1>6. SumInv(res)'
  <2>1. \A plan, month : /\ Running(res, plan, month)' = Running(res, plan, month)
                         /\ DueSettled(res, plan, month)' = DueSettled(res, plan, month)
    BY <1>1, ApartSame, DueSame
  <2>2. Months' = Months BY DEF Months, MonthOf, MonthLength
  <2>3. SumInv(res) BY DEF ResInv
  <2> QED BY <1>5, <2>1, <2>2, <2>3 DEF SumInv, One
<1>7. DocsInv(res)'
  <2>1. DocsInv(res) BY DEF ResInv
  <2>2. Key' = Key BY DEF Key, Months, MonthOf, MonthLength
  <2>3. ASSUME NEW k \in Key, k[1] = res, carry'[k] # NoDoc
        PROVE  /\ (Carried(k) \/ OfEvent(k))'
               /\ Reported([res |-> res, plan |-> k[2], time |-> carry[k].time])'
    <3>1. carry'[k] = carry[k] /\ carry[k] # NoDoc /\ carry[k].guid \in DOMAIN events
      BY <1>1, <2>3 DEF Apart
    <3>2. Carried(k) => Carried(k)'
      <4>1. StartOf(k[3])' = StartOf(k[3]) BY DEF StartOf, MonthLength
      <4> QED BY <1>4, <3>1, <4>1 DEF Carried
    <3>3. OfEvent(k) => OfEvent(k)'
      <4> SUFFICES ASSUME OfEvent(k) PROVE OfEvent(k)' OBVIOUS
      <4> DEFINE i == carry[k].guid
      <4>1. /\ i \in Done(res) \cup Turn(res)
            /\ carry[k].time <= events[i].tick * Gap + 2 * Nth(i)
            /\ \E x \in PartsOf(i) : /\ BuildKey(x) = k
                                     /\ carry[k].state = x.state
                                     /\ x.time <= carry[k].time
        BY <2>3 DEF OfEvent
      <4>2. i \in Done(res)' \cup Turn(res)' BY <4>1 DEF TurnKept
      <4>3. PartsOf(i)' = PartsOf(i) /\ events'[i] = events[i] /\ Nth(i)' = Nth(i)
        BY <1>4, <3>1
      <4>4. \A x : BuildKey(x)' = BuildKey(x) BY DEF BuildKey, MonthOf, MonthLength
      <4> QED BY <2>3, <3>1, <4>1, <4>2, <4>3, <4>4 DEF OfEvent
    <3>4. Reported([res |-> res, plan |-> k[2], time |-> carry[k].time]) BY <2>1, <2>3, <3>1 DEF DocsInv
    <3> DEFINE usage == [res |-> res, plan |-> k[2], time |-> carry[k].time]
    <3>5. usage.res = res /\ usage' = usage BY <3>1
    <3>6. Reported(usage)' BY <1>1, <3>4, <3>5, ApartSame
    <3>7. Carried(k) \/ OfEvent(k) BY <2>1, <2>3, <3>1 DEF DocsInv
    <3> QED BY <3>2, <3>3, <3>6, <3>7
  <2>4. ASSUME NEW i \in Done(res)', NEW x \in PartsOf(i)'
        PROVE  (Stored(BuildKey(x)) # NoDoc /\ Stored(BuildKey(x)).guid >= i)'
    <3>1. i \in Done(res) /\ x \in PartsOf(i) BY <1>2, <1>4, <2>4
    <3>2. Stored(BuildKey(x))' = Stored(BuildKey(x)) BY <1>1, <1>3, <3>1, ApartSame
    <3> QED BY <2>1, <3>1, <3>2 DEF DocsInv
  <2> QED BY <2>2, <2>3, <2>4 DEF DocsInv
<1>8. ASSUME NEW u \in ledger', u.res = res PROVE EntryInv(u)'
  <2>1. u \in ledger /\ EntryInv(u) BY <1>8 DEF Apart, ResInv
  <2>3. /\ MonthOf(u.time)' = MonthOf(u.time) /\ StartOf(MonthOf(u.time))' = StartOf(MonthOf(u.time))
        /\ BuildKey(u)' = BuildKey(u) /\ BuildKey(u)[1] = res
    BY <1>8 DEF MonthOf, StartOf, MonthLength, BuildKey
  <2>4. Stored(BuildKey(u))' = Stored(BuildKey(u)) BY <1>1, <2>3, ApartSame
  <2>5. \A month : RunsSettled(res, u.plan, month)' <=> RunsSettled(res, u.plan, month)
    BY SettledSame
  <2>6. ASSUME NEW i \in Turn(res), NEW x \in PartsOf(i), u.plan = x.plan,
               u.time = AdjustTimestamp(x, i).time
        PROVE  (\E j \in Turn(res) : \E y \in PartsOf(j) :
                   u.plan = y.plan /\ u.time = AdjustTimestamp(y, j).time)'
    <3>1. Turn(res)' = Turn(res) BY <2>6 DEF TurnKept
    <3>2. AdjustTimestamp(x, i)' = AdjustTimestamp(x, i) BY <1>1, <1>3, <2>6, ApartSame
    <3>3. PartsOf(i)' = PartsOf(i) BY <1>2, <1>4, <2>6
    <3> QED BY <2>6, <3>1, <3>2, <3>3
  <2>7. CASE u.time = StartOf(MonthOf(u.time)) BY <1>8, <2>1, <2>3, <2>5, <2>7 DEF EntryInv
  <2>8. CASE u.time # StartOf(MonthOf(u.time))
    <3>1. \/ Stored(BuildKey(u)) # NoDoc /\ u.time <= Stored(BuildKey(u)).time
          \/ \E i \in Turn(res) : \E x \in PartsOf(i) :
                u.plan = x.plan /\ u.time = AdjustTimestamp(x, i).time
      BY <1>8, <2>1, <2>8 DEF EntryInv
    <3>2. \/ (Stored(BuildKey(u)) # NoDoc /\ u.time <= Stored(BuildKey(u)).time)'
          \/ (\E i \in Turn(res) : \E x \in PartsOf(i) :
                u.plan = x.plan /\ u.time = AdjustTimestamp(x, i).time)'
      BY <2>4, <2>6, <3>1
    <3> QED BY <1>8, <2>3, <2>8, <3>2 DEF EntryInv
  <2> QED BY <2>7, <2>8
<1> QED BY <1>6, <1>7, <1>8 DEF ResInv

\* A usage that was renewed or is not later than its document.
Placed(u) ==
    \/ u.time = StartOf(MonthOf(u.time))
    \/ Stored(BuildKey(u)) # NoDoc /\ u.time <= Stored(BuildKey(u)).time

\* Nothing of the next event has been reported when all that was accumulated has
\* its document.
LEMMA Fresh ==
    Facts =>
    \A res \in Resources :
       /\ OrderInv(res) /\ DocsInv(res)
       /\ \A k \in Key : k[1] = res /\ carry[k] # NoDoc =>
             carry[k].guid \notin Turn(res) \/ MonthOfEvent(carry[k].guid) < k[3]
       /\ \A u \in ledger : u.res = res => Placed(u)
       => \A i \in Turn(res) : \A x \in PartsOf(i) : ~ Begun(x, i)
<1> SUFFICES ASSUME Facts, NEW res \in Resources, OrderInv(res), DocsInv(res),
                    \A k \in Key : k[1] = res /\ carry[k] # NoDoc =>
                       carry[k].guid \notin Turn(res) \/ MonthOfEvent(carry[k].guid) < k[3],
                    \A u \in ledger : u.res = res => Placed(u),
                    NEW i \in Turn(res), NEW x \in PartsOf(i), Begun(x, i)
             PROVE  FALSE
  OBVIOUS
<1> USE DEF Facts
<1> DEFINE a == AdjustTimestamp(x, i)
           k == BuildKey(x)
<1>1. i \in DOMAIN events /\ events[i].res = res BY TurnIsNext
<1>2. k \in Key /\ k = <<res, x.plan, MonthOfEvent(i)>> /\ MonthOfEvent(i) \in Nat
  BY <1>1, PartsAre, EventIs
<1>3. Stored(k) = carry[k] BY <1>2 DEF Stored
<1>4. carry[k] = NoDoc \/ carry[k].guid # i
  <2> SUFFICES ASSUME carry[k] # NoDoc, carry[k].guid = i PROVE FALSE OBVIOUS
  <2>1. k[1] = res /\ k[3] = MonthOfEvent(i) BY <1>2
  <2>2. MonthOfEvent(i) < MonthOfEvent(i) BY <1>2, <2>1
  <2> QED BY <1>2, <2>2
<1>5. /\ a.res = res /\ a.plan = x.plan /\ a.time \in Nat /\ MonthOf(a.time) = MonthOfEvent(i)
      /\ \A m \in Nat : a.time # StartOf(m)
      /\ carry[k] # NoDoc => carry[k] \in Doc /\ carry[k].time < a.time
  BY <1>3, <1>4, Moved
<1>6. Reported(a) BY <1>3, <1>4 DEF Begun, Written
<1>7. PICK u \in ledger : u.res = res /\ u.plan = x.plan /\ u.time = a.time
  BY <1>5, <1>6 DEF Reported
<1>8. Placed(u) BY <1>7
<1>9. BuildKey(u) = k BY <1>2, <1>5, <1>7 DEF BuildKey
<1>10. carry[k] # NoDoc /\ a.time <= carry[k].time
  BY <1>2, <1>3, <1>5, <1>7, <1>8, <1>9 DEF Placed
<1>11. carry[k].time \in Nat BY <1>5, <1>10 DEF Doc
<1> QED BY <1>5, <1>10, <1>11

\* A resource that is clean after a step was so before.
LEMMA CleanBefore ==
    ASSUME EventsKept, UNCHANGED supported, torn \subseteq torn', stale \subseteq stale',
           ledger \subseteq ledger', NEW res,
           \A i \in Dated(res) : i \in settled' /\ i \notin settled /\ Overtaken(i) =>
              res \in torn' \/ ~ supported[res],
           Clean(res)'
    PROVE  Clean(res)
<1>1. supported[res] /\ res \notin torn \cup stale /\ res \notin torn' BY DEF Clean
<1>2. ~ Late(res)' BY DEF Clean
<1>3. ASSUME Late(res) PROVE FALSE
  <2>1. PICK i \in Dated(res) : i \notin settled /\ Overtaken(i) BY <1>3 DEF Late
  <2>2. i \notin settled' BY <1>1, <2>1
  <2>3. i \in DOMAIN events /\ events[i].res = res BY DEF Dated
  <2>4. i \in Dated(res)' /\ events'[i] = events[i] /\ TimeOf(i)' = TimeOf(i)
    BY <2>3, KeptSame DEF Dated, EventsKept
  <2>5. Overtaken(i)'
    <3>1. PICK plan \in Plans, month \in Months :
             month > MonthOf(TimeOf(i)) /\ Renewed(events[i].res, plan, month)
      BY <2>1 DEF Overtaken
    <3>2. Renewed(events[i].res, plan, month)' BY <2>4, <3>1 DEF Renewed, StartOf, MonthLength
    <3>3. Months' = Months /\ MonthOf(TimeOf(i))' = MonthOf(TimeOf(i))
      BY <2>4 DEF Months, MonthOf, MonthLength
    <3> QED BY <3>1, <3>2, <3>3 DEF Overtaken
  <2> QED BY <1>2, <2>2, <2>4, <2>5 DEF Late
<1> QED BY <1>1, <1>3 DEF Clean

\* The part of the invariant that is about the resources.
AllRes == \A res \in Resources : Clean(res) => ResInv(res)

\* Nothing that the resources are accounted by changes.
LEMMA ResourcesStay ==
    ASSUME Facts, AllRes, UNCHANGED <<events, carry, ledger, supported, settled>>,
           torn \subseteq torn', stale \subseteq stale'
    PROVE  AllRes' /\ \A res : Clean(res)' => Clean(res)
<1>1. EventsKept BY AllKept
<1>2. \A res : Clean(res)' => Clean(res) BY <1>1, CleanBefore
<1>3. ASSUME NEW res \in Resources, Clean(res)' PROVE ResInv(res)'
  <2>1. ResInv(res) BY <1>2, <1>3 DEF AllRes
  <2>2. Apart(res) BY DEF Apart
  <2>3. Done(res)' = Done(res) /\ Turn(res)' = Turn(res) BY DEF Done, Turn, Dated
  <2>4. OrderInv(res)' BY <2>1 DEF ResInv, OrderInv, Done, Dated
  <2> QED BY <1>1, <2>1, <2>2, <2>3, <2>4, ResStays DEF TurnKept
<1> QED BY <1>2, <1>3 DEF AllRes

\* The events do not change.
LEMMA EventsInvStays ==
    ASSUME EventsInv, UNCHANGED events
    PROVE  EventsInv'
BY AllKept DEF EventsInv, EventsKept

-----------------------------------------------------------------------------
(***************************************************************************)
(* The usage that is being processed.                                      *)
(***************************************************************************)
\* An event that is processed has been processed before or is the next one of its
\* resource, if that is clean.
LEMMA InTurn ==
    ASSUME Facts, PollInv, bridge.at \in Processing, NEW i, i = bridge.event,
           NEW res, res = events[i].res, Clean(res)
    PROVE  i \in DOMAIN events /\ res \in Resources /\ i \in Done(res) \cup Turn(res)
<1> USE DEF Facts
<1>1. i \in DOMAIN events /\ i \in Nat /\ res \in Resources BY TypesMean, EventIs
<1>2. 1 .. i - 1 \subseteq settled \cup overlooked BY DEF PollInv, PageInv
<1>3. ASSUME NEW j \in Dated(res), j < i PROVE j \in settled
  <2>1. j \in DOMAIN events /\ events[j].res = res BY DEF Dated
  <2>2. j \in 1 .. i - 1
    <3>1. j \in 1 .. Len(events) /\ Len(events) \in Nat BY <2>1, TypesMean
    <3> QED BY <1>1, <1>3, <3>1
  <2>3. j \notin overlooked BY <2>1 DEF LedgerInv, Clean
  <2> QED BY <1>2, <2>2, <2>3
<1> QED BY <1>1, <1>3 DEF Done, Turn, Dated

\* A document of a usage of an event has its state, and its time or a later one of
\* its tick, and has been reported.
LEMMA WrittenIs ==
    ASSUME Facts, NEW res, DocsInv(res), NEW i \in DOMAIN events, events[i].res = res,
           NEW x \in PartsOf(i), Written(x, i)
    PROVE  LET k == BuildKey(x)
           IN  /\ k \in Key /\ carry[k] \in Doc /\ carry[k] # NoDoc /\ carry[k].guid = i
               /\ Stored(k) = carry[k]
               /\ carry[k].state = x.state /\ x.time <= carry[k].time
               /\ carry[k].time <= events[i].tick * Gap + 2 * Nth(i)
               /\ AdjustTimestamp(x, i) = x
               /\ Reported([res |-> res, plan |-> x.plan, time |-> carry[k].time])
<1> USE DEF Facts
<1> DEFINE k == BuildKey(x)
<1>1. /\ k \in Key /\ k = <<res, x.plan, MonthOfEvent(i)>> /\ MonthOfEvent(i) \in Nat
      /\ x \in Usages
  BY PartsAre, EventIs
<1>2. Stored(k) = carry[k] /\ carry[k] # NoDoc /\ carry[k].guid = i
  BY <1>1 DEF Stored, Written
<1>3. carry[k] \in Doc BY <1>1, <1>2, TypesMean DEF CarryOK
<1>4. k[1] = res /\ k[2] = x.plan /\ k[3] = MonthOfEvent(i) BY <1>1
<1>5. (Carried(k) \/ OfEvent(k)) /\ Reported([res |-> res, plan |-> k[2], time |-> carry[k].time])
  BY <1>1, <1>2, <1>4 DEF DocsInv
<1>6. OfEvent(k)
  <2>1. ~ Carried(k)
    <3> SUFFICES ASSUME Carried(k) PROVE FALSE OBVIOUS
    <3>1. MonthOfEvent(i) < MonthOfEvent(i) BY <1>2, <1>4 DEF Carried
    <3> QED BY <1>1, <3>1
  <2> QED BY <1>5, <2>1
<1>7. /\ carry[k].time <= events[i].tick * Gap + 2 * Nth(i)
      /\ \E y \in PartsOf(i) : BuildKey(y) = k /\ carry[k].state = y.state
                               /\ y.time <= carry[k].time
  BY <1>2, <1>6 DEF OfEvent
<1>8. PICK y \in PartsOf(i) : BuildKey(y) = k /\ carry[k].state = y.state
                              /\ y.time <= carry[k].time
  BY <1>7
<1>9. y = x
  <2>1. BuildKey(y) = <<res, y.plan, MonthOfEvent(i)>> BY PartsAre
  <2>2. y.plan = x.plan BY <1>1, <1>8, <2>1
  <2> QED BY <2>2, PartsAre
<1>10. AdjustTimestamp(x, i) = x BY <1>2 DEF AdjustTimestamp
<1> HIDE DEF k
<1> QED BY <1>1, <1>2, <1>3, <1>4, <1>5, <1>7, <1>8, <1>9, <1>10 DEF k

\* The usage that is reported or written for a resource that is clean: its time
\* and key, and what the database has of it.
UsageOf(i, x, a) ==
    /\ a = AdjustTimestamp(x, i) /\ a \in Usages /\ x \in Usages
    /\ a.res = events[i].res /\ a.plan = x.plan /\ a.state = x.state /\ a.plan \in Plans
    /\ x.res = events[i].res
    /\ a.time \in Nat /\ x.time \in Nat /\ x.time <= a.time
    /\ a.time <= events[i].tick * Gap + 2 * Nth(i)
    /\ MonthOf(a.time) = MonthOfEvent(i) /\ \A m \in Nat : a.time # StartOf(m)
    /\ BuildKey(a) = BuildKey(x) /\ BuildKey(x) \in Key
    /\ BuildKey(x) = <<events[i].res, x.plan, MonthOfEvent(i)>>
    /\ Stored(BuildKey(x)) = carry[BuildKey(x)]
    /\ carry[BuildKey(x)] # NoDoc => carry[BuildKey(x)] \in Doc
    /\ carry[BuildKey(x)] # NoDoc /\ carry[BuildKey(x)].guid # i =>
          carry[BuildKey(x)].time < a.time
    /\ Written(x, i) => /\ a = x /\ carry[BuildKey(x)] = ResourceInfo(a, i)
                        /\ Reported(a)
    /\ i \in settled => Written(x, i)

\* What the bridge reports, gets or puts is a usage of its event, as it was moved.
LEMMA PartIs ==
    ASSUME Facts, PollInv, bridge.at \in {"reporting", "getting", "putting"},
           NEW i, i = bridge.event, NEW res, res = events[i].res, Clean(res), ResInv(res),
           NEW n \in DOMAIN Parts(i), PartInv(i, n), NEW x, x = Parts(i)[n]
    PROVE  x \in PartsOf(i) /\ UsageOf(i, x, Head(bridge.todo))
<1> USE DEF Facts
<1> DEFINE k == BuildKey(x)
           a == Head(bridge.todo)
<1>1. /\ i \in DOMAIN events /\ res \in Resources /\ i \in Done(res) \cup Turn(res)
      /\ OrderInv(res) /\ DocsInv(res)
  BY InTurn DEF ResInv, Processing, Reporting
<1>2. x \in PartsOf(i) BY DEF PartsOf
<1>3. /\ x \in Usages /\ x.res = res /\ x.plan \in Plans /\ k \in Key
      /\ k = <<res, x.plan, MonthOfEvent(i)>> /\ x.state \in {"CREATED", "DELETED"}
  BY <1>1, <1>2, PartsAre
<1>4. /\ a = AdjustTimestamp(x, i)
      /\ Stored(k) # NoDoc => Stored(k).guid <= i /\ (Stored(k).guid = i => Stored(k).time = x.time)
  BY DEF PartInv
<1>5. Stored(k) = carry[k] /\ (carry[k] # NoDoc => carry[k] \in Doc)
  BY <1>3, TypesMean DEF Stored, CarryOK
<1>6. x.time \in Nat /\ events[i].tick * Gap < x.time
      /\ x.time <= events[i].tick * Gap + 2 * Nth(i)
  BY <1>1, <1>2, PartTimes
<1>7. i \in settled => Written(x, i)
  <2> SUFFICES ASSUME i \in settled PROVE Written(x, i) OBVIOUS
  <2>1. i \in Done(res) BY <1>1 DEF Done, Turn
  <2>2. carry[k] # NoDoc /\ carry[k].guid >= i BY <1>1, <1>2, <1>5, <2>1 DEF DocsInv
  <2>3. carry[k].guid \in Nat /\ i \in Nat /\ carry[k].guid <= i
    BY <1>1, <1>4, <1>5, <2>2, EventIs DEF Doc
  <2>4. \A g, h \in Nat : g >= h /\ g <= h => g = h OBVIOUS
  <2>5. carry[k].guid = i BY <2>2, <2>3, <2>4
  <2> QED BY <1>5, <2>2, <2>5 DEF Written
<1>8. CASE Written(x, i)
  <2>1. /\ carry[k] # NoDoc /\ carry[k].guid = i /\ carry[k].state = x.state /\ carry[k] \in Doc
        /\ a = x /\ Reported([res |-> res, plan |-> x.plan, time |-> carry[k].time])
    BY <1>1, <1>2, <1>4, <1>8, WrittenIs
  <2>2. carry[k].time = x.time BY <1>4, <1>5, <2>1
  <2>3. Reported(a) BY <1>3, <2>1, <2>2 DEF Reported
  <2>4. carry[k] = ResourceInfo(a, i)
    BY <2>1, <2>2 DEF ResourceInfo, Doc
  <2>5. MonthOf(a.time) = MonthOfEvent(i) /\ \A m \in Nat : a.time # StartOf(m)
    BY <1>1, <1>6, <2>1, CloseTimes
  <2>6. x.time <= x.time BY <1>6
  <2> HIDE DEF a, k
  <2> QED BY <1>2, <1>3, <1>4, <1>5, <1>6, <1>7, <2>1, <2>3, <2>4, <2>5, <2>6 DEF UsageOf, a, k
<1>9. CASE ~ Written(x, i)
  <2>1. i \in Turn(res) BY <1>1, <1>7, <1>9 DEF Done
  <2>2. /\ a \in Usages /\ a.res = res /\ a.plan = x.plan /\ a.state = x.state
        /\ a.time \in Nat /\ x.time <= a.time
        /\ a.time <= events[i].tick * Gap + 2 * Nth(i)
        /\ MonthOf(a.time) = MonthOfEvent(i) /\ BuildKey(a) = k
        /\ \A m \in Nat : a.time # StartOf(m)
        /\ carry[k] # NoDoc /\ carry[k].guid # i => carry[k].time < a.time
    BY <1>1, <1>2, <1>4, <1>5, <2>1, Moved
  <2> HIDE DEF a, k
  <2> QED BY <1>2, <1>3, <1>4, <1>5, <1>6, <1>7, <1>9, <2>2 DEF UsageOf, a, k
<1> QED BY <1>8, <1>9

\* What is accumulated of a usage: nothing, if it has been, or an entry of it.
EntryOf(usage) == [res |-> usage.res, plan |-> usage.plan, time |-> usage.time,
                   adds |-> Instances(usage)]

\* What is reported is in the ledger from then on, and only entries of its resource
\* are new.
LEMMA Accumulates ==
    ASSUME LedgerInv, NEW usage, usage.res \in Resources, usage.plan \in Plans,
           usage.time \in Nat, Accumulate(usage)
    PROVE  /\ \/ Reported(usage) /\ ledger' = ledger
              \/ /\ ~ Reported(usage) /\ ledger' = ledger \cup {EntryOf(usage)}
                 /\ EntryOf(usage) \notin ledger
           /\ ledger' \subseteq Entry /\ IsFiniteSet(ledger') /\ ledger \subseteq ledger'
           /\ EntryOf(usage) \in Entry /\ Reported(usage)'
           /\ \A u : u.res # usage.res => (u \in ledger' <=> u \in ledger)
<1> DEFINE e == EntryOf(usage)
<1>1. Instances(usage) \in {1, -1} BY DEF Instances
<1>2. e \in Entry /\ e.res = usage.res /\ e.plan = usage.plan /\ e.time = usage.time
  BY <1>1 DEF Entry, EntryOf
<1>3. ledger' = IF Reported(usage) THEN ledger ELSE ledger \cup {e}
  BY DEF Accumulate, Reported, EntryOf
<1>4. e \in ledger => Reported(usage) BY <1>2 DEF Reported
<1> HIDE DEF e
<1>5. ledger \subseteq Entry /\ IsFiniteSet(ledger) BY DEF LedgerInv
<1>6. IsFiniteSet(ledger \cup {e}) BY <1>5, FS_AddElement
<1>7. Reported(usage)' BY <1>2, <1>3 DEF Reported
<1>8. \A u : u.res # usage.res => (u \in ledger' <=> u \in ledger) BY <1>2, <1>3
<1> QED BY <1>2, <1>3, <1>4, <1>5, <1>6, <1>7, <1>8 DEF e

\* A half done event is the next one.
LEMMA HalfDoneIs ==
    ASSUME NEW res, NEW i \in Turn(res), \A j \in Turn(res) : j = i
    PROVE  \A plan, month, state :
              HalfDone(res, plan, month, state) <=>
              \E x \in PartsOf(i) : /\ x.plan = plan /\ x.state = state
                                    /\ MonthOf(x.time) = month /\ Begun(x, i)
BY DEF HalfDone

\* A usage of the next event is accumulated.
LEMMA UsageIsAccumulated ==
    ASSUME Facts, UNCHANGED <<events, settled, carry>>, NEW res \in Resources, ResInv(res),
           NEW i \in Turn(res), NEW x \in PartsOf(i), NEW a, UsageOf(i, x, a),
           ~ Reported(a), ledger' = ledger \cup {EntryOf(a)}, EntryOf(a) \notin ledger
    PROVE  ResInv(res)'
<1> USE DEF Facts
<1> DEFINE e == EntryOf(a)
<1>0. OrderInv(res) /\ DocsInv(res) /\ SumInv(res) BY DEF ResInv
<1>1. /\ i \in DOMAIN events /\ events[i].res = res /\ i \notin settled
      /\ \A j \in Turn(res) : j = i
  BY <1>0, TurnIsNext
<1>2. /\ EventsKept /\ Done(res)' = Done(res) /\ Turn(res)' = Turn(res)
      /\ \A j \in DOMAIN events : /\ MonthOfEvent(j)' = MonthOfEvent(j)
                                  /\ PartsOf(j)' = PartsOf(j) /\ Nth(j)' = Nth(j)
  BY AllKept, KeptSame DEF Done, Turn, Dated
<1>3. OrderInv(res)' BY <1>0, <1>2 DEF OrderInv, Dated
<1>4. /\ a.res = res /\ a.plan = x.plan /\ a.state = x.state /\ a.time \in Nat
      /\ a.plan \in Plans /\ MonthOf(a.time) = MonthOfEvent(i)
      /\ \A m \in Nat : a.time # StartOf(m)
      /\ a = AdjustTimestamp(x, i) /\ x.state \in {"CREATED", "DELETED"}
      /\ MonthOf(x.time) = MonthOfEvent(i) /\ x \in Usages /\ MonthOfEvent(i) \in Nat
  BY <1>1, PartsAre, EventIs DEF UsageOf
<1>5. /\ e.res = res /\ e.plan = x.plan /\ e.time = a.time
      /\ e.adds = IF x.state = "CREATED" THEN 1 ELSE -1
      /\ e \in Entry
  BY <1>4 DEF EntryOf, Instances, Entry
<1>6. ledger' = ledger \cup {e} /\ e \notin ledger OBVIOUS
<1> HIDE DEF e
<1>7. \A usage : Reported(usage)' <=> Reported(usage) \/ (usage.res = res /\ usage.plan = x.plan
                                                           /\ usage.time = a.time)
  BY <1>5, <1>6 DEF Reported
<1>8. \A key : Stored(key)' = Stored(key) BY DEF Stored, Key, Months, MonthOf, MonthLength
<1>9. \A y, j : /\ BuildKey(y)' = BuildKey(y) /\ AdjustTimestamp(y, j)' = AdjustTimestamp(y, j)
                /\ Stored(BuildKey(y))' = Stored(BuildKey(y))
                /\ Written(y, j)' <=> Written(y, j)
  <2> TAKE y, j
  <2>1. BuildKey(y)' = BuildKey(y) BY DEF BuildKey, MonthOf, MonthLength
  <2>2. Stored(BuildKey(y))' = Stored(BuildKey(y)) BY <1>8, <2>1
  <2>3. AdjustTimestamp(y, j)' = AdjustTimestamp(y, j) BY <2>2 DEF AdjustTimestamp
  <2> QED BY <2>1, <2>2, <2>3 DEF Written
<1>10. ~ Begun(x, i) /\ Begun(x, i)'
  <2>1. ~ Written(x, i) BY DEF UsageOf
  <2>2. ~ Begun(x, i) BY <1>4, <2>1 DEF Begun
  <2>3. Reported(a)' BY <1>4, <1>7
  <2>4. AdjustTimestamp(x, i)' = a BY <1>4, <1>9
  <2> QED BY <2>2, <2>3, <2>4 DEF Begun
<1>11. ASSUME NEW y \in PartsOf(i), y # x PROVE Begun(y, i)' <=> Begun(y, i)
  <2>1. y \in Usages /\ y.plan # x.plan BY <1>1, <1>11, PartsAre
  <2> DEFINE b == AdjustTimestamp(y, i)
  <2>2. b.plan = y.plan BY <2>1, Moves, TypesMean DEF CarryOK
  <2>3. b' = b BY <1>9
  <2>4. Reported(b)' <=> Reported(b) BY <1>7, <2>1, <2>2, <2>3
  <2>5. Begun(y, i) <=> Written(y, i) \/ Reported(b) BY DEF Begun
  <2>6. Begun(y, i)' <=> Written(y, i)' \/ Reported(b)' BY DEF Begun
  <2> QED BY <1>9, <2>4, <2>5, <2>6
<1>12. \A plan : \A month \in Nat : Renewed(res, plan, month)' <=> Renewed(res, plan, month)
  BY <1>4, <1>5, <1>6 DEF Renewed, StartOf, MonthLength
<1>13. \A plan, month : RunsSettled(res, plan, month)' <=> RunsSettled(res, plan, month)
  BY <1>2, SettledSame
<1>14. \A plan : \A month \in Nat : DueSettled(res, plan, month)' = DueSettled(res, plan, month)
  BY <1>12, <1>13 DEF DueSettled, One
<1>15. SumInv(res)'
  <2> SUFFICES ASSUME NEW plan \in Plans, NEW month \in Months
               PROVE  Running(res, plan, month)' =
                         DueSettled(res, plan, month)'
                         + One(HalfDone(res, plan, month, "CREATED"))'
                         - One(HalfDone(res, plan, month, "DELETED"))'
    BY DEF SumInv, Months, MonthOf, MonthLength
  <2>1. month \in Nat BY DEF Months
  <2>2. DueSettled(res, plan, month)' = DueSettled(res, plan, month) BY <1>14, <2>1
  <2>3. DueSettled(res, plan, month) \in Int BY DEF DueSettled, One
  <2>4. /\ Running(res, plan, month) \in Int
        /\ Running(res, plan, month)' =
              Running(res, plan, month)
              + (IF x.plan = plan /\ MonthOfEvent(i) = month THEN e.adds ELSE 0)
    BY <1>4, <1>5, <1>6, RunningGrows DEF LedgerInv
  <2>5. Running(res, plan, month) = DueSettled(res, plan, month)
                                    + One(HalfDone(res, plan, month, "CREATED"))
                                    - One(HalfDone(res, plan, month, "DELETED"))
    BY <1>0 DEF SumInv
  <2> DEFINE H(y, state) == y.plan = plan /\ y.state = state /\ MonthOf(y.time) = month
  <2>6. \A state : HalfDone(res, plan, month, state) <=>
                   \E y \in PartsOf(i) : H(y, state) /\ Begun(y, i)
    BY <1>1, HalfDoneIs
  <2>7. \A state : HalfDone(res, plan, month, state)' <=>
                   \E y \in PartsOf(i) : H(y, state) /\ Begun(y, i)'
    BY <1>1, <1>2 DEF HalfDone, MonthOf, MonthLength
  <2>8. \A state : H(x, state) <=> x.plan = plan /\ MonthOfEvent(i) = month /\ x.state = state
    BY <1>4
  <2>9. \A y \in PartsOf(i) : y # x => y.plan # x.plan /\ y.state # x.state BY <1>1, PartsAre
  <2>10. ASSUME NEW state, H(x, state)
         PROVE  ~ HalfDone(res, plan, month, state) /\ HalfDone(res, plan, month, state)'
    <3>1. \A y \in PartsOf(i) : y # x => ~ H(y, state) BY <2>9, <2>10
    <3> HIDE DEF H
    <3> QED BY <1>10, <2>6, <2>7, <2>10, <3>1
  <2>11. ASSUME NEW state, ~ H(x, state)
         PROVE  HalfDone(res, plan, month, state)' <=> HalfDone(res, plan, month, state)
    <3> HIDE DEF H
    <3> QED BY <1>11, <2>6, <2>7, <2>11
  <2> HIDE DEF H
  <2>12. CASE x.plan = plan /\ MonthOfEvent(i) = month
    <3>1. CASE x.state = "CREATED"
      <4>1. ~ HalfDone(res, plan, month, "CREATED") /\ HalfDone(res, plan, month, "CREATED")'
        BY <2>8, <2>10, <2>12, <3>1
      <4>2. HalfDone(res, plan, month, "DELETED")' <=> HalfDone(res, plan, month, "DELETED")
        BY <2>8, <2>11, <3>1
      <4>3. e.adds = 1 BY <1>5, <3>1
      <4> QED BY <2>2, <2>3, <2>4, <2>5, <2>12, <4>1, <4>2, <4>3 DEF One
    <3>2. CASE x.state = "DELETED"
      <4>1. ~ HalfDone(res, plan, month, "DELETED") /\ HalfDone(res, plan, month, "DELETED")'
        BY <2>8, <2>10, <2>12, <3>2
      <4>2. HalfDone(res, plan, month, "CREATED")' <=> HalfDone(res, plan, month, "CREATED")
        BY <2>8, <2>11, <3>2
      <4>3. e.adds = -1 BY <1>5, <3>2
      <4> QED BY <2>2, <2>3, <2>4, <2>5, <2>12, <4>1, <4>2, <4>3 DEF One
    <3> QED BY <1>4, <3>1, <3>2
  <2>13. CASE ~ (x.plan = plan /\ MonthOfEvent(i) = month)
    <3>1. \A state : HalfDone(res, plan, month, state)' <=> HalfDone(res, plan, month, state)
      BY <2>8, <2>11, <2>13
    <3> QED BY <2>2, <2>3, <2>4, <2>5, <2>13, <3>1 DEF One
  <2> QED BY <2>12, <2>13
<1>16. DocsInv(res)'
  <2>1. \A usage : Reported(usage) => Reported(usage)' BY <1>7
  <2>2. Key' = Key BY DEF Key, Months, MonthOf, MonthLength
  <2>3. ASSUME NEW k \in Key, k[1] = res, carry[k] # NoDoc
        PROVE  (Carried(k) \/ OfEvent(k))'
    <3>1. Carried(k) \/ OfEvent(k) BY <1>0, <2>3 DEF DocsInv
    <3>2. carry[k].guid \in DOMAIN events BY <2>3, TypesMean DEF CarryOK
    <3>3. Carried(k) => Carried(k)'
      <4>1. StartOf(k[3])' = StartOf(k[3]) BY DEF StartOf, MonthLength
      <4> QED BY <1>2, <3>2, <4>1 DEF Carried
    <3>4. OfEvent(k) => OfEvent(k)'
      BY <1>2, <1>9, <2>3, <3>2 DEF OfEvent
    <3> QED BY <3>1, <3>3, <3>4
  <2>4. ASSUME NEW j \in Done(res), NEW y \in PartsOf(j)
        PROVE  (Stored(BuildKey(y)) # NoDoc /\ Stored(BuildKey(y)).guid >= j)'
    BY <1>0, <1>9 DEF DocsInv
  <2>5. \A j \in Done(res) : PartsOf(j)' = PartsOf(j) BY <1>2 DEF Done, Dated
  <2>6. \A k \in Key : k[1] = res /\ carry[k] # NoDoc =>
           Reported([res |-> res, plan |-> k[2], time |-> carry[k].time])'
    <3> TAKE k \in Key
    <3> HAVE k[1] = res /\ carry[k] # NoDoc
    <3> DEFINE usage == [res |-> res, plan |-> k[2], time |-> carry[k].time]
    <3>1. Reported(usage) BY <1>0 DEF DocsInv
    <3>2. usage' = usage OBVIOUS
    <3> QED BY <2>1, <3>1, <3>2
  <2> QED BY <1>2, <2>2, <2>3, <2>4, <2>5, <2>6 DEF DocsInv
<1>17. ASSUME NEW u \in ledger', u.res = res PROVE EntryInv(u)'
  <2>1. /\ MonthOf(u.time)' = MonthOf(u.time)
        /\ StartOf(MonthOf(u.time))' = StartOf(MonthOf(u.time))
    BY DEF MonthOf, StartOf, MonthLength
  <2>2. \A j \in Turn(res) : PartsOf(j)' = PartsOf(j) BY <1>1, <1>2
  <2>3. CASE u \in ledger
    <3>1. EntryInv(u) BY <1>17, <2>3 DEF ResInv
    <3> QED BY <1>2, <1>9, <1>13, <1>17, <2>1, <2>2, <3>1 DEF EntryInv
  <2>4. CASE u = e
    <3>1. u.time # StartOf(MonthOf(u.time)) BY <1>4, <1>5, <2>4
    <3>2. u.plan = x.plan /\ u.time = AdjustTimestamp(x, i)'.time BY <1>4, <1>5, <1>9, <2>4
    <3>3. \E j \in Turn(res)' : \E y \in PartsOf(j)' :
             u.plan = y.plan /\ u.time = AdjustTimestamp(y, j)'.time
      BY <1>2, <2>2, <3>2
    <3> QED BY <1>17, <2>1, <3>1, <3>3 DEF EntryInv
  <2> QED BY <1>6, <1>17, <2>3, <2>4
<1> QED BY <1>3, <1>15, <1>16, <1>17 DEF ResInv

\* A document of a usage of the next event is written.
Puts(res, i, x, a) ==
    /\ UNCHANGED <<events, ledger>>
    /\ i \in Turn(res) /\ x \in PartsOf(i) /\ UsageOf(i, x, a) /\ Reported(a)
    /\ carry' = [carry EXCEPT ![BuildKey(x)] = ResourceInfo(a, i)]

\* What that changes.
LEMMA PutChanges ==
    ASSUME Facts, NEW res \in Resources, ResInv(res), NEW i, NEW x, NEW a,
           Puts(res, i, x, a), NEW k, k = BuildKey(x)
    PROVE  /\ k \in Key /\ k = <<res, x.plan, MonthOfEvent(i)>>
           /\ carry'[k] # NoDoc /\ carry'[k] \in Doc
           /\ carry'[k].guid = i /\ carry'[k].state = x.state /\ carry'[k].time = a.time
           /\ Stored(k)' = carry'[k]
           /\ \A key : key # k => Stored(key)' = Stored(key)
           /\ \A key \in Key : key # k => carry'[key] = carry[key]
           /\ \A y : BuildKey(y)' = BuildKey(y)
           /\ Written(x, i)' /\ Begun(x, i) /\ Begun(x, i)'
           /\ \A y \in PartsOf(i) : y # x =>
                 /\ BuildKey(y) # k
                 /\ AdjustTimestamp(y, i)' = AdjustTimestamp(y, i)
                 /\ Written(y, i)' <=> Written(y, i)
                 /\ Begun(y, i)' <=> Begun(y, i)
<1> USE DEF Facts
<1> DEFINE d == ResourceInfo(a, i)
<1>0. OrderInv(res) BY DEF ResInv
<1>1. /\ UNCHANGED <<events, ledger>> /\ i \in Turn(res) /\ x \in PartsOf(i)
      /\ UsageOf(i, x, a) /\ Reported(a) /\ carry' = [carry EXCEPT ![k] = d]
      /\ k = BuildKey(x)
  BY DEF Puts
<1>2. i \in DOMAIN events /\ events[i].res = res /\ i \in Nat BY <1>0, <1>1, TurnIsNext, EventIs
<1>3. /\ k \in Key /\ k = <<res, x.plan, MonthOfEvent(i)>> /\ a.state = x.state
      /\ x.state \in States /\ a.time \in Nat /\ a = AdjustTimestamp(x, i)
  BY <1>1, <1>2, PartsAre DEF UsageOf, States
<1>4. d = [guid |-> i, state |-> x.state, time |-> a.time] BY <1>3 DEF ResourceInfo
<1>5. d \in Doc BY <1>2, <1>3, <1>4 DEF Doc
<1>6. d # NoDoc BY <1>5, CarryOverAssumption DEF Doc, States
<1>7. d.guid = i /\ d.state = x.state /\ d.time = a.time BY <1>4
<1> HIDE DEF d
<1>8. carry \in [Key -> Doc \cup {NoDoc}] BY TypesMean DEF CarryOK
<1>9. carry'[k] = d /\ \A key \in Key : key # k => carry'[key] = carry[key]
  <2> QED BY <1>1, <1>3, <1>8
<1>10. Key' = Key BY DEF Key, Months, MonthOf, MonthLength
<1>11. Stored(k)' = d /\ \A key : key # k => Stored(key)' = Stored(key)
  <2>1. \A key : Stored(key)' = IF key \in Key THEN carry'[key] ELSE NoDoc
    BY <1>10 DEF Stored
  <2>2. \A key : Stored(key) = IF key \in Key THEN carry[key] ELSE NoDoc
    BY DEF Stored
  <2> QED BY <1>3, <1>9, <2>1, <2>2
<1>12. \A y : BuildKey(y)' = BuildKey(y) BY DEF BuildKey, MonthOf, MonthLength
<1>13. Written(x, i)' /\ Begun(x, i)'
  <2>1. Stored(BuildKey(x))' = d BY <1>11, <1>12
  <2>2. Written(x, i)' BY <1>6, <1>7, <2>1 DEF Written
  <2> QED BY <2>2 DEF Begun
<1>14. Begun(x, i) BY <1>1, <1>3 DEF Begun
<1>15. ASSUME NEW y \in PartsOf(i), y # x
       PROVE  /\ BuildKey(y) # k
              /\ AdjustTimestamp(y, i)' = AdjustTimestamp(y, i)
              /\ Written(y, i)' <=> Written(y, i)
              /\ Begun(y, i)' <=> Begun(y, i)
  <2>1. y.plan # x.plan /\ BuildKey(y) = <<res, y.plan, MonthOfEvent(i)>>
    BY <1>1, <1>2, <1>15, PartsAre
  <2>2. BuildKey(y) # k BY <1>3, <2>1
  <2>3. Stored(BuildKey(y))' = Stored(BuildKey(y)) BY <1>11, <1>12, <2>2
  <2>4. AdjustTimestamp(y, i)' = AdjustTimestamp(y, i) BY <2>3 DEF AdjustTimestamp
  <2>5. Written(y, i)' <=> Written(y, i) BY <2>3 DEF Written
  <2>6. \A usage : Reported(usage)' <=> Reported(usage) BY <1>1 DEF Reported
  <2> DEFINE b == AdjustTimestamp(y, i)
  <2>7. Reported(b)' <=> Reported(b) BY <2>4, <2>6
  <2>8. Begun(y, i) <=> Written(y, i) \/ Reported(b) BY DEF Begun
  <2>9. Begun(y, i)' <=> Written(y, i)' \/ Reported(b)' BY DEF Begun
  <2> QED BY <2>2, <2>4, <2>5, <2>7, <2>8, <2>9
<1> QED BY <1>3, <1>5, <1>6, <1>7, <1>9, <1>11, <1>12, <1>13, <1>14, <1>15

\* The documents are still those of their events.
LEMMA PutDocs ==
    ASSUME Facts, NEW res \in Resources, ResInv(res), NEW i, NEW x, NEW a,
           Puts(res, i, x, a),
           Done(res) \cup Turn(res) \subseteq Done(res)' \cup Turn(res)',
           Done(res)' \subseteq Done(res) \cup {i},
           i \in Done(res)' => \A y \in PartsOf(i) : y # x => Written(y, i)
    PROVE  DocsInv(res)'
<1> USE DEF Facts
<1>10. PICK k : k = BuildKey(x) OBVIOUS
<1>0. OrderInv(res) /\ DocsInv(res) BY DEF ResInv
<1>1. /\ UNCHANGED <<events, ledger>> /\ i \in Turn(res) /\ x \in PartsOf(i)
      /\ UsageOf(i, x, a) /\ Reported(a)
  BY DEF Puts
<1>2. /\ i \in DOMAIN events /\ events[i].res = res /\ i \in Nat
      /\ \A j \in Done(res) : j < i
  BY <1>0, <1>1, TurnIsNext, EventIs
<1>3. /\ k \in Key /\ k = <<res, x.plan, MonthOfEvent(i)>>
      /\ carry'[k] # NoDoc /\ carry'[k] \in Doc /\ carry'[k].guid = i
      /\ carry'[k].state = x.state /\ carry'[k].time = a.time
      /\ Stored(k)' = carry'[k]
      /\ \A key : key # k => Stored(key)' = Stored(key)
      /\ \A key \in Key : key # k => carry'[key] = carry[key]
      /\ \A y : BuildKey(y)' = BuildKey(y)
      /\ \A y \in PartsOf(i) : y # x => BuildKey(y) # k
  BY ONLY Facts, res \in Resources, ResInv(res), Puts(res, i, x, a), <1>10, PutChanges
<1>4. \A j \in DOMAIN events : /\ MonthOfEvent(j)' = MonthOfEvent(j)
                               /\ PartsOf(j)' = PartsOf(j) /\ Nth(j)' = Nth(j)
                               /\ events'[j] = events[j]
  BY <1>1, AllKept, KeptSame
<1>5. \A usage : Reported(usage)' <=> Reported(usage) BY <1>1 DEF Reported
<1>6. Key' = Key BY DEF Key, Months, MonthOf, MonthLength
<1>7. a.res = res /\ a.plan = x.plan /\ a.time <= events[i].tick * Gap + 2 * Nth(i)
      /\ x.time <= a.time
  BY <1>1, <1>2 DEF UsageOf
<1>8. ASSUME NEW l \in Key, l[1] = res, carry'[l] # NoDoc
      PROVE  /\ (Carried(l) \/ OfEvent(l))'
             /\ Reported([res |-> res, plan |-> l[2], time |-> carry[l].time])'
  <2>1. CASE l = k
    <3>1. l[2] = x.plan BY <1>3, <2>1
    <3>2. OfEvent(l)'
      <4>1. i \in Done(res)' \cup Turn(res)' BY <1>1
      <4>2. x \in PartsOf(i)' /\ BuildKey(x)' = l BY <1>10, <1>1, <1>2, <1>3, <1>4, <2>1
      <4> QED BY <1>2, <1>3, <1>4, <1>7, <1>8, <2>1, <4>1, <4>2 DEF OfEvent
    <3>3. [res |-> res, plan |-> l[2], time |-> carry[l].time]'
          = [res |-> res, plan |-> x.plan, time |-> a.time]
      <4> QED BY <1>3, <2>1, <3>1
    <3>4. Reported([res |-> res, plan |-> x.plan, time |-> a.time])
      BY <1>1, <1>7 DEF Reported
    <3> DEFINE usage == [res |-> res, plan |-> l[2], time |-> carry[l].time]
    <3>5. Reported(usage') BY <3>3, <3>4
    <3>6. Reported(usage)' BY <3>5, <1>1 DEF Reported
    <3> QED BY <3>2, <3>6
  <2>2. CASE l # k
    <3>1. carry'[l] = carry[l] /\ carry[l] # NoDoc /\ carry[l].guid \in DOMAIN events
      BY <1>3, <1>8, <2>2, TypesMean DEF CarryOK
    <3>2. Carried(l) => Carried(l)'
      <4>1. StartOf(l[3])' = StartOf(l[3]) BY DEF StartOf, MonthLength
      <4> QED BY <1>4, <3>1, <4>1 DEF Carried
    <3>3. OfEvent(l) => OfEvent(l)'
      <4> SUFFICES ASSUME OfEvent(l) PROVE OfEvent(l)' OBVIOUS
      <4> DEFINE j == carry[l].guid
      <4>1. /\ j \in Done(res) \cup Turn(res)
            /\ carry[l].time <= events[j].tick * Gap + 2 * Nth(j)
            /\ \E y \in PartsOf(j) : /\ BuildKey(y) = l /\ carry[l].state = y.state
                                     /\ y.time <= carry[l].time
        BY <1>8 DEF OfEvent
      <4>2. j \in Done(res)' \cup Turn(res)' BY <4>1
      <4> QED BY <1>3, <1>4, <1>8, <3>1, <4>1, <4>2 DEF OfEvent
    <3>4. Carried(l) \/ OfEvent(l) BY <1>0, <1>8, <3>1 DEF DocsInv
    <3> DEFINE usage == [res |-> res, plan |-> l[2], time |-> carry[l].time]
    <3>5. Reported(usage) BY <1>0, <1>8, <3>1 DEF DocsInv
    <3>6. usage' = usage BY <3>1
    <3>7. Reported(usage)' BY <1>5, <3>5, <3>6
    <3> QED BY <3>2, <3>3, <3>4, <3>7
  <2> QED BY <2>1, <2>2
<1>9. ASSUME NEW j \in Done(res)', NEW y \in PartsOf(j)'
      PROVE  (Stored(BuildKey(y)) # NoDoc /\ Stored(BuildKey(y)).guid >= j)'
  <2>1. Stored(BuildKey(y))' = IF BuildKey(y) = k THEN carry'[k] ELSE Stored(BuildKey(y))
    <3> QED BY <1>3
  <2>2. j \in Done(res) \cup {i} /\ j \in DOMAIN events /\ j \in Nat /\ y \in PartsOf(j)
    <3>1. j \in Done(res) \cup {i} OBVIOUS
    <3>2. j \in DOMAIN events BY <1>2, <3>1 DEF Done, Dated
    <3> QED BY <1>4, <1>9, <3>1, <3>2, EventIs
  <2>3. CASE BuildKey(y) = k
    <3>1. i >= j BY <1>2, <2>2
    <3> QED BY <1>3, <2>1, <2>3, <3>1
  <2>4. CASE BuildKey(y) # k
    <3>1. CASE j = i
      <4>1. y # x /\ Written(y, i) BY <1>9, <1>10, <2>2, <2>4, <3>1
      <4>2. Stored(BuildKey(y)) # NoDoc /\ Stored(BuildKey(y)).guid = i BY <4>1 DEF Written
      <4>3. i >= i BY <1>2
      <4> QED BY <2>1, <2>4, <3>1, <4>2, <4>3
    <3>2. CASE j # i
      <4>1. j \in Done(res) BY <2>2, <3>2
      <4>2. Stored(BuildKey(y)) # NoDoc /\ Stored(BuildKey(y)).guid >= j
        BY <1>0, <2>2, <4>1 DEF DocsInv
      <4> QED BY <2>1, <2>4, <4>2
    <3> QED BY <3>1, <3>2
  <2> QED BY <2>3, <2>4
<1> QED BY <1>6, <1>8, <1>9 DEF DocsInv

\* A usage that was accumulated, and not renewed, is not later than its document
\* then, or is that of the other part of the event.
LEMMA PutPlaces ==
    ASSUME Facts, NEW res \in Resources, ResInv(res), NEW i, NEW x, NEW a,
           Puts(res, i, x, a), NEW u \in ledger, u.res = res,
           u.time # StartOf(MonthOf(u.time))
    PROVE  \/ (Stored(BuildKey(u)) # NoDoc /\ u.time <= Stored(BuildKey(u)).time)'
           \/ \E y \in PartsOf(i) :
                 y # x /\ u.plan = y.plan /\ u.time = AdjustTimestamp(y, i).time
<1> USE DEF Facts
<1>0. OrderInv(res) /\ EntryInv(u) /\ Key = Resources \X Plans \X Months
  BY DEF ResInv, Key
<1>1. PICK k : k = BuildKey(x) OBVIOUS
<1>2. /\ UNCHANGED <<events, ledger>> /\ i \in Turn(res) /\ x \in PartsOf(i)
      /\ UsageOf(i, x, a) /\ Reported(a)
  BY DEF Puts
<1>3. i \in DOMAIN events /\ events[i].res = res /\ \A j \in Turn(res) : j = i
  BY <1>0, <1>2, TurnIsNext
<1>4. /\ k \in Key /\ k = <<res, x.plan, MonthOfEvent(i)>>
      /\ carry'[k] # NoDoc /\ carry'[k].time = a.time /\ Stored(k)' = carry'[k]
      /\ \A key : key # k => Stored(key)' = Stored(key)
      /\ \A y : BuildKey(y)' = BuildKey(y)
  BY <1>1, PutChanges
<1>5. /\ a.plan = x.plan /\ a.time \in Nat /\ MonthOf(a.time) = MonthOfEvent(i)
      /\ a = AdjustTimestamp(x, i) /\ Stored(k) = carry[k]
      /\ carry[k] # NoDoc => carry[k] \in Doc
      /\ carry[k] # NoDoc /\ carry[k].guid # i => carry[k].time < a.time
      /\ Written(x, i) => carry[k] = ResourceInfo(a, i)
  BY <1>1, <1>2 DEF UsageOf
<1>6. carry[k] # NoDoc => carry[k].time \in Nat /\ carry[k].time <= a.time
  <2> SUFFICES ASSUME carry[k] # NoDoc PROVE carry[k].time \in Nat /\ carry[k].time <= a.time
    OBVIOUS
  <2>1. carry[k].time \in Nat BY <1>5 DEF Doc
  <2>2. CASE carry[k].guid # i BY <1>5, <2>1, <2>2
  <2>3. CASE carry[k].guid = i
    <3>1. carry[k] = ResourceInfo(a, i) BY <1>1, <1>5, <2>3 DEF Written
    <3>2. carry[k].time = a.time BY <3>1 DEF ResourceInfo
    <3> QED BY <1>5, <2>1, <3>2
  <2> QED BY <2>2, <2>3
<1>7. u.time \in Nat BY DEF LedgerInv, Entry
<1>8. CASE Stored(BuildKey(u)) # NoDoc /\ u.time <= Stored(BuildKey(u)).time
  <2>1. CASE BuildKey(u) = k BY <1>4, <1>5, <1>6, <1>7, <1>8, <2>1
  <2>2. CASE BuildKey(u) # k BY <1>4, <1>8, <2>2
  <2> QED BY <2>1, <2>2
<1>9. CASE \E j \in Turn(res) : \E y \in PartsOf(j) :
              u.plan = y.plan /\ u.time = AdjustTimestamp(y, j).time
  <2>1. PICK y \in PartsOf(i) : u.plan = y.plan /\ u.time = AdjustTimestamp(y, i).time
    BY <1>3, <1>9
  <2>2. CASE y = x
    <3>1. u.time = a.time /\ u.plan = x.plan BY <1>5, <2>1, <2>2
    <3>2. BuildKey(u) = k BY <1>4, <1>5, <3>1 DEF BuildKey
    <3> QED BY <1>4, <1>5, <3>1, <3>2
  <2>3. CASE y # x BY <2>1, <2>3
  <2> QED BY <2>2, <2>3
<1> QED BY <1>0, <1>8, <1>9 DEF EntryInv

\* The document of a usage of the next event is written, which is not yet done.
LEMMA PutInTurn ==
    ASSUME Facts, NEW res \in Resources, ResInv(res), NEW i, NEW x, NEW a,
           Puts(res, i, x, a), UNCHANGED settled
    PROVE  ResInv(res)'
<1> USE DEF Facts
<1>0. OrderInv(res) /\ SumInv(res) BY DEF ResInv
<1>1. PICK k : k = BuildKey(x) OBVIOUS
<1>2. /\ UNCHANGED <<events, ledger>> /\ i \in Turn(res) /\ x \in PartsOf(i)
  BY DEF Puts
<1>3. i \in DOMAIN events /\ events[i].res = res /\ \A j \in Turn(res) : j = i
  BY <1>0, <1>2, TurnIsNext
<1>4. /\ \A y : BuildKey(y)' = BuildKey(y)
      /\ Begun(x, i) /\ Begun(x, i)'
      /\ \A y \in PartsOf(i) : y # x =>
            /\ AdjustTimestamp(y, i)' = AdjustTimestamp(y, i)
            /\ Begun(y, i)' <=> Begun(y, i)
  BY <1>1, PutChanges
<1>5. /\ EventsKept /\ Done(res)' = Done(res) /\ Turn(res)' = Turn(res)
      /\ PartsOf(i)' = PartsOf(i)
  BY <1>2, <1>3, AllKept, KeptSame DEF Done, Turn, Dated
<1>6. OrderInv(res)' BY <1>0, <1>2, <1>5 DEF OrderInv, Dated
<1>7. \A plan, month : RunsSettled(res, plan, month)' <=> RunsSettled(res, plan, month)
  BY <1>5, SettledSame
<1>8. \A plan, month : DueSettled(res, plan, month)' = DueSettled(res, plan, month)
  BY <1>2, <1>7 DEF DueSettled, One, Renewed, StartOf, MonthLength
<1>9. \A plan, month, state : HalfDone(res, plan, month, state)' <=> HalfDone(res, plan, month, state)
  <2> TAKE plan, month, state
  <2> DEFINE H(y) == y.plan = plan /\ y.state = state /\ MonthOf(y.time) = month
  <2>1. HalfDone(res, plan, month, state) <=> \E y \in PartsOf(i) : H(y) /\ Begun(y, i)
    BY <1>2, <1>3, HalfDoneIs
  <2>2. HalfDone(res, plan, month, state)' <=> \E y \in PartsOf(i) : H(y) /\ Begun(y, i)'
    BY <1>2, <1>3, <1>5 DEF HalfDone, MonthOf, MonthLength
  <2> HIDE DEF H
  <2> QED BY <1>4, <2>1, <2>2
<1>10. SumInv(res)'
  <2>1. \A plan, month : Running(res, plan, month)' = Running(res, plan, month)
    BY <1>2, RunningStays
  <2>2. Months' = Months BY DEF Months, MonthOf, MonthLength
  <2> QED BY <1>0, <1>8, <1>9, <2>1, <2>2 DEF SumInv, One
<1>11. DocsInv(res)'
  <2>1. i \notin Done(res)' BY <1>0, <1>2, <1>5, TurnIsNext DEF Done
  <2> QED BY <1>5, <2>1, PutDocs
<1>12. ASSUME NEW u \in ledger', u.res = res PROVE EntryInv(u)'
  <2>1. /\ MonthOf(u.time)' = MonthOf(u.time)
        /\ StartOf(MonthOf(u.time))' = StartOf(MonthOf(u.time))
    BY DEF MonthOf, StartOf, MonthLength
  <2>2. u \in ledger BY <1>2, <1>12
  <2>3. CASE u.time = StartOf(MonthOf(u.time))
    <3>1. EntryInv(u) BY <1>12, <2>2 DEF ResInv
    <3> QED BY <1>7, <1>12, <2>1, <2>3, <3>1 DEF EntryInv
  <2>4. CASE u.time # StartOf(MonthOf(u.time))
    <3>1. \/ (Stored(BuildKey(u)) # NoDoc /\ u.time <= Stored(BuildKey(u)).time)'
          \/ \E y \in PartsOf(i) :
                y # x /\ u.plan = y.plan /\ u.time = AdjustTimestamp(y, i).time
      BY <1>12, <2>2, <2>4, PutPlaces
    <3>2. ASSUME NEW y \in PartsOf(i), y # x, u.plan = y.plan, u.time = AdjustTimestamp(y, i).time
          PROVE  (\E j \in Turn(res) : \E z \in PartsOf(j) :
                     u.plan = z.plan /\ u.time = AdjustTimestamp(z, j).time)'
      <4>1. u.time = AdjustTimestamp(y, i)'.time BY <1>4, <3>2
      <4> QED BY <1>2, <1>5, <3>2, <4>1
    <3> QED BY <1>12, <2>1, <2>4, <3>1, <3>2 DEF EntryInv
  <2> QED BY <2>3, <2>4
<1> QED BY <1>6, <1>10, <1>11, <1>12 DEF ResInv

\* What runs is what the last of the processed events started.
LastRuns(res, plan, month) ==
    RunsSettled(res, plan, month) <=>
       \E j \in Done(res) : /\ MonthOfEvent(j) <= month /\ Starts(j, plan)
                            /\ \A k \in Done(res) : MonthOfEvent(k) <= month => k <= j

\* It is so for every resource, plan and month.
LEMMA AllLastRuns == TypesInv => \A r, p, m : LastRuns(r, p, m)
BY RunsIsOfLast DEF LastRuns

\* After a step too.
LEMMA AllLastRunsThen == (TypesInv => \A r, p, m : LastRuns(r, p, m))'
BY AllLastRuns, PTL

\* The next event is settled: from its month on it decides what runs.
LEMMA RunsMoves ==
    ASSUME Facts, Facts', NEW res \in Resources, OrderInv(res), NEW i \in Turn(res),
           UNCHANGED events, settled' = settled \cup {i}, NEW plan \in Plans, NEW month \in Int
    PROVE  /\ month < MonthOfEvent(i) =>
                 (RunsSettled(res, plan, month)' <=> RunsSettled(res, plan, month))
           /\ month >= MonthOfEvent(i) =>
                 /\ RunsSettled(res, plan, month) <=> Before(i) = plan
                 /\ RunsSettled(res, plan, month)' <=> Starts(i, plan)
<1> USE DEF Facts
<1>1. /\ i \in Dated(res) /\ i \in DOMAIN events /\ events[i].res = res /\ i \in Nat
      /\ \A j \in Done(res) : j < i
      /\ \A j \in Dated(res) : j < i <=> j \in Done(res)
  BY TurnIsNext, EventIs
<1>2. /\ Done(res)' = Done(res) \cup {i} /\ Done(res) \subseteq Dated(res)
      /\ Dated(res) \subseteq DOMAIN events
  BY <1>1 DEF Done, Dated
<1>3. \A j \in DOMAIN events : /\ MonthOfEvent(j)' = MonthOfEvent(j) /\ MonthOfEvent(j) \in Nat
                               /\ Starts(j, plan)' <=> Starts(j, plan)
                               /\ j \in Nat
  BY AllKept, KeptSame, EventIs
<1>4. \A j \in Done(res) : MonthOfEvent(j) <= MonthOfEvent(i) /\ j < i /\ j \in DOMAIN events
  BY <1>1, <1>2, EventsInOrder
<1>5. RunsSettled(res, plan, month) <=>
         \E j \in Done(res) : /\ MonthOfEvent(j) <= month /\ Starts(j, plan)
                              /\ \A k \in Done(res) : MonthOfEvent(k) <= month => k <= j
  BY RunsIsOfLast
<1>6. RunsSettled(res, plan, month)' <=>
         \E j \in Done(res)' : /\ MonthOfEvent(j)' <= month /\ Starts(j, plan)'
                               /\ \A k \in Done(res)' : MonthOfEvent(k)' <= month => k <= j
  <2>1. (TypesInv => \A r, p, m : LastRuns(r, p, m))' BY AllLastRunsThen
  <2> QED BY <2>1 DEF LastRuns
<1>7. RunsSettled(res, plan, month)' <=>
         \E j \in Done(res) \cup {i} :
            /\ MonthOfEvent(j) <= month /\ Starts(j, plan)
            /\ \A k \in Done(res) \cup {i} : MonthOfEvent(k) <= month => k <= j
  BY <1>1, <1>2, <1>3, <1>6
<1>8. CASE month < MonthOfEvent(i)
  <2>1. ~ (MonthOfEvent(i) <= month) BY <1>1, <1>3, <1>8
  <2> QED BY <1>5, <1>7, <1>8, <2>1, <1>3, <1>1
<1>9. CASE month >= MonthOfEvent(i)
  <2>1. \A j \in Done(res) \cup {i} : MonthOfEvent(j) <= month
    <3> TAKE j \in Done(res) \cup {i}
    <3>1. MonthOfEvent(j) \in Nat /\ MonthOfEvent(i) \in Nat /\ MonthOfEvent(j) <= MonthOfEvent(i)
      BY <1>1, <1>3, <1>4
    <3>2. \A p, q \in Nat : p <= q /\ month >= q => p <= month OBVIOUS
    <3> QED BY <1>9, <3>1, <3>2
  <2>2. RunsSettled(res, plan, month)' <=> Starts(i, plan)
    <3>1. ASSUME NEW j \in Done(res) \cup {i},
                 \A k \in Done(res) \cup {i} : k <= j
          PROVE  j = i
      <4>1. i <= j /\ (j # i => j < i) /\ j \in Nat BY <1>1, <1>3, <1>4, <3>1
      <4> QED BY <1>1, <4>1
    <3>2. \A k \in Done(res) \cup {i} : k <= i BY <1>1, <1>3, <1>4
    <3>3. RunsSettled(res, plan, month)' <=>
             \E j \in Done(res) \cup {i} :
                Starts(j, plan) /\ \A k \in Done(res) \cup {i} : k <= j
      BY <1>7, <2>1
    <3> QED BY <3>1, <3>2, <3>3
  <2>3. RunsSettled(res, plan, month) <=>
           \E j \in Done(res) : Starts(j, plan) /\ \A k \in Done(res) : k <= j
    BY <1>5, <2>1
  <2>4. Before(i) = plan <=>
           \E j \in Dated(res) : /\ j <= i - 1 /\ Starts(j, plan)
                                 /\ \A k \in Dated(res) : k <= i - 1 => k <= j
    BY <1>1, PlanIsOfLast DEF Before
  <2>5. \A j \in Dated(res) : j <= i - 1 <=> j \in Done(res)
    <3> TAKE j \in Dated(res)
    <3>1. j \in Nat BY <1>2, <1>3
    <3>2. j <= i - 1 <=> j < i BY <1>1, <3>1
    <3> QED BY <1>1, <3>2
  <2>6. Before(i) = plan <=>
           \E j \in Done(res) : Starts(j, plan) /\ \A k \in Done(res) : k <= j
    BY <1>2, <2>4, <2>5
  <2>7. MonthOfEvent(i) \in Nat BY <1>1, <1>3
  <2>8. ~ (month < MonthOfEvent(i)) BY <1>9, <2>7
  <2> QED BY <1>9, <2>2, <2>3, <2>6, <2>8
<1>10. MonthOfEvent(i) \in Nat BY <1>1, <1>3
<1> QED BY <1>8, <1>9, <1>10

\* What is due moves with it, in its month.
LEMMA DueMoves ==
    ASSUME Facts, Facts', NEW res \in Resources, OrderInv(res), NEW i \in Turn(res),
           UNCHANGED <<events, ledger>>, settled' = settled \cup {i}, ~ Overtaken(i),
           NEW plan \in Plans, NEW month \in Months
    PROVE  DueSettled(res, plan, month)' =
              DueSettled(res, plan, month)
              + One(month = MonthOfEvent(i) /\ Starts(i, plan))
              - One(month = MonthOfEvent(i) /\ Before(i) = plan)
<1> USE DEF Facts
<1>1. i \in DOMAIN events /\ events[i].res = res /\ MonthOfEvent(i) \in Nat /\ month \in Nat
  BY TurnIsNext, EventIs DEF Months
<1> DEFINE M == MonthOfEvent(i)
           R(m) == RunsSettled(res, plan, m)
           N == Renewed(res, plan, month)
<1>2. N' <=> N BY DEF Renewed, StartOf, MonthLength
<1>3. month > M => ~ N BY <1>1 DEF Overtaken, MonthOfEvent
<1>4. DueSettled(res, plan, month) = One(R(month)) - One(month > 0 /\ R(month - 1) /\ ~ N)
  BY DEF DueSettled
<1>5. DueSettled(res, plan, month)' = One(R(month)') - One(month > 0 /\ R(month - 1)' /\ ~ N)
  BY <1>2 DEF DueSettled
<1>6. \A m \in Int : /\ m < M => (R(m)' <=> R(m))
                     /\ m >= M => /\ R(m) <=> Before(i) = plan
                                  /\ R(m)' <=> Starts(i, plan)
  BY RunsMoves
<1> HIDE DEF M, R, N
<1>7. /\ month < M => (R(month)' <=> R(month))
      /\ month >= M => (R(month) <=> Before(i) = plan) /\ (R(month)' <=> Starts(i, plan))
      /\ month - 1 < M => (R(month - 1)' <=> R(month - 1))
      /\ month - 1 >= M => /\ R(month - 1) <=> Before(i) = plan
                           /\ R(month - 1)' <=> Starts(i, plan)
  BY <1>1, <1>6
<1>8. M \in Nat BY <1>1 DEF M
<1>9. CASE month < M
  <2>1. month - 1 < M /\ month # M BY <1>1, <1>8, <1>9
  <2>2. DueSettled(res, plan, month)' = DueSettled(res, plan, month)
    BY <1>4, <1>5, <1>7, <1>9, <2>1 DEF One
  <2>3. DueSettled(res, plan, month) \in Int BY <1>4 DEF One
  <2>4. One(month = M /\ Starts(i, plan)) = 0 /\ One(month = M /\ Before(i) = plan) = 0
    BY <2>1 DEF One
  <2> QED BY <2>2, <2>3, <2>4 DEF M
<1>10. CASE month = M
  <2>1. month - 1 < M /\ month >= M BY <1>1, <1>8, <1>10
  <2>2. R(month - 1)' <=> R(month - 1) BY <1>7, <2>1
  <2>3. (R(month) <=> Before(i) = plan) /\ (R(month)' <=> Starts(i, plan)) BY <1>7, <2>1
  <2> DEFINE c == One(month > 0 /\ R(month - 1) /\ ~ N)
  <2>4. c \in Int BY DEF One
  <2>5. DueSettled(res, plan, month) = One(Before(i) = plan) - c BY <1>4, <2>3 DEF One
  <2>6. DueSettled(res, plan, month)' = One(Starts(i, plan)) - c BY <1>5, <2>2, <2>3 DEF One
  <2>7. One(month = M /\ Starts(i, plan)) = One(Starts(i, plan))
        /\ One(month = M /\ Before(i) = plan) = One(Before(i) = plan)
    BY <1>10 DEF One
  <2>8. One(Before(i) = plan) \in Int /\ One(Starts(i, plan)) \in Int BY DEF One
  <2> HIDE DEF c
  <2> QED BY <2>4, <2>5, <2>6, <2>7, <2>8 DEF M
<1>11. CASE month > M
  <2>1. month - 1 >= M /\ month >= M /\ month # M /\ month > 0 BY <1>1, <1>8, <1>11
  <2>2. ~ N BY <1>3, <1>11 DEF M
  <2>3. DueSettled(res, plan, month) = 0
    BY <1>4, <1>7, <2>1, <2>2 DEF One
  <2>4. DueSettled(res, plan, month)' = 0
    BY <1>5, <1>7, <2>1, <2>2 DEF One
  <2>5. One(month = M /\ Starts(i, plan)) = 0 /\ One(month = M /\ Before(i) = plan) = 0
    BY <2>1 DEF One
  <2> QED BY <2>3, <2>4, <2>5 DEF M
<1> QED BY <1>1, <1>8, <1>9, <1>10, <1>11

\* Nothing of a next event has been reported then.
LEMMA FreshThen == (Facts =>
    \A res \in Resources :
       /\ OrderInv(res) /\ DocsInv(res)
       /\ \A k \in Key : k[1] = res /\ carry[k] # NoDoc =>
             carry[k].guid \notin Turn(res) \/ MonthOfEvent(carry[k].guid) < k[3]
       /\ \A u \in ledger : u.res = res => Placed(u)
       => \A i \in Turn(res) : \A x \in PartsOf(i) : ~ Begun(x, i))'
BY Fresh, PTL

\* The document of the last usage of the next event is written, and it is done.
LEMMA PutSettles ==
    ASSUME Facts, Facts', NEW res \in Resources, ResInv(res), NEW i, NEW x, NEW a,
           Puts(res, i, x, a), settled' = settled \cup {i}, ~ Overtaken(i),
           \A y \in PartsOf(i) : y # x => Written(y, i)
    PROVE  ResInv(res)'
<1> USE DEF Facts
<1>0. OrderInv(res) /\ SumInv(res) /\ DocsInv(res) BY DEF ResInv
<1>1. PICK k : k = BuildKey(x) OBVIOUS
<1>2. /\ UNCHANGED <<events, ledger>> /\ i \in Turn(res) /\ x \in PartsOf(i)
  BY DEF Puts
<1>3. /\ i \in DOMAIN events /\ events[i].res = res /\ \A j \in Turn(res) : j = i
      /\ i \in Dated(res) /\ \A j \in Done(res) : j < i
      /\ \A j \in Dated(res) : j < i <=> j \in Done(res)
  BY <1>0, <1>2, TurnIsNext
<1>4. /\ k \in Key /\ k = <<res, x.plan, MonthOfEvent(i)>>
      /\ carry'[k] # NoDoc /\ carry'[k].guid = i
      /\ \A key : key # k => Stored(key)' = Stored(key)
      /\ \A key \in Key : key # k => carry'[key] = carry[key]
      /\ \A y : BuildKey(y)' = BuildKey(y)
      /\ Begun(x, i)
      /\ \A y \in PartsOf(i) : y # x => BuildKey(y) # k
  BY <1>1, PutChanges
<1>5. Done(res)' = Done(res) \cup {i} /\ i \notin Turn(res)' /\ Turn(res)' \cap settled' = {}
  BY <1>2, <1>3 DEF Done, Turn, Dated
<1>6. OrderInv(res)'
  <2>1. Dated(res)' = Dated(res) /\ Done(res) \subseteq settled BY <1>2 DEF Dated, Done
  <2> QED BY <1>0, <1>3, <1>5, <2>1 DEF OrderInv
<1>7. DocsInv(res)'
  <2>1. Turn(res) \subseteq {i} BY <1>3
  <2> QED BY <1>5, <2>1, PutDocs
<1>8. /\ \A j \in DOMAIN events : MonthOfEvent(j)' = MonthOfEvent(j)
      /\ MonthOfEvent(i) \in Nat
  BY <1>2, <1>3, AllKept, KeptSame, EventIs
<1>9. ASSUME NEW u \in ledger, u.res = res PROVE Placed(u)'
  <2>1. /\ MonthOf(u.time)' = MonthOf(u.time)
        /\ StartOf(MonthOf(u.time))' = StartOf(MonthOf(u.time))
    BY DEF MonthOf, StartOf, MonthLength
  <2>2. CASE u.time = StartOf(MonthOf(u.time)) BY <2>1, <2>2 DEF Placed
  <2>3. CASE u.time # StartOf(MonthOf(u.time))
    <3>1. \/ (Stored(BuildKey(u)) # NoDoc /\ u.time <= Stored(BuildKey(u)).time)'
          \/ \E y \in PartsOf(i) :
                y # x /\ u.plan = y.plan /\ u.time = AdjustTimestamp(y, i).time
      BY <1>9, <2>3, PutPlaces
    <3>2. ASSUME NEW y \in PartsOf(i), y # x, u.plan = y.plan,
                 u.time = AdjustTimestamp(y, i).time
          PROVE  Stored(BuildKey(u))' # NoDoc /\ u.time <= Stored(BuildKey(u))'.time
      <4>1. PICK l : l = BuildKey(y) OBVIOUS
      <4>2. /\ carry[l] # NoDoc /\ Stored(l) = carry[l]
            /\ y.time <= carry[l].time /\ AdjustTimestamp(y, i) = y
        <5>1. Written(y, i) BY <3>2
        <5>2. /\ carry[BuildKey(y)] # NoDoc /\ Stored(BuildKey(y)) = carry[BuildKey(y)]
              /\ y.time <= carry[BuildKey(y)].time /\ AdjustTimestamp(y, i) = y
          <6>1. y \in PartsOf(i) BY <3>2
          <6>2. i \in DOMAIN events /\ events[i].res = res /\ DocsInv(res) BY <1>0, <1>3
          <6>3. AdjustTimestamp(y, i) = y BY <5>1, <6>1, <6>2, WrittenIs
          <6>4. carry[BuildKey(y)] # NoDoc  BY <5>1, <6>1, <6>2, WrittenIs
          <6>5. Stored(BuildKey(y)) = carry[BuildKey(y)]  BY <5>1, <6>1, <6>2, WrittenIs
          <6>6. y.time <= carry[BuildKey(y)].time  BY <5>1, <6>1, <6>2, WrittenIs
          <6> QED BY <6>3, <6>4, <6>5, <6>6
        <5> QED BY <4>1, <5>2
      <4>3. /\ l = <<res, y.plan, MonthOfEvent(i)>> /\ MonthOf(y.time) = MonthOfEvent(i)
        BY <1>3, <4>1, PartsAre
      <4>4. BuildKey(u) = l BY <1>9, <3>2, <4>2, <4>3 DEF BuildKey
      <4>5. Stored(BuildKey(u))' = carry[l] BY <1>4, <3>2, <4>1, <4>2, <4>4
      <4> QED BY <3>2, <4>2, <4>5
    <3>3. Stored(BuildKey(u))' # NoDoc /\ u.time <= Stored(BuildKey(u))'.time
      BY <3>1, <3>2
    <3> QED BY <3>3 DEF Placed
  <2> QED BY <2>2, <2>3
<1>10. ASSUME NEW l \in Key, l[1] = res, carry'[l] # NoDoc
       PROVE  carry'[l].guid \notin Turn(res)' \/ MonthOfEvent(carry[l].guid)' < l[3]
  <2>1. CASE l = k BY <1>4, <1>5, <2>1
  <2>2. CASE l # k
    <3>1. carry'[l] = carry[l] /\ carry[l].guid \in DOMAIN events
      BY <1>4, <1>10, <2>2, TypesMean DEF CarryOK
    <3>2. Carried(l) \/ OfEvent(l) BY <1>0, <1>10, <3>1 DEF DocsInv
    <3>3. CASE Carried(l) BY <1>8, <3>1, <3>3 DEF Carried
    <3>4. CASE OfEvent(l)
      <4>1. carry[l].guid \in Done(res) \cup Turn(res) BY <1>10, <3>4 DEF OfEvent
      <4>2. carry[l].guid \in settled' BY <1>3, <4>1 DEF Done
      <4> QED BY <1>5, <3>1, <4>2
    <3> QED BY <3>2, <3>3, <3>4
  <2> QED BY <2>1, <2>2
<1>11. \A j \in Turn(res)' : \A y \in PartsOf(j)' : ~ Begun(y, j)'
  <2>1. Key' = Key BY DEF Key, Months, MonthOf, MonthLength
  <2>2. \A l \in Key' : l[1] = res /\ carry'[l] # NoDoc =>
           carry'[l].guid \notin Turn(res)' \/ MonthOfEvent(carry[l].guid)' < l[3]
    BY <1>10, <2>1
  <2>3. \A u \in ledger' : u.res = res => Placed(u)' BY <1>2, <1>9
  <2>4. Resources' = Resources OBVIOUS
  <2> QED BY <1>6, <1>7, <2>2, <2>3, FreshThen
<1>12. \A plan, month, state : ~ HalfDone(res, plan, month, state)'
  BY <1>11 DEF HalfDone
<1>13. \A y \in PartsOf(i) : Begun(y, i) BY <1>4 DEF Begun
<1>14. SumInv(res)'
  <2> SUFFICES ASSUME NEW plan \in Plans, NEW month \in Months
               PROVE  Running(res, plan, month)' =
                         DueSettled(res, plan, month)'
                         + One(HalfDone(res, plan, month, "CREATED"))'
                         - One(HalfDone(res, plan, month, "DELETED"))'
    BY DEF SumInv, Months, MonthOf, MonthLength
  <2>1. Running(res, plan, month)' = Running(res, plan, month) BY <1>2, RunningStays
  <2>2. Running(res, plan, month) = DueSettled(res, plan, month)
                                    + One(HalfDone(res, plan, month, "CREATED"))
                                    - One(HalfDone(res, plan, month, "DELETED"))
    BY <1>0 DEF SumInv
  <2>3. DueSettled(res, plan, month)' =
              DueSettled(res, plan, month)
              + One(month = MonthOfEvent(i) /\ Starts(i, plan))
              - One(month = MonthOfEvent(i) /\ Before(i) = plan)
    BY <1>0, <1>2, DueMoves
  <2>4. \A state : HalfDone(res, plan, month, state) <=>
           month = MonthOfEvent(i) /\ \E y \in PartsOf(i) : y.plan = plan /\ y.state = state
    <3>1. \A state : HalfDone(res, plan, month, state) <=>
             \E y \in PartsOf(i) : /\ y.plan = plan /\ y.state = state
                                   /\ MonthOf(y.time) = month /\ Begun(y, i)
      BY <1>2, <1>3, HalfDoneIs
    <3>2. \A y \in PartsOf(i) : MonthOf(y.time) = MonthOfEvent(i) BY <1>3, PartsAre
    <3> QED BY <1>13, <3>1, <3>2
  <2>5. /\ (\E y \in PartsOf(i) : y.plan = plan /\ y.state = "CREATED") <=> Starts(i, plan)
        /\ (\E y \in PartsOf(i) : y.plan = plan /\ y.state = "DELETED") <=> Before(i) = plan
    BY <1>3, PartsAre
  <2>6. /\ One(HalfDone(res, plan, month, "CREATED")) = One(month = MonthOfEvent(i) /\ Starts(i, plan))
        /\ One(HalfDone(res, plan, month, "DELETED")) = One(month = MonthOfEvent(i) /\ Before(i) = plan)
    BY <2>4, <2>5 DEF One
  <2>7. One(HalfDone(res, plan, month, "CREATED"))' = 0
        /\ One(HalfDone(res, plan, month, "DELETED"))' = 0
    BY <1>12 DEF One
  <2>8. /\ One(month = MonthOfEvent(i) /\ Starts(i, plan)) \in Int
        /\ One(month = MonthOfEvent(i) /\ Before(i) = plan) \in Int
        /\ DueSettled(res, plan, month) \in Int
    BY DEF DueSettled, One
  <2> QED BY <2>1, <2>2, <2>3, <2>6, <2>7, <2>8
<1>15. ASSUME NEW u \in ledger', u.res = res PROVE EntryInv(u)'
  <2>1. /\ MonthOf(u.time)' = MonthOf(u.time)
        /\ StartOf(MonthOf(u.time))' = StartOf(MonthOf(u.time))
        /\ Months' = Months
    BY DEF Months, MonthOf, StartOf, MonthLength
  <2>2. u \in ledger /\ u.plan \in Plans BY <1>2, <1>15 DEF LedgerInv, Entry
  <2>3. CASE u.time = StartOf(MonthOf(u.time))
    <3> DEFINE m == MonthOf(u.time)
    <3>1. m \in Months \ {0} /\ RunsSettled(res, u.plan, m - 1)
      BY <1>15, <2>2, <2>3 DEF ResInv, EntryInv
    <3>2. Renewed(res, u.plan, m) BY <1>15, <2>2, <2>3 DEF Renewed
    <3>3. ~ (m > MonthOfEvent(i)) BY <1>3, <2>2, <3>1, <3>2 DEF Overtaken, MonthOfEvent
    <3>4. m \in Nat BY <3>1 DEF Months
    <3> HIDE DEF m
    <3>5. m - 1 < MonthOfEvent(i) /\ m - 1 \in Int BY <1>8, <3>3, <3>4
    <3>6. RunsSettled(res, u.plan, m - 1)' BY <1>0, <1>2, <2>2, <3>1, <3>5, RunsMoves
    <3>7. RunsSettled(res, u.plan, MonthOf(u.time) - 1)' BY <2>1, <3>6 DEF m
    <3> QED BY <1>15, <2>1, <2>3, <3>1, <3>7 DEF EntryInv, m
  <2>4. CASE u.time # StartOf(MonthOf(u.time))
    <3>1. Placed(u)' BY <1>9, <1>15, <2>2
    <3> QED BY <1>15, <2>1, <2>4, <3>1 DEF EntryInv, Placed
  <2> QED BY <2>3, <2>4
<1> QED BY <1>6, <1>7, <1>14, <1>15 DEF ResInv

-----------------------------------------------------------------------------
(***************************************************************************)
(* Steps that change little.                                               *)
(***************************************************************************)
AllInv == TypesInv /\ PollInv /\ DueInv

\* What the invariant is made of.
LEMMA AllMeans ==
    ASSUME AllInv
    PROVE  /\ Facts /\ TypesInv /\ PollInv /\ EventsInv /\ LedgerInv /\ ProcessInv
           /\ CarryingInv /\ AllRes
BY DEF AllInv, DueInv, AllRes, Facts, PollInv

\* The month of a tick.
LEMMA MonthIs ==
    /\ TypesInv => now \in 0 .. Horizon /\ Month = now \div MonthTicks /\ Month \in Nat
    /\ \A m, n \in Nat : m <= n => m \div MonthTicks <= n \div MonthTicks
<1>1. ASSUME TypesInv PROVE now \in 0 .. Horizon /\ Month = now \div MonthTicks /\ Month \in Nat
  <2>1. now \in 0 .. Horizon BY <1>1 DEF TypesInv, TypeOK
  <2> QED BY <2>1, MonthsReached DEF Months
<1>2. \A m, n \in Nat : m <= n => m \div MonthTicks <= n \div MonthTicks
  BY QuotientGrows, Lengths
<1> QED BY <1>1, <1>2

\* After a step too.
LEMMA MonthIsThen ==
    (/\ TypesInv => now \in 0 .. Horizon /\ Month = now \div MonthTicks /\ Month \in Nat
     /\ \A m, n \in Nat : m <= n => m \div MonthTicks <= n \div MonthTicks)'
BY MonthIs, PTL

\* The months only grow.
LEMMA MonthGrows ==
    ASSUME TypesInv, TypesInv', now <= now'
    PROVE  Month \in Nat /\ Month' \in Nat /\ Month <= Month'
<1>1. /\ now \in 0 .. Horizon /\ Month = now \div MonthTicks /\ Month \in Nat
      /\ \A m, n \in Nat : m <= n => m \div MonthTicks <= n \div MonthTicks
  BY MonthIs
<1>2. now' \in 0 .. Horizon /\ Month' = now' \div MonthTicks /\ Month' \in Nat
  BY MonthIsThen
<1>3. now \in Nat /\ now' \in Nat BY <1>1, <1>2, Lengths
<1> QED BY <1>1, <1>2, <1>3

\* What the renewer is doing is right after a step of another.
LEMMA CarryingKept ==
    ASSUME TypesInv, TypesInv', CarryingInv, UNCHANGED <<renewer, supported>>, EventsKept,
           now <= now', ledger \subseteq ledger', \A res : Clean(res)' => Clean(res)
    PROVE  CarryingInv'
<1>1. Month \in Nat /\ Month' \in Nat /\ Month <= Month' BY MonthGrows
<1>2. RenewerInv BY DEF TypesInv
<1>3. /\ \A ref \in renewer.refs : ref \in DocRef
      /\ renewer.at \in {"finding", "inserting"} =>
            renewer.job \in DocRef /\ renewer.job.doc.guid \in DOMAIN events
  BY <1>2 DEF RenewerInv, Renewing
<1>4. \A ref \in DocRef : ref.key[3] < Month => ref.key[3] < Month'
  <2> TAKE ref \in DocRef
  <2>1. ref.key[3] \in Nat BY DEF DocRef, Key, Months
  <2> QED BY <1>1, <2>1
<1>5. ASSUME renewer.at \in {"finding", "inserting"}, Clean(renewer.job.key[1])'
      PROVE  (/\ Renewed(renewer.job.key[1], renewer.job.key[2], renewer.job.key[3] + 1)
              /\ MonthOfEvent(renewer.job.doc.guid) <= renewer.job.key[3])'
  <2>1. Clean(renewer.job.key[1]) BY <1>5
  <2>2. /\ Renewed(renewer.job.key[1], renewer.job.key[2], renewer.job.key[3] + 1)
        /\ MonthOfEvent(renewer.job.doc.guid) <= renewer.job.key[3]
    BY <1>5, <2>1 DEF CarryingInv
  <2>3. MonthOfEvent(renewer.job.doc.guid)' = MonthOfEvent(renewer.job.doc.guid)
    BY <1>3, <1>5, KeptSame
  <2> QED BY <2>2, <2>3 DEF Renewed, StartOf, MonthLength
<1>6. \A ref \in renewer'.refs : ref.doc.state = "CREATED" /\ ref.key[3] < Month'
  BY <1>3, <1>4 DEF CarryingInv
<1>7. renewer.at \in {"finding", "inserting"} =>
         /\ renewer.job.doc.state = "CREATED" /\ renewer.job.key[3] < Month'
         /\ supported'[renewer.job.key[1]]
  BY <1>3, <1>4 DEF CarryingInv
<1> QED BY <1>5, <1>6, <1>7 DEF CarryingInv

\* What the bridge is doing is right after a step of another.
LEMMA ProcessKept ==
    ASSUME Facts, ProcessInv, UNCHANGED <<bridge, supported, carry>>, EventsKept,
           ledger \subseteq ledger', \A res : Clean(res)' => Clean(res)
    PROVE  ProcessInv'
<1> USE DEF Facts
<1> SUFFICES ASSUME bridge.at \in Reporting PROVE ProcessInv' BY DEF ProcessInv
<1> DEFINE i == bridge.event
<1>1. /\ i \in DOMAIN events
      /\ bridge.at \in {"getting", "putting"} => supported[Head(bridge.todo).res]
      /\ \A m \in DOMAIN bridge.todo : bridge.todo[m].res = events[i].res
      /\ Clean(events[i].res) => \E n \in DOMAIN Parts(i) : PartInv(i, n)
  BY TypesMean DEF ProcessInv, Processing
<1>2. Parts(i)' = Parts(i) /\ events'[i] = events[i] BY <1>1, KeptSame
<1>3. \A usage : Reported(usage) => Reported(usage)' BY DEF Reported
<1>4. \A x, j : /\ Stored(BuildKey(x))' = Stored(BuildKey(x))
                /\ AdjustTimestamp(x, j)' = AdjustTimestamp(x, j)
                /\ Written(x, j)' <=> Written(x, j)
  BY DEF Written, AdjustTimestamp, Stored, BuildKey, Key, Months, MonthOf, MonthLength
<1>5. ASSUME NEW n \in DOMAIN Parts(i), PartInv(i, n) PROVE PartInv(i, n)'
  BY <1>2, <1>3, <1>4, <1>5 DEF PartInv
<1>6. Clean(events[i].res)' => \E n \in DOMAIN Parts(i)' : PartInv(i, n)'
  <2>1. Clean(events[i].res)' => Clean(events[i].res) BY <1>2 DEF Clean, Late, Dated
  <2> QED BY <1>1, <1>2, <1>5, <2>1
<1> QED BY <1>1, <1>2, <1>6 DEF ProcessInv

\* Neither accounts nor the documents change, and the bridge is not processing
\* an event.
LEMMA QuietStep ==
    ASSUME AllInv, TypesInv', UNCHANGED <<now, events, carry, ledger, supported, settled,
                                         renewer, stale>>,
           torn \subseteq torn', LedgerInv', bridge'.at \notin Reporting
    PROVE  DueInv'
<1>1. /\ Facts /\ TypesInv /\ EventsInv /\ CarryingInv /\ AllRes BY AllMeans
<1>2. AllRes' /\ \A res : Clean(res)' => Clean(res) BY <1>1, ResourcesStay
<1>3. EventsKept BY AllKept
<1>4. now <= now' BY <1>1, TypesMean
<1>5. CarryingInv' BY <1>1, <1>2, <1>3, <1>4, CarryingKept
<1>6. EventsInv' BY <1>1, EventsInvStays
<1>7. ProcessInv' BY DEF ProcessInv
<1> QED BY <1>2, <1>5, <1>6, <1>7 DEF DueInv, AllRes

\* What was accumulated and the documents stay.
LEMMA LedgerStays ==
    ASSUME LedgerInv, UNCHANGED <<events, carry, ledger, supported>>,
           settled' \cup overlooked' \cup reader'.unlisted \subseteq DOMAIN events,
           torn \subseteq torn', \A j \in overlooked' : j \in overlooked \/ events[j].res \in torn'
    PROVE  LedgerInv'
BY DEF LedgerInv, Entry, Key, Months, MonthOf, MonthLength

\* A poll that is over is not reporting.
LEMMA PollOver ==
    ASSUME EndPoll
    PROVE  bridge'.at \notin Reporting /\ reader'.unlisted = {}
BY DEF EndPoll, Polled, NoReader, Reporting

\* Neither is one that takes an event of its page.
LEMMA ItemMapped ==
    ASSUME bridge \in Poll, NEW from \in PageReader, from.unlisted \subseteq DOMAIN events,
           NEW i, Consume(i, from)
    PROVE  bridge'.at \notin Reporting /\ reader'.unlisted \subseteq DOMAIN events
<1>1. CASE IsOldEnough(i)
  <2>1. bridge'.at = "mapping" BY <1>1 DEF Consume, Poll
  <2>2. reader'.unlisted \subseteq from.unlisted BY <1>1 DEF Consume, PageReader
  <2> QED BY <2>1, <2>2 DEF Reporting
<1>2. CASE ~ IsOldEnough(i) BY <1>2, PollOver DEF Consume
<1> QED BY <1>1, <1>2

\* A page is read.
LEMMA PageDue ==
    ASSUME AllInv, TypesInv', ReadPage, UNCHANGED renewerVars
    PROVE  DueInv'
<1>1. /\ Facts /\ TypesInv /\ LedgerInv /\ bridge \in Poll /\ PollInv BY AllMeans, TypesMean
<1>2. /\ UNCHANGED <<now, events, carry, ledger, supported, settled, renewer, stale, torn, overlooked>>
      /\ AtPage
  BY DEF ReadPage, carryVars, controllerVars, historyVars, renewerVars
<1>3. Reader \in PageReader BY <1>1, <1>2, PageStarts
<1>4. reader'.unlisted \subseteq DOMAIN events /\ bridge'.at \notin Reporting
  <2>1. PICK late \in SUBSET {i \in Asked(Reader.after) : MayBeLate(i)} :
          LET list == Asked(Reader.after) \ late
              page == PageOf(list, Reader.next)
              more == Reader.next * PageSize < Cardinality(list)
              read == [Reader EXCEPT
                          !.page = page,
                          !.unlisted = {j \in late : \E i \in page : j < i},
                          !.next = IF more THEN @ + 1 ELSE 0]
          IN  \/ page = {} /\ EndPoll
              \/ \E i \in page : IsNext(i, page) /\ Consume(i, read)
    BY DEF ReadPage
  <2> DEFINE list == Asked(Reader.after) \ late
             page == PageOf(list, Reader.next)
             unlisted == {j \in late : \E i \in page : j < i}
             next == IF Reader.next * PageSize < Cardinality(list) THEN Reader.next + 1 ELSE 0
             read == [Reader EXCEPT !.page = page, !.unlisted = unlisted, !.next = next]
  <2>2. EndPoll \/ \E i \in page : Consume(i, read) BY <2>1
  <2>3. next \in Nat BY <1>3 DEF PageReader
  <2>4. late \subseteq DOMAIN events /\ DOMAIN events \subseteq Nat
    BY <1>1, TypesMean DEF Asked
  <2>5. unlisted \subseteq DOMAIN events /\ unlisted \subseteq Nat BY <2>4
  <2>6. page \subseteq Nat BY <2>4 DEF PageOf, Asked
  <2> HIDE DEF page, unlisted, next
  <2>7. read \in PageReader /\ read.unlisted = unlisted BY <1>3, <2>3, <2>5, <2>6 DEF PageReader
  <2> HIDE DEF read
  <2> QED BY <1>1, <2>2, <2>5, <2>7, PollOver, ItemMapped
<1>5. LedgerInv' BY <1>1, <1>2, <1>4, LedgerStays DEF LedgerInv
<1> QED BY <1>2, <1>4, <1>5, QuietStep

\* The next event of the page is taken; what is passed with it is remembered.
LEMMA ItemDue ==
    ASSUME AllInv, TypesInv', NextItem, UNCHANGED renewerVars
    PROVE  DueInv'
<1>1. /\ Facts /\ TypesInv /\ LedgerInv /\ bridge \in Poll /\ reader \in PageReader
  BY AllMeans, TypesMean
<1>2. UNCHANGED <<now, events, carry, ledger, supported, settled, renewer, stale>>
  BY DEF NextItem, carryVars, controllerVars, renewerVars
<1>3. PICK i \in reader.page :
        LET passed == {j \in reader.unlisted \ settled : j < i /\ IsOldEnough(i)}
        IN  /\ Consume(i, reader)
            /\ overlooked' = overlooked \cup passed
            /\ torn' = torn \cup {events[j].res : j \in passed}
  BY DEF NextItem
<1> DEFINE passed == {j \in reader.unlisted \ settled : j < i /\ IsOldEnough(i)}
<1>4. /\ Consume(i, reader) /\ overlooked' = overlooked \cup passed
      /\ torn' = torn \cup {events[j].res : j \in passed}
      /\ passed \subseteq reader.unlisted
  BY <1>3
<1> HIDE DEF passed
<1>5. /\ reader.unlisted \subseteq DOMAIN events /\ overlooked \subseteq DOMAIN events
      /\ settled \subseteq DOMAIN events
  BY <1>1 DEF LedgerInv
<1>6. bridge'.at \notin Reporting /\ reader'.unlisted \subseteq DOMAIN events
  BY <1>1, <1>4, <1>5, ItemMapped
<1>7. LedgerInv'
  <2>1. settled' \cup overlooked' \cup reader'.unlisted \subseteq DOMAIN events
    BY <1>2, <1>4, <1>5, <1>6
  <2>2. torn \subseteq torn' /\ \A j \in overlooked' : j \in overlooked \/ events[j].res \in torn'
    BY <1>4
  <2> QED BY <1>1, <1>2, <2>1, <2>2, LedgerStays
<1>8. torn \subseteq torn' BY <1>4
<1> QED BY <1>2, <1>6, <1>7, <1>8, QuietStep

\* A poll ends, or its progress is saved or cleared.
LEMMA PollEndDue ==
    ASSUME AllInv, TypesInv', UNCHANGED renewerVars,
           \/ NoMorePages \/ GuidNotFound \/ PutConflict \/ SaveProgress \/ SaveConflict
           \/ CallFails \/ Restart \/ Purge
    PROVE  DueInv'
<1>1. /\ Facts /\ TypesInv /\ LedgerInv /\ bridge \in Poll BY AllMeans, TypesMean
<1>2. UNCHANGED <<now, events, carry, ledger, supported, settled, renewer, stale, torn,
                  overlooked>>
  BY DEF NoMorePages, GuidNotFound, PutConflict, SaveProgress, SaveConflict, CallFails,
         Restart, Purge, carryVars, controllerVars, historyVars, renewerVars
<1>3. \/ EndPoll
      \/ bridge'.at \notin Reporting /\ (reader' = NoReader \/ UNCHANGED reader)
  <2>1. CASE NoMorePages \/ PutConflict \/ SaveConflict \/ CallFails \/ Restart
    BY <2>1 DEF NoMorePages, PutConflict, SaveConflict, CallFails, Restart
  <2>2. CASE GuidNotFound
    <3>1. bridge' = [bridge EXCEPT !.at = "clearing"] /\ reader' = NoReader
      BY <2>2 DEF GuidNotFound
    <3>2. bridge'.at = "clearing" BY <1>1, <3>1 DEF Poll
    <3> QED BY <3>1, <3>2 DEF Reporting
  <2>3. CASE SaveProgress
    <3>1. \/ EndPoll
          \/ bridge' = [Polled EXCEPT !.at = "reading"] /\ UNCHANGED reader
      BY <2>3 DEF SaveProgress
    <3> QED BY <3>1 DEF Polled, Reporting
  <2>4. CASE Purge BY <2>4 DEF Purge, Reporting
  <2> QED BY <2>1, <2>2, <2>3, <2>4
<1>4. bridge'.at \notin Reporting /\ (reader'.unlisted = {} \/ UNCHANGED reader)
  BY <1>3, PollOver DEF NoReader
<1>5. LedgerInv' BY <1>1, <1>2, <1>4, LedgerStays DEF LedgerInv
<1> QED BY <1>2, <1>4, <1>5, QuietStep

\* A resource that the event of a step is not of is accounted as before.
LEMMA OtherResource ==
    ASSUME Facts, UNCHANGED events, NEW i \in DOMAIN events, settled \subseteq settled',
           settled' \subseteq settled \cup {i}, NEW res, Apart(res),
           res # events[i].res \/ i \in settled, ResInv(res)
    PROVE  ResInv(res)'
<1>1. EventsKept /\ Dated(res)' = Dated(res) BY AllKept DEF Dated
<1>2. \A j \in Dated(res) : j \in settled' <=> j \in settled BY DEF Dated
<1>3. Done(res)' = Done(res) /\ Turn(res)' = Turn(res) BY <1>1, <1>2 DEF Done, Turn
<1>4. OrderInv(res)' BY <1>1, <1>2, <1>3 DEF ResInv, OrderInv
<1> QED BY <1>1, <1>3, <1>4, ResStays DEF TurnKept

\* The parts of an event are its usages, if it is what its resource expects.
LEMMA PartsMapped ==
    ASSUME NEW i, bridge'.at = "adjusting", bridge'.todo = Parts(i), UNCHANGED events
    PROVE  \E n \in DOMAIN Parts(i)' : PartInv(i, n)'
<1>1. Parts(i)' = Parts(i) BY AllKept DEF Parts, Usage, Before, PlanAfter, Dated, TimeOf
<1>2. Parts(i) \in Seq(PartsOf(i)) /\ Len(Parts(i)) \in {1, 2} /\ 1 \in DOMAIN Parts(i)
      /\ Head(Parts(i)) = Parts(i)[1]
  <2>1. CASE events[i].kind = "UPDATED" BY <2>1 DEF Parts, PartsOf
  <2>2. CASE events[i].kind # "UPDATED" BY <2>2 DEF Parts, PartsOf
  <2> QED BY <2>1, <2>2
<1>3. PartInv(i, 1)'
  <2>1. Len(Parts(i)) = Len(Parts(i)) - 1 + 1 BY <1>2
  <2>2. \A m \in 2 .. Len(Parts(i)) : Parts(i)[m] = Parts(i)[1 + m - 1]
    <3> TAKE m \in 2 .. Len(Parts(i))
    <3>1. 1 + m - 1 = m BY <1>2
    <3> QED BY <3>1
  <2>3. \A m \in 1 .. 1 - 1 : FALSE OBVIOUS
  <2> QED BY <1>1, <1>2, <2>1, <2>2, <2>3 DEF PartInv
<1> QED BY <1>1, <1>2, <1>3

\* What is to be shown of an event that is processed.
LEMMA ProcessIs ==
    ASSUME NEW i, NEW res, UNCHANGED events, events[i].res = res, bridge'.event = i,
           \A m \in DOMAIN bridge'.todo : bridge'.todo[m].res = res,
           bridge'.at \in {"getting", "putting"} => supported'[Head(bridge'.todo).res],
           Clean(res)' => \E n \in DOMAIN Parts(i)' : PartInv(i, n)'
    PROVE  ProcessInv'
<1>1. Clean(events[i].res)' => Clean(res)' BY DEF Clean, Late, Dated
<1> QED BY <1>1 DEF ProcessInv

\* An event is mapped to its usages, or skipped.
LEMMA MapDue ==
    ASSUME AllInv, TypesInv', MapEvent, UNCHANGED renewerVars
    PROVE  DueInv'
<1>0. PICK i : i = bridge.event OBVIOUS
<1> DEFINE kind == events[i].kind
           plan == events[i].plan
           send(usages) == bridge' = [bridge EXCEPT !.at = "adjusting", !.todo = usages]
<1>1. /\ Facts /\ TypesInv /\ LedgerInv /\ bridge \in Poll /\ EventsInv /\ AllRes /\ CarryingInv
      /\ i \in DOMAIN events /\ now \in Nat
  BY <1>0, AllMeans, TypesMean DEF MapEvent, Processing
<1>2. /\ UNCHANGED <<now, events, carry, ledger, supported, renewer, stale, overlooked, reader>>
  BY DEF MapEvent, carryVars, controllerVars, renewerVars
<1>3. \/ kind # "UPDATED" /\ send(Parts(i)) /\ UNCHANGED <<settled, torn>>
      \/ /\ kind = "UPDATED" /\ UNCHANGED settled
         /\ \E before \in Preceding(events[i].res) :
               /\ send(<<Usage(i, before, "DELETED", TimeOf(i)),
                         Usage(i, plan, "CREATED", TimeOf(i) + 1)>>)
               /\ torn' = IF before = Before(i) THEN torn ELSE torn \cup {events[i].res}
      \/ /\ settled' = settled \cup {i} /\ torn' = torn \cup {events[i].res}
         /\ bridge'.at = "saving"
  BY <1>0 DEF MapEvent, ToSaving, Polled, Parts, Before
<1>4. torn \subseteq torn' /\ settled \subseteq settled' /\ settled' \subseteq settled \cup {i}
  BY <1>3
<1>5. LedgerInv'
  <2>1. settled' \cup overlooked' \cup reader'.unlisted \subseteq DOMAIN events
    BY <1>1, <1>2, <1>4 DEF LedgerInv
  <2> QED BY <1>1, <1>2, <1>4, <2>1, LedgerStays
<1>6. EventsKept /\ EventsInv' BY <1>1, <1>2, AllKept, EventsInvStays
<1>7. ASSUME NEW res, Clean(res)' PROVE Clean(res)
  <2>1. \A j \in Dated(res) : j \in settled' /\ j \notin settled /\ Overtaken(j) => res \in torn'
    <3> TAKE j \in Dated(res)
    <3> HAVE j \in settled' /\ j \notin settled /\ Overtaken(j)
    <3>1. j = i /\ ~ UNCHANGED settled BY <1>4
    <3>2. events[i].res = res BY <3>1 DEF Dated
    <3> QED BY <1>3, <3>1, <3>2
  <2> QED BY <1>2, <1>4, <1>6, <1>7, <2>1, CleanBefore
<1>8. CarryingInv' BY <1>1, <1>2, <1>6, <1>7, CarryingKept
<1>9. ASSUME NEW res \in Resources, Clean(res)' PROVE ResInv(res)'
  <2>1. ResInv(res) /\ res \notin torn' BY <1>1, <1>7, <1>9 DEF AllRes, Clean
  <2>2. Apart(res) BY <1>2 DEF Apart
  <2>3. CASE res # events[i].res BY <1>1, <1>2, <1>4, <2>1, <2>2, <2>3, OtherResource
  <2>4. CASE res = events[i].res
    <3>1. UNCHANGED settled BY <1>3, <2>1, <2>4
    <3>2. AllRes' BY <1>1, <1>2, <1>4, <3>1, ResourcesStay
    <3> QED BY <1>9, <3>2 DEF AllRes
  <2> QED BY <2>3, <2>4
<1>10. ProcessInv'
  <2>1. CASE bridge'.at = "saving" BY <2>1 DEF ProcessInv, Reporting
  <2>2. ASSUME NEW todo, send(todo), \A m \in DOMAIN todo : todo[m].res = events[i].res,
               Clean(events[i].res)' => todo = Parts(i)
        PROVE  ProcessInv'
    <3>1. bridge'.at = "adjusting" /\ bridge'.todo = todo /\ bridge'.event = i
      BY <1>0, <1>1, <2>2 DEF Poll
    <3>2. Clean(events[i].res)' => \E n \in DOMAIN Parts(i)' : PartInv(i, n)'
      BY <1>2, <2>2, <3>1, PartsMapped
    <3> QED BY <1>2, <2>2, <3>1, <3>2, ProcessIs
  <2>3. CASE kind # "UPDATED" /\ send(Parts(i))
    <3>1. \A m \in DOMAIN Parts(i) : Parts(i)[m].res = events[i].res
      BY <2>3 DEF Parts, Usage
    <3> QED BY <2>2, <2>3, <3>1
  <2>4. ASSUME NEW before \in Preceding(events[i].res), kind = "UPDATED",
               send(<<Usage(i, before, "DELETED", TimeOf(i)),
                      Usage(i, plan, "CREATED", TimeOf(i) + 1)>>),
               torn' = IF before = Before(i) THEN torn ELSE torn \cup {events[i].res}
        PROVE  ProcessInv'
    <3> DEFINE todo == <<Usage(i, before, "DELETED", TimeOf(i)),
                         Usage(i, plan, "CREATED", TimeOf(i) + 1)>>
    <3>1. \A m \in DOMAIN todo : todo[m].res = events[i].res BY DEF Usage
    <3>2. Clean(events[i].res)' => before = Before(i) BY <1>2, <2>4 DEF Clean
    <3>3. Clean(events[i].res)' => todo = Parts(i) BY <2>4, <3>2 DEF Parts
    <3>4. send(todo) BY <2>4
    <3> HIDE DEF todo
    <3> QED BY <2>2, <3>1, <3>3, <3>4
  <2> QED BY <1>3, <2>1, <2>3, <2>4
<1> QED BY <1>5, <1>6, <1>8, <1>9, <1>10 DEF DueInv

\* A sequence whose first element is replaced.
LEMMA HeadReplaced ==
    ASSUME NEW S, NEW s \in Seq(S), s # <<>>, NEW a \in S, NEW t, t = <<a>> \o Tail(s)
    PROVE  /\ Len(s) \in Nat /\ Len(t) = Len(s) /\ DOMAIN t = DOMAIN s /\ Head(t) = a
           /\ t[1] = a /\ \A m \in DOMAIN s : m = 1 \/ t[m] = s[m]
           /\ DOMAIN s = 1 .. Len(s) /\ 1 \in DOMAIN s /\ Head(s) = s[1]
<1>1. /\ Tail(s) \in Seq(S) /\ Len(Tail(s)) = Len(s) - 1 /\ Len(s) \in Nat /\ Len(s) >= 1
      /\ \A i \in 1 .. Len(Tail(s)) : Tail(s)[i] = s[i + 1]
      /\ Head(s) = s[1] /\ DOMAIN s = 1 .. Len(s)
  BY HeadTailProperties, LenProperties
<1>2. <<a>> \in Seq(S) /\ Len(<<a>>) = 1 /\ <<a>>[1] = a OBVIOUS
<1>3. /\ t \in Seq(S) /\ Len(t) = 1 + Len(Tail(s))
      /\ \A i \in 1 .. Len(t) : t[i] = IF i <= 1 THEN <<a>>[i] ELSE Tail(s)[i - 1]
  BY <1>1, <1>2, ConcatProperties
<1>4. Len(t) = Len(s) /\ DOMAIN t = 1 .. Len(t) /\ t # <<>> BY <1>1, <1>3, LenProperties
<1>5. t[1] = a BY <1>1, <1>2, <1>3, <1>4
<1>6. Head(t) = t[1] BY <1>3, <1>4, HeadTailProperties
<1>7. ASSUME NEW m \in 1 .. Len(s), m # 1 PROVE t[m] = s[m]
  <2>1. m - 1 \in 1 .. Len(Tail(s)) /\ ~ (m <= 1) /\ (m - 1) + 1 = m BY <1>1, <1>7
  <2>2. t[m] = Tail(s)[m - 1] BY <1>3, <1>4, <2>1
  <2>3. Tail(s)[m - 1] = s[m - 1 + 1] BY <1>1, <2>1
  <2> QED BY <2>1, <2>2, <2>3
<1> QED BY <1>1, <1>4, <1>5, <1>6, <1>7

\* The usage is moved behind another event of its resource.
LEMMA AdjustDue ==
    ASSUME AllInv, TypesInv', AdjustTime, UNCHANGED renewerVars
    PROVE  DueInv'
<1>0. PICK i : i = bridge.event OBVIOUS
<1> DEFINE usage == Head(bridge.todo)
           a == AdjustTimestamp(usage, i)
           todo == <<a>> \o Tail(bridge.todo)
<1>1. /\ Facts /\ TypesInv /\ LedgerInv /\ bridge \in Poll /\ EventsInv /\ AllRes /\ CarryingInv
      /\ i \in DOMAIN events /\ i \in Nat /\ now \in Nat /\ ProcessInv
      /\ carry \in [Key -> Doc \cup {NoDoc}]
      /\ bridge.todo \in Seq(Usages) /\ bridge.todo # <<>> /\ usage \in Usages
      /\ events[i].res \in Resources
  <2>1. bridge.at \in Reporting /\ bridge.at \in Processing BY DEF AdjustTime, Processing, Reporting
  <2>2. /\ Facts /\ TypesInv /\ LedgerInv /\ bridge \in Poll /\ EventsInv /\ AllRes /\ CarryingInv
        /\ i \in DOMAIN events /\ now \in Nat /\ ProcessInv /\ CarryOK
        /\ bridge.todo # <<>> /\ usage \in Usages
    BY <1>0, <2>1, AllMeans, TypesMean
  <2>3. i \in Nat /\ events[i].res \in Resources BY <2>2, EventIs DEF Facts
  <2> QED BY <2>2, <2>3 DEF CarryOK, Poll
<1>2. /\ UNCHANGED <<now, events, carry, ledger, supported, renewer, stale, overlooked, reader,
                     settled>>
      /\ bridge.at = "adjusting"
      /\ bridge' = [bridge EXCEPT !.at = "reporting", !.todo = todo]
      /\ torn' = IF ReportedElsewhere(usage, i) THEN torn \cup {usage.res} ELSE torn
  BY <1>0 DEF AdjustTime, carryVars, controllerVars, progressVars, renewerVars
<1>3. a \in Usages /\ a.res = usage.res BY <1>1, Moves
<1> HIDE DEF a
<1>4. /\ Len(bridge.todo) \in Nat /\ Len(todo) = Len(bridge.todo)
      /\ DOMAIN todo = DOMAIN bridge.todo /\ Head(todo) = a /\ todo[1] = a
      /\ \A m \in DOMAIN bridge.todo : m = 1 \/ todo[m] = bridge.todo[m]
      /\ DOMAIN bridge.todo = 1 .. Len(bridge.todo) /\ 1 \in DOMAIN bridge.todo
      /\ usage = bridge.todo[1]
  BY <1>1, <1>3, HeadReplaced
<1> HIDE DEF todo, usage
<1>5. bridge'.at = "reporting" /\ bridge'.todo = todo /\ bridge'.event = i
  BY <1>0, <1>1, <1>2 DEF Poll
<1>6. torn \subseteq torn' BY <1>2
<1>7. LedgerInv' BY <1>1, <1>2, <1>6, LedgerStays DEF LedgerInv
<1>8. AllRes' /\ \A res : Clean(res)' => Clean(res) BY <1>1, <1>2, <1>6, ResourcesStay
<1>9. EventsKept /\ EventsInv' BY <1>1, <1>2, AllKept, EventsInvStays
<1>10. CarryingInv' BY <1>1, <1>2, <1>8, <1>9, CarryingKept
<1>11. /\ \A m \in DOMAIN bridge.todo : bridge.todo[m].res = events[i].res
       /\ Clean(events[i].res) => \E n \in DOMAIN Parts(i) : PartInv(i, n)
  BY <1>0, <1>1, <1>2 DEF ProcessInv, Reporting
<1>12. \A m \in DOMAIN todo : todo[m].res = events[i].res
  BY <1>3, <1>4, <1>11
<1>13. PICK res : res = events[i].res OBVIOUS
<1>14. ASSUME Clean(res)' PROVE \E n \in DOMAIN Parts(i)' : PartInv(i, n)'
  <2>1. PICK n \in DOMAIN Parts(i) : PartInv(i, n) BY <1>8, <1>11, <1>13, <1>14
  <2>2. Parts(i)' = Parts(i) BY <1>1, <1>9, KeptSame
  <2>3. PICK x : x = Parts(i)[n] OBVIOUS
  <2>4. /\ Len(bridge.todo) = Len(Parts(i)) - n + 1
        /\ \A m \in 2 .. Len(bridge.todo) : bridge.todo[m] = Parts(i)[n + m - 1]
        /\ usage = x /\ \A m \in 1 .. n - 1 : Written(Parts(i)[m], i)
    BY <1>2, <2>1, <2>3 DEF PartInv, usage
  <2>5. ~ ReportedElsewhere(x, i)
    <3>1. usage.res = res /\ res \notin torn' BY <1>4, <1>11, <1>13, <1>14 DEF Clean
    <3> QED BY <1>2, <2>4, <3>1
  <2>6. PICK doc : doc = Stored(BuildKey(x)) OBVIOUS
  <2>7. doc # NoDoc => doc.guid <= i /\ (doc.guid = i => doc.time = x.time)
    <3> HAVE doc # NoDoc
    <3>1. doc \in Doc BY <1>1, <2>6 DEF Stored
    <3>2. doc.guid \in Nat BY <3>1 DEF Doc
    <3>3. ~ (doc.guid > i) /\ ~ (doc.guid = i /\ doc.time # x.time)
      BY <2>5, <2>6 DEF ReportedElsewhere
    <3> QED BY <1>1, <3>2, <3>3
  <2>8. \A y, j : /\ Stored(BuildKey(y))' = Stored(BuildKey(y))
                  /\ AdjustTimestamp(y, j)' = AdjustTimestamp(y, j)
                  /\ Written(y, j)' <=> Written(y, j)
    BY <1>2 DEF Written, AdjustTimestamp, Stored, BuildKey, Key, Months, MonthOf, MonthLength
  <2>9. a = AdjustTimestamp(x, i) BY <2>4 DEF a
  <2>10. \A m \in 2 .. Len(todo) : todo[m] = Parts(i)[n + m - 1]
    <3> TAKE m \in 2 .. Len(todo)
    <3>1. m \in DOMAIN bridge.todo /\ m # 1 BY <1>4
    <3> QED BY <1>4, <2>4, <3>1
  <2>11. PartInv(i, n)'
    BY <1>4, <1>5, <2>2, <2>3, <2>4, <2>6, <2>7, <2>8, <2>9, <2>10 DEF PartInv
  <2> QED BY <2>2, <2>11
<1>15. ProcessInv' BY <1>2, <1>5, <1>12, <1>13, <1>14, ProcessIs
<1> QED BY <1>7, <1>8, <1>9, <1>10, <1>15 DEF DueInv, AllRes

\* The document of the usage is read.
LEMMA GetDue ==
    ASSUME AllInv, TypesInv', GetDoc, UNCHANGED renewerVars
    PROVE  DueInv'
<1>0. PICK i : i = bridge.event OBVIOUS
<1>1. /\ Facts /\ TypesInv /\ LedgerInv /\ bridge \in Poll /\ EventsInv /\ AllRes /\ CarryingInv
      /\ i \in DOMAIN events /\ now \in Nat /\ ProcessInv /\ bridge.at \in Reporting
  <2>1. bridge.at \in Reporting /\ bridge.at \in Processing BY DEF GetDoc, Processing, Reporting
  <2> QED BY <1>0, <2>1, AllMeans, TypesMean
<1>2. /\ UNCHANGED <<now, events, carry, ledger, supported, renewer, stale, overlooked, reader,
                     settled, torn>>
      /\ bridge.at = "getting"
      /\ bridge'.at = "putting" /\ bridge'.todo = bridge.todo /\ bridge'.event = i
  BY <1>0, <1>1 DEF GetDoc, carryVars, controllerVars, progressVars, historyVars, renewerVars, Poll
<1>3. LedgerInv' BY <1>1, <1>2, LedgerStays DEF LedgerInv
<1>4. AllRes' /\ \A res : Clean(res)' => Clean(res) BY <1>1, <1>2, ResourcesStay
<1>5. EventsKept /\ EventsInv' BY <1>1, <1>2, AllKept, EventsInvStays
<1>6. CarryingInv' BY <1>1, <1>2, <1>4, <1>5, CarryingKept
<1>7. PICK res : res = events[i].res OBVIOUS
<1>8. /\ \A m \in DOMAIN bridge.todo : bridge.todo[m].res = res
      /\ Clean(res) => \E n \in DOMAIN Parts(i) : PartInv(i, n)
      /\ supported[Head(bridge.todo).res]
  BY <1>0, <1>1, <1>2, <1>7 DEF ProcessInv
<1>9. ASSUME Clean(res)' PROVE \E n \in DOMAIN Parts(i)' : PartInv(i, n)'
  <2>1. PICK n \in DOMAIN Parts(i) : PartInv(i, n) BY <1>4, <1>8, <1>9
  <2>2. Parts(i)' = Parts(i) BY <1>1, <1>5, KeptSame
  <2>3. \A y, j : /\ Stored(BuildKey(y))' = Stored(BuildKey(y))
                  /\ AdjustTimestamp(y, j)' = AdjustTimestamp(y, j)
                  /\ Written(y, j)' <=> Written(y, j)
    BY <1>2 DEF Written, AdjustTimestamp, Stored, BuildKey, Key, Months, MonthOf, MonthLength
  <2>4. Reported(Head(bridge.todo)) => Reported(Head(bridge.todo))'
    BY <1>2 DEF Reported
  <2>5. PartInv(i, n)' BY <1>2, <2>1, <2>2, <2>3, <2>4 DEF PartInv
  <2> QED BY <2>2, <2>5
<1>10. ProcessInv' BY <1>2, <1>7, <1>8, <1>9, ProcessIs
<1> QED BY <1>3, <1>4, <1>5, <1>6, <1>10 DEF DueInv, AllRes

\* The event that is processed, and the usage of it that is next.
LEMMA UsageIsNext ==
    ASSUME AllInv, bridge.at \in {"reporting", "getting", "putting"}, NEW i, i = bridge.event,
           NEW a, a = Head(bridge.todo), NEW res, res = events[i].res
    PROVE  /\ Facts /\ TypesInv /\ PollInv /\ EventsInv /\ LedgerInv /\ ProcessInv
           /\ CarryingInv /\ AllRes /\ bridge.at \in Reporting
           /\ i \in DOMAIN events /\ i \in Nat /\ now \in Nat /\ bridge \in Poll
           /\ res \in Resources /\ a \in Usages /\ a.res = res
           /\ bridge.todo \in Seq(Usages) /\ bridge.todo # <<>>
           /\ \A m \in DOMAIN bridge.todo : bridge.todo[m].res = res
           /\ bridge.at \in {"getting", "putting"} => supported[res]
           /\ Clean(res) =>
                 /\ ResInv(res) /\ i \in Done(res) \cup Turn(res)
                 /\ \E n \in DOMAIN Parts(i) :
                       /\ PartInv(i, n) /\ Parts(i)[n] \in PartsOf(i)
                       /\ UsageOf(i, Parts(i)[n], a)
<1>1. bridge.at \in Reporting /\ bridge.at \in Processing BY DEF Processing, Reporting
<1>2. /\ Facts /\ TypesInv /\ PollInv /\ EventsInv /\ LedgerInv /\ ProcessInv
      /\ CarryingInv /\ AllRes
  BY AllMeans
<1>3. /\ i \in DOMAIN events /\ now \in Nat /\ bridge \in Poll
      /\ a \in Usages /\ bridge.todo # <<>> /\ bridge.todo \in Seq(Usages)
  BY <1>1, <1>2, TypesMean DEF Poll
<1>4. i \in Nat /\ res \in Resources BY <1>2, <1>3, EventIs DEF Facts
<1>5. /\ \A m \in DOMAIN bridge.todo : bridge.todo[m].res = res
      /\ Clean(res) => \E n \in DOMAIN Parts(i) : PartInv(i, n)
      /\ bridge.at \in {"getting", "putting"} => supported[Head(bridge.todo).res]
  BY <1>1, <1>2 DEF ProcessInv
<1>6. a = bridge.todo[1] /\ 1 \in DOMAIN bridge.todo
  BY <1>3, HeadTailProperties, LenProperties, HeadReplaced
<1>7. a.res = res BY <1>5, <1>6
<1>8. ASSUME Clean(res)
      PROVE  /\ ResInv(res) /\ i \in Done(res) \cup Turn(res)
             /\ \E n \in DOMAIN Parts(i) : /\ PartInv(i, n) /\ Parts(i)[n] \in PartsOf(i)
                                           /\ UsageOf(i, Parts(i)[n], a)
  <2>1. ResInv(res) BY <1>2, <1>4, <1>8 DEF AllRes
  <2>2. i \in Done(res) \cup Turn(res) BY <1>1, <1>2, <1>8, InTurn
  <2>3. PICK n \in DOMAIN Parts(i) : PartInv(i, n) BY <1>5, <1>8
  <2>4. Parts(i)[n] \in PartsOf(i) /\ UsageOf(i, Parts(i)[n], Head(bridge.todo))
    BY <1>2, <1>8, <2>1, <2>3, PartIs
  <2> QED BY <2>1, <2>2, <2>3, <2>4
<1> QED BY <1>1, <1>2, <1>3, <1>4, <1>5, <1>7, <1>8

\* A usage is reported, whether the answer arrives or not.
LEMMA ReportsUsage ==
    ASSUME AllInv, TypesInv', bridge.at = "reporting", Accumulate(Head(bridge.todo)),
           UNCHANGED <<now, events, carry, supported, settled, overlooked, torn, renewer, stale>>,
           reader'.unlisted \subseteq DOMAIN events, NEW a, a = Head(bridge.todo)
    PROVE  /\ LedgerInv' /\ EventsInv' /\ CarryingInv' /\ AllRes'
           /\ ledger \subseteq ledger' /\ Reported(a)'
           /\ \A res : Clean(res)' => Clean(res)
<1>0. PICK i, own : i = bridge.event /\ own = events[i].res OBVIOUS
<1>1. /\ Facts /\ TypesInv /\ EventsInv /\ LedgerInv /\ CarryingInv /\ AllRes
      /\ i \in DOMAIN events /\ now \in Nat
      /\ own \in Resources /\ a \in Usages /\ a.res = own
      /\ Clean(own) =>
            /\ ResInv(own) /\ i \in Done(own) \cup Turn(own)
            /\ \E n \in DOMAIN Parts(i) :
                       /\ PartInv(i, n) /\ Parts(i)[n] \in PartsOf(i)
                       /\ UsageOf(i, Parts(i)[n], a)
  BY <1>0, UsageIsNext
<1>2. /\ \/ Reported(a) /\ ledger' = ledger
         \/ /\ ~ Reported(a) /\ ledger' = ledger \cup {EntryOf(a)}
            /\ EntryOf(a) \notin ledger
      /\ ledger' \subseteq Entry /\ IsFiniteSet(ledger') /\ ledger \subseteq ledger'
      /\ EntryOf(a) \in Entry /\ Reported(a)'
      /\ \A u : u.res # a.res => (u \in ledger' <=> u \in ledger)
  <2>1. a.res \in Resources /\ a.plan \in Plans /\ a.time \in Nat BY <1>1 DEF Usages
  <2>2. Accumulate(a) OBVIOUS
  <2> QED BY <1>1, <2>1, <2>2, Accumulates
<1>3. EventsKept /\ EventsInv' BY <1>1, AllKept, EventsInvStays
<1>4. \A res : Clean(res)' => Clean(res) BY <1>2, <1>3, CleanBefore
<1>5. CarryingInv' BY <1>1, <1>2, <1>3, <1>4, CarryingKept
<1>6. LedgerInv'
  BY <1>1, <1>2 DEF LedgerInv, Entry, Key, Months, MonthOf, MonthLength
<1>7. ASSUME NEW res \in Resources, Clean(res)' PROVE ResInv(res)'
  <2>1. ResInv(res) /\ Clean(res) BY <1>1, <1>4, <1>7 DEF AllRes
  <2>2. CASE res # own
    <3>1. Apart(res) BY <1>1, <1>2, <2>2 DEF Apart
    <3> QED BY <1>0, <1>1, <2>1, <2>2, <3>1, OtherResource
  <2>3. CASE ledger' = ledger
    <3>1. Apart(res) BY <2>3 DEF Apart
    <3>2. Done(res)' = Done(res) /\ Turn(res)' = Turn(res) BY DEF Done, Turn, Dated
    <3>3. OrderInv(res)' BY <2>1, <3>2 DEF ResInv, OrderInv, Dated
    <3> QED BY <1>1, <1>3, <2>1, <3>1, <3>2, <3>3, ResStays DEF TurnKept
  <2>4. CASE res = own /\ ledger' # ledger
    <3>1. PICK n \in DOMAIN Parts(i) : Parts(i)[n] \in PartsOf(i) /\ UsageOf(i, Parts(i)[n], a)
      BY <1>1, <2>1, <2>4
    <3>2. PICK x : x = Parts(i)[n] OBVIOUS
    <3>3. ~ Reported(a) /\ ledger' = ledger \cup {EntryOf(a)} /\ EntryOf(a) \notin ledger
      BY <1>2, <2>4
    <3>4. i \notin settled BY <3>1, <3>3 DEF UsageOf
    <3>5. i \in Turn(res) BY <1>1, <2>1, <2>4, <3>4 DEF Done
    <3> QED BY <1>1, <2>1, <3>1, <3>2, <3>3, <3>5, UsageIsAccumulated
  <2> QED BY <2>2, <2>3, <2>4
<1> QED BY <1>0, <1>2, <1>3, <1>4, <1>5, <1>6, <1>7 DEF AllRes

\* A usage is reported.
LEMMA ReportDue ==
    ASSUME AllInv, TypesInv', Report, UNCHANGED renewerVars
    PROVE  DueInv'
<1>0. PICK i, a, res : i = bridge.event /\ a = Head(bridge.todo) /\ res = events[i].res OBVIOUS
<1>1. /\ UNCHANGED <<now, events, carry, supported, settled, overlooked, torn, renewer, stale,
                     reader>>
      /\ bridge.at = "reporting" /\ Accumulate(Head(bridge.todo))
      /\ supported[Head(bridge.todo).res]
      /\ bridge' = [bridge EXCEPT !.at = "getting"]
  BY DEF Report, controllerVars, progressVars, historyVars, renewerVars
<1>2. /\ Facts /\ LedgerInv /\ i \in DOMAIN events /\ bridge \in Poll
      /\ \A m \in DOMAIN bridge.todo : bridge.todo[m].res = res
      /\ Clean(res) => \E n \in DOMAIN Parts(i) : PartInv(i, n)
  BY <1>0, <1>1, UsageIsNext
<1>3. bridge'.at = "getting" /\ bridge'.todo = bridge.todo /\ bridge'.event = i
  BY <1>0, <1>1, <1>2 DEF Poll
<1>4. reader'.unlisted \subseteq DOMAIN events BY <1>1, <1>2 DEF LedgerInv
<1>5. /\ LedgerInv' /\ EventsInv' /\ CarryingInv' /\ AllRes'
      /\ Reported(a)'
      /\ \A r : Clean(r)' => Clean(r)
  BY <1>0, <1>1, <1>4, ReportsUsage
<1>6. ASSUME Clean(res)' PROVE \E n \in DOMAIN Parts(i)' : PartInv(i, n)'
  <2>1. PICK n \in DOMAIN Parts(i) : PartInv(i, n) BY <1>2, <1>5, <1>6
  <2>2. Parts(i)' = Parts(i) BY <1>1, <1>2, AllKept, KeptSame
  <2>3. \A y, j : /\ Stored(BuildKey(y))' = Stored(BuildKey(y))
                  /\ AdjustTimestamp(y, j)' = AdjustTimestamp(y, j)
                  /\ Written(y, j)' <=> Written(y, j)
    BY <1>1 DEF Written, AdjustTimestamp, Stored, BuildKey, Key, Months, MonthOf, MonthLength
  <2>4. Head(bridge'.todo) = a BY <1>0, <1>3
  <2>5. PartInv(i, n)' BY <1>1, <1>3, <1>5, <2>1, <2>2, <2>3, <2>4 DEF PartInv
  <2> QED BY <2>2, <2>5
<1>7. ProcessInv' BY <1>0, <1>1, <1>2, <1>3, <1>6, ProcessIs
<1> QED BY <1>5, <1>7 DEF DueInv, AllRes

\* What is left of a sequence without its first element.
LEMMA TailIs ==
    ASSUME NEW S, NEW s \in Seq(S), Len(s) > 1
    PROVE  /\ Len(s) \in Nat /\ Len(Tail(s)) = Len(s) - 1 /\ DOMAIN Tail(s) = 1 .. Len(s) - 1
           /\ \A m \in 1 .. Len(s) - 1 : Tail(s)[m] = s[m + 1] /\ m + 1 \in DOMAIN s
           /\ Head(Tail(s)) = s[2]
<1>1. Len(s) \in Nat /\ DOMAIN s = 1 .. Len(s) /\ s # <<>> BY LenProperties
<1>2. /\ Tail(s) \in Seq(S) /\ Len(Tail(s)) = Len(s) - 1
      /\ \A i \in 1 .. Len(Tail(s)) : Tail(s)[i] = s[i + 1]
  BY <1>1, HeadTailProperties
<1>3. DOMAIN Tail(s) = 1 .. Len(s) - 1 /\ Tail(s) # <<>>
  <2>1. PICK t : t = Tail(s) OBVIOUS
  <2>2. t \in Seq(S) /\ Len(t) = Len(s) - 1 /\ Len(s) - 1 > 0 BY <1>1, <1>2, <2>1
  <2>3. DOMAIN t = 1 .. Len(s) - 1 BY <2>2, LenProperties
  <2>4. t # <<>> BY <2>2, EmptySeq
  <2> QED BY <2>1, <2>3, <2>4
<1>4. Head(Tail(s)) = Tail(s)[1] BY <1>2, <1>3, HeadTailProperties
<1>5. \A m \in 1 .. Len(s) - 1 : Tail(s)[m] = s[m + 1] /\ m + 1 \in DOMAIN s
  BY <1>1, <1>2
<1>6. 1 \in 1 .. Len(s) - 1 BY <1>1
<1> QED BY <1>1, <1>2, <1>3, <1>4, <1>5, <1>6

\* The next usage of the event comes, or it is done.
LEMMA PartDoneIs ==
    ASSUME bridge \in Poll, PartDone
    PROVE  \/ /\ Len(bridge.todo) > 1 /\ UNCHANGED settled
              /\ bridge'.at = "adjusting" /\ bridge'.todo = Tail(bridge.todo)
              /\ bridge'.event = bridge.event
           \/ /\ ~ (Len(bridge.todo) > 1) /\ settled' = settled \cup {bridge.event}
              /\ bridge'.at = "saving"
BY DEF PartDone, ToSaving, Polled, Poll

\* The license of the account is not supported.
LEMMA RefusalDue ==
    ASSUME AllInv, TypesInv', ReportUnsupported, UNCHANGED renewerVars
    PROVE  DueInv'
<1>0. PICK i, a, own : i = bridge.event /\ a = Head(bridge.todo) /\ own = events[i].res OBVIOUS
<1>1. /\ UNCHANGED <<now, events, carry, ledger, supported, overlooked, torn, renewer, stale,
                     reader>>
      /\ bridge.at = "reporting" /\ ~ supported[Head(bridge.todo).res] /\ PartDone
  BY DEF ReportUnsupported, carryVars, controllerVars, historyVars, renewerVars
<1>2. /\ Facts /\ TypesInv /\ LedgerInv /\ EventsInv /\ CarryingInv /\ AllRes
      /\ i \in DOMAIN events /\ bridge \in Poll
      /\ now \in Nat /\ bridge.todo \in Seq(Usages) /\ a.res = own
      /\ \A m \in DOMAIN bridge.todo : bridge.todo[m].res = own
  BY <1>0, <1>1, UsageIsNext
<1>3. /\ settled \subseteq settled' /\ settled' \subseteq settled \cup {i}
      /\ \/ bridge'.at = "saving"
         \/ /\ bridge'.at = "adjusting" /\ bridge'.todo = Tail(bridge.todo)
            /\ bridge'.event = i /\ Len(bridge.todo) > 1
  BY <1>0, <1>1, <1>2, PartDoneIs
<1>4. ~ supported[own] /\ ~ Clean(own)' BY <1>0, <1>1, <1>2 DEF Clean
<1>5. LedgerInv'
  <2>1. settled' \cup overlooked' \cup reader'.unlisted \subseteq DOMAIN events
    BY <1>1, <1>2, <1>3 DEF LedgerInv
  <2> QED BY <1>1, <1>2, <2>1, LedgerStays
<1>6. EventsKept /\ EventsInv' BY <1>1, <1>2, AllKept, EventsInvStays
<1>7. ASSUME NEW res, Clean(res)' PROVE Clean(res)
  <2>1. \A j \in Dated(res) : j \in settled' /\ j \notin settled => ~ supported[res]
    BY <1>0, <1>3, <1>4 DEF Dated
  <2> QED BY <1>1, <1>6, <1>7, <2>1, CleanBefore
<1>8. CarryingInv' BY <1>1, <1>2, <1>6, <1>7, CarryingKept
<1>9. ASSUME NEW res \in Resources, Clean(res)' PROVE ResInv(res)'
  <2>1. ResInv(res) /\ res # own BY <1>2, <1>4, <1>7, <1>9 DEF AllRes
  <2>2. Apart(res) BY <1>1 DEF Apart
  <2> QED BY <1>0, <1>1, <1>2, <1>3, <2>1, <2>2, OtherResource
<1>10. ProcessInv'
  <2>1. CASE bridge'.at = "saving" BY <2>1 DEF ProcessInv, Reporting
  <2>2. CASE bridge'.at = "adjusting" /\ bridge'.todo = Tail(bridge.todo)
             /\ bridge'.event = i /\ Len(bridge.todo) > 1
    <3>1. \A m \in DOMAIN bridge'.todo : bridge'.todo[m].res = own
      BY <1>2, <2>2, TailIs
    <3> QED BY <1>0, <1>1, <1>4, <2>2, <3>1, ProcessIs
  <2> QED BY <1>3, <2>1, <2>2
<1> QED BY <1>5, <1>6, <1>8, <1>9, <1>10 DEF DueInv

\* A document is written, whether the answer arrives or not.
LEMMA WritesDue ==
    ASSUME AllInv, TypesInv', PollInv', bridge.at = "putting", WriteDoc,
           UNCHANGED <<now, events, ledger, supported, overlooked, renewer, stale>>,
           reader'.unlisted \subseteq DOMAIN events,
           \/ UNCHANGED settled
           \/ settled' = settled \cup {bridge.event} /\ ~ (Len(bridge.todo) > 1),
           NEW i, i = bridge.event, NEW own, own = events[i].res
    PROVE  /\ LedgerInv' /\ EventsInv' /\ CarryingInv' /\ AllRes'
           /\ \A res : Clean(res)' => Clean(res)
           /\ Clean(own)' =>
                 \E n \in DOMAIN Parts(i) :
                    /\ PartInv(i, n)
                    /\ \A y \in PartsOf(i) :
                          y = Parts(i)[n] \/ Written(y, i) => Written(y, i)'
<1>0. PICK a : a = Head(bridge.todo) OBVIOUS
<1>1. /\ Facts /\ TypesInv /\ LedgerInv /\ EventsInv /\ CarryingInv /\ AllRes
      /\ i \in DOMAIN events /\ bridge \in Poll /\ own \in Resources
      /\ now \in Nat /\ bridge.todo \in Seq(Usages) /\ bridge.todo # <<>> /\ a.res = own
      /\ a \in Usages
      /\ supported[own]
      /\ Clean(own) =>
            /\ ResInv(own) /\ i \in Done(own) \cup Turn(own)
            /\ \E n \in DOMAIN Parts(i) :
                  /\ PartInv(i, n) /\ Parts(i)[n] \in PartsOf(i)
                  /\ UsageOf(i, Parts(i)[n], a)
  BY <1>0, UsageIsNext
<1>2. PICK k, d : k = BuildKey(a) /\ d = ResourceInfo(a, i) OBVIOUS
<1>3. /\ carry' = [carry EXCEPT ![k] = d]
      /\ torn \subseteq torn' /\ (Overtaken(i) => own \in torn')
  BY <1>0, <1>2 DEF WriteDoc, Put
<1>4. carry \in [Key -> Doc \cup {NoDoc}] /\ k[1] = own
  BY <1>1, <1>2, TypesMean DEF CarryOK, BuildKey
<1>5. \A key \in Key : key # k => carry'[key] = carry[key] BY <1>3, <1>4
<1>6. settled \subseteq settled' /\ settled' \subseteq settled \cup {i} OBVIOUS
<1>7. LedgerInv'
  <2>1. \A key \in Key : carry'[key] # NoDoc => supported[key[1]]
    BY <1>1, <1>4, <1>5 DEF LedgerInv
  <2>2. \A j \in overlooked : events[j].res \in torn' BY <1>1, <1>3 DEF LedgerInv
  <2>3. settled' \cup overlooked \cup reader'.unlisted \subseteq DOMAIN events
    BY <1>1, <1>6 DEF LedgerInv
  <2>4. Key' = Key /\ Entry' = Entry BY DEF Entry, Key, Months, MonthOf, MonthLength
  <2>5. ledger \subseteq Entry /\ IsFiniteSet(ledger) BY <1>1 DEF LedgerInv
  <2> QED BY <2>1, <2>2, <2>3, <2>4, <2>5 DEF LedgerInv
<1>8. EventsKept /\ EventsInv' BY <1>1, AllKept, EventsInvStays
<1>9. ASSUME NEW res, Clean(res)' PROVE Clean(res)
  <2>1. \A j \in Dated(res) : j \in settled' /\ j \notin settled /\ Overtaken(j) => res \in torn'
    BY <1>3, <1>6 DEF Dated
  <2> QED BY <1>3, <1>8, <1>9, <2>1, CleanBefore
<1>10. CarryingInv' BY <1>1, <1>8, <1>9, CarryingKept
<1>11. Facts' BY <1>7, <1>8 DEF Facts, PollInv
<1>12. ASSUME Clean(own)'
       PROVE  /\ ResInv(own)'
              /\ \E n \in DOMAIN Parts(i) :
                    /\ PartInv(i, n)
                    /\ \A y \in PartsOf(i) :
                          y = Parts(i)[n] \/ Written(y, i) => Written(y, i)'
  <2>1. ResInv(own) /\ i \in Done(own) \cup Turn(own) BY <1>1, <1>9, <1>12
  <2>2. PICK n \in DOMAIN Parts(i) :
           PartInv(i, n) /\ Parts(i)[n] \in PartsOf(i) /\ UsageOf(i, Parts(i)[n], a)
    BY <1>1, <1>9, <1>12
  <2>3. PICK x : x = Parts(i)[n] OBVIOUS
  <2>4. /\ x \in PartsOf(i) /\ UsageOf(i, x, a) /\ BuildKey(x) = k /\ k \in Key
        /\ Written(x, i) => carry[k] = d
        /\ i \in settled => Written(x, i)
    BY <1>2, <2>2, <2>3 DEF UsageOf
  <2>5. CASE i \in settled
    <3>1. Written(x, i) /\ carry[k] = d BY <2>4, <2>5
    <3>2. carry' = carry BY <1>3, <1>4, <2>4, <3>1
    <3>3. Apart(own) BY <3>2 DEF Apart
    <3>4. ResInv(own)' BY <1>1, <1>6, <2>1, <2>5, <3>3, OtherResource
    <3>5. \A y : Written(y, i)' <=> Written(y, i)
      BY <3>2 DEF Written, Stored, BuildKey, Key, Months, MonthOf, MonthLength
    <3> QED BY <2>2, <2>3, <3>1, <3>4, <3>5
  <2>6. CASE i \notin settled
    <3>1. i \in Turn(own) BY <2>1, <2>6 DEF Done
    <3>2. Reported(a) BY <1>0, <2>2 DEF PartInv
    <3>3. Puts(own, i, x, a) BY <1>2, <1>3, <2>4, <3>1, <3>2 DEF Puts
    <3>4. /\ Written(x, i)'
          /\ \A y \in PartsOf(i) : y # x => (Written(y, i)' <=> Written(y, i))
      BY <1>1, <2>1, <2>4, <3>3, PutChanges
    <3>5. CASE UNCHANGED settled
      <4>1. ResInv(own)' BY <1>1, <2>1, <3>3, <3>5, PutInTurn
      <4> QED BY <2>2, <2>3, <3>4, <4>1
    <3>6. CASE settled' = settled \cup {i} /\ ~ (Len(bridge.todo) > 1)
      <4>1. ~ Overtaken(i) BY <1>3, <1>12 DEF Clean
      <4>2. \A y \in PartsOf(i) : y # x => Written(y, i)
        <5>1. /\ Len(bridge.todo) = Len(Parts(i)) - n + 1
              /\ \A m \in 1 .. n - 1 : Written(Parts(i)[m], i)
          BY <2>2 DEF PartInv
        <5>2. Len(bridge.todo) \in Nat /\ Len(bridge.todo) # 0 BY <1>1, LenProperties, EmptySeq
        <5>3. Len(bridge.todo) = 1
          <6>1. \A l \in Nat : l # 0 /\ ~ (l > 1) => l = 1 OBVIOUS
          <6> QED BY <3>6, <5>2, <6>1
        <5>4. Parts(i) \in Seq(PartsOf(i)) BY DEF Parts, PartsOf
        <5>5. Len(Parts(i)) \in Nat /\ DOMAIN Parts(i) = 1 .. Len(Parts(i))
          BY <5>4, LenProperties
        <5>6. n = Len(Parts(i))
          <6>1. \A l \in Nat : \A m \in 1 .. l : 1 = l - m + 1 => m = l OBVIOUS
          <6> QED BY <5>1, <5>3, <5>5, <6>1
        <5>7. ASSUME NEW m \in DOMAIN Parts(i), Parts(i)[m] # x PROVE Written(Parts(i)[m], i)
          <6>1. m # n BY <2>3, <5>7
          <6>2. m \in 1 .. n - 1 BY <5>5, <5>6, <6>1
          <6> QED BY <5>1, <6>2
        <5> QED BY <5>7 DEF PartsOf
      <4>3. ResInv(own)' BY <1>1, <1>11, <2>1, <3>3, <3>6, <4>1, <4>2, PutSettles
      <4> QED BY <2>2, <2>3, <3>4, <4>3
    <3> QED BY <3>5, <3>6
  <2> QED BY <2>5, <2>6
<1>13. ASSUME NEW res \in Resources, Clean(res)' PROVE ResInv(res)'
  <2>1. CASE res = own BY <1>12, <1>13, <2>1
  <2>2. CASE res # own
    <3>1. ResInv(res) BY <1>1, <1>9, <1>13 DEF AllRes
    <3>2. Apart(res) BY <1>4, <1>5, <2>2 DEF Apart
    <3> QED BY <1>1, <1>6, <2>2, <3>1, <3>2, OtherResource
  <2> QED BY <2>1, <2>2
<1> QED BY <1>7, <1>8, <1>9, <1>10, <1>12, <1>13 DEF AllRes

\* The part of an event that comes next.
LEMMA NextPart ==
    ASSUME NEW i, NEW n \in DOMAIN Parts(i), bridge.todo \in Seq(Usages), Len(bridge.todo) > 1,
           PartInv(i, n), UNCHANGED events, bridge'.at = "adjusting",
           bridge'.todo = Tail(bridge.todo),
           \A y \in PartsOf(i) : y = Parts(i)[n] \/ Written(y, i) => Written(y, i)'
    PROVE  \E m \in DOMAIN Parts(i)' : PartInv(i, m)'
<1>1. Parts(i)' = Parts(i) BY AllKept DEF Parts, Usage, Before, PlanAfter, Dated, TimeOf
<1>2. PICK todo, s : todo = bridge.todo /\ s = Parts(i) OBVIOUS
<1>3. /\ Len(todo) \in Nat /\ Len(Tail(todo)) = Len(todo) - 1
      /\ \A m \in 1 .. Len(todo) - 1 : Tail(todo)[m] = todo[m + 1]
      /\ Head(Tail(todo)) = todo[2] /\ Len(todo) > 1
  BY <1>2, TailIs
<1>4. s \in Seq(PartsOf(i))
  <2>1. CASE events[i].kind = "UPDATED" BY <1>2, <2>1 DEF Parts, PartsOf
  <2>2. CASE events[i].kind # "UPDATED" BY <1>2, <2>2 DEF Parts, PartsOf
  <2> QED BY <2>1, <2>2
<1>5. Len(s) \in Nat /\ DOMAIN s = 1 .. Len(s) /\ n \in 1 .. Len(s)
      /\ \A m \in DOMAIN s : s[m] \in PartsOf(i)
  BY <1>2, <1>4, LenProperties DEF PartsOf
<1>6. /\ Len(todo) = Len(s) - n + 1
      /\ \A m \in 2 .. Len(todo) : todo[m] = s[n + m - 1]
      /\ \A m \in 1 .. n - 1 : Written(s[m], i)
  BY <1>2 DEF PartInv
<1>7. n + 1 \in 1 .. Len(s) BY <1>3, <1>5, <1>6
<1>8. Len(Tail(todo)) = Len(s) - (n + 1) + 1 BY <1>3, <1>5, <1>6
<1>9. \A m \in 2 .. Len(Tail(todo)) : Tail(todo)[m] = s[n + 1 + m - 1]
  <2> TAKE m \in 2 .. Len(Tail(todo))
  <2>1. m \in 1 .. Len(todo) - 1 /\ m + 1 \in 2 .. Len(todo) /\ n + (m + 1) - 1 = n + 1 + m - 1
    BY <1>3, <1>5
  <2>2. Tail(todo)[m] = todo[m + 1] BY <1>3, <2>1
  <2>3. todo[m + 1] = s[n + (m + 1) - 1] BY <1>6, <2>1
  <2> QED BY <2>1, <2>2, <2>3
<1>10. Head(Tail(todo)) = s[n + 1]
  <2>1. 2 \in 2 .. Len(todo) /\ n + 2 - 1 = n + 1 BY <1>3, <1>5
  <2> QED BY <1>3, <1>6, <2>1
<1>11. \A m \in 1 .. n + 1 - 1 : Written(s[m], i)'
  <2> TAKE m \in 1 .. n + 1 - 1
  <2>1. m \in DOMAIN s /\ (m = n \/ m \in 1 .. n - 1) BY <1>5
  <2> QED BY <1>2, <1>5, <1>6, <2>1
<1>12. PartInv(i, n + 1)'
  <2>1. bridge'.todo = Tail(todo) /\ Parts(i)' = s BY <1>1, <1>2
  <2>2. \A m \in 1 .. (n + 1) - 1 : Written(Parts(i)[m], i)' BY <1>11, <2>1
  <2> QED BY <1>8, <1>9, <1>10, <2>1, <2>2 DEF PartInv
<1> QED BY <1>1, <1>2, <1>5, <1>7, <1>12

\* The document of the usage is written.
LEMMA PutDue ==
    ASSUME AllInv, TypesInv', PollInv', PutDoc, UNCHANGED renewerVars
    PROVE  DueInv'
<1>0. PICK i, own : i = bridge.event /\ own = events[i].res OBVIOUS
<1>1. /\ bridge.at = "putting" /\ WriteDoc /\ PartDone
      /\ UNCHANGED <<now, events, ledger, supported, overlooked, renewer, stale, reader>>
  BY DEF PutDoc, controllerVars, renewerVars
<1>2. /\ LedgerInv /\ i \in DOMAIN events /\ bridge \in Poll /\ bridge.todo \in Seq(Usages)
      /\ \A m \in DOMAIN bridge.todo : bridge.todo[m].res = own
  BY <1>0, <1>1, UsageIsNext
<1>3. \/ /\ Len(bridge.todo) > 1 /\ UNCHANGED settled
         /\ bridge'.at = "adjusting" /\ bridge'.todo = Tail(bridge.todo)
         /\ bridge'.event = bridge.event
      \/ /\ ~ (Len(bridge.todo) > 1) /\ settled' = settled \cup {bridge.event}
         /\ bridge'.at = "saving"
  BY <1>1, <1>2, PartDoneIs
<1>4. reader'.unlisted \subseteq DOMAIN events BY <1>1, <1>2 DEF LedgerInv
<1>5. /\ LedgerInv' /\ EventsInv' /\ CarryingInv' /\ AllRes'
      /\ Clean(own)' =>
            \E n \in DOMAIN Parts(i) :
               /\ PartInv(i, n)
               /\ \A y \in PartsOf(i) :
                     y = Parts(i)[n] \/ Written(y, i) => Written(y, i)'
  BY <1>0, <1>1, <1>3, <1>4, WritesDue
<1>6. ProcessInv'
  <2>1. CASE bridge'.at = "saving" BY <2>1 DEF ProcessInv, Reporting
  <2>2. CASE /\ Len(bridge.todo) > 1 /\ bridge'.at = "adjusting"
             /\ bridge'.todo = Tail(bridge.todo) /\ bridge'.event = bridge.event
    <3>1. \A m \in DOMAIN bridge'.todo : bridge'.todo[m].res = own
      BY <1>2, <2>2, TailIs
    <3>2. ASSUME Clean(own)' PROVE \E n \in DOMAIN Parts(i)' : PartInv(i, n)'
      BY <1>1, <1>2, <1>5, <2>2, <3>2, NextPart
    <3> QED BY <1>0, <1>1, <2>2, <3>1, <3>2, ProcessIs
  <2> QED BY <1>3, <2>1, <2>2
<1> QED BY <1>5, <1>6 DEF DueInv, AllRes

\* The answer of a call is lost.
LEMMA AnswerLostDue ==
    ASSUME AllInv, TypesInv', PollInv', AnswerLost, UNCHANGED renewerVars
    PROVE  DueInv'
<1>1. /\ EndPoll /\ UNCHANGED <<now, supported, events, settled, overlooked, renewer, stale>>
  BY DEF AnswerLost, controllerVars, renewerVars
<1>2. bridge'.at \notin Reporting /\ reader'.unlisted = {} BY <1>1, PollOver
<1>3. reader'.unlisted \subseteq DOMAIN events BY <1>2
<1>4. ProcessInv' BY <1>2 DEF ProcessInv
<1>5. CASE /\ bridge.at = "reporting" /\ Accumulate(Head(bridge.todo))
           /\ UNCHANGED <<carry, saved, torn>>
  <2>1. LedgerInv' /\ EventsInv' /\ CarryingInv' /\ AllRes' BY <1>1, <1>3, <1>5, ReportsUsage
  <2> QED BY <1>4, <2>1 DEF DueInv, AllRes
<1>6. CASE bridge.at = "putting" /\ WriteDoc /\ UNCHANGED <<ledger, saved>>
  <2>1. LedgerInv' /\ EventsInv' /\ CarryingInv' /\ AllRes' BY <1>1, <1>3, <1>6, WritesDue
  <2> QED BY <1>4, <2>1 DEF DueInv, AllRes
<1>7. CASE bridge.at \in {"saving", "clearing"} /\ UNCHANGED <<carry, ledger, torn>>
  <2>1. LedgerInv BY AllMeans
  <2>2. settled' \cup overlooked' \cup reader'.unlisted \subseteq DOMAIN events
    BY <1>1, <1>3, <2>1 DEF LedgerInv
  <2>3. LedgerInv' BY <1>1, <1>7, <2>1, <2>2, LedgerStays DEF LedgerInv
  <2> QED BY <1>1, <1>2, <1>7, <2>3, QuietStep
<1> QED BY <1>5, <1>6, <1>7 DEF AnswerLost

-----------------------------------------------------------------------------
(***************************************************************************)
(* The clock and the Cloud Controller.                                     *)
(***************************************************************************)
\* Time passes.
LEMMA ClockDue ==
    ASSUME AllInv, TypesInv', Clock
    PROVE  DueInv'
<1>1. /\ UNCHANGED <<events, carry, ledger, supported, settled, torn, overlooked, reader, bridge,
                     renewer, stale>>
      /\ now' = now + 1
  BY DEF Clock, Advance, Tick, bridgeVars, controllerVars, historyVars, renewerVars
<1>2. /\ Facts /\ TypesInv /\ EventsInv /\ LedgerInv /\ ProcessInv /\ CarryingInv /\ AllRes
      /\ now \in Nat
  BY AllMeans, TypesMean
<1>3. AllRes' /\ \A res : Clean(res)' => Clean(res) BY <1>1, <1>2, ResourcesStay
<1>4. EventsKept /\ EventsInv' BY <1>1, <1>2, AllKept, EventsInvStays
<1>5. LedgerInv' BY <1>1, <1>2, LedgerStays DEF LedgerInv
<1>6. now <= now' BY <1>1, <1>2
<1>7. CarryingInv' BY <1>1, <1>2, <1>3, <1>4, <1>6, CarryingKept
<1>8. ProcessInv' BY <1>1, <1>2, <1>3, <1>4, ProcessKept
<1> QED BY <1>3, <1>4, <1>5, <1>7, <1>8 DEF DueInv, AllRes

\* An event is added to the list.
Adds(e) ==
    /\ UNCHANGED <<now, carry, ledger, supported, settled, torn, overlooked, stale>>
    /\ events' = Append(events, e) /\ e \in Event

\* What is in the list stays as it was.
LEMMA AddsOne ==
    ASSUME TypesInv, NEW e, Adds(e), NEW n, n = Len(events) + 1
    PROVE  /\ n \in Nat /\ DOMAIN events' = 1 .. n /\ DOMAIN events = 1 .. n - 1 /\ n \notin DOMAIN events
           /\ n \in DOMAIN events'
           /\ \A i \in DOMAIN events : i \in Nat /\ i < n /\ i \in DOMAIN events' /\ events'[i] = events[i]
           /\ events'[n] = e
           /\ \A res : Dated(res)' = Dated(res) \cup (IF e.res = res THEN {n} ELSE {})
<1>1. /\ events \in Seq(Event) /\ Len(events) \in Nat /\ DOMAIN events = 1 .. Len(events)
  BY TypesMean
<1>2. /\ events' \in Seq(Event) /\ Len(events') = Len(events) + 1
      /\ \A i \in 1 .. Len(events) : events'[i] = events[i]
      /\ events'[Len(events) + 1] = e
  BY <1>1, AppendProperties DEF Adds
<1>3. DOMAIN events' = 1 .. n BY <1>2, LenProperties
<1>4. n \in Nat /\ DOMAIN events = 1 .. n - 1 BY <1>1
<1>5. n \notin DOMAIN events /\ \A i \in DOMAIN events : i \in Nat /\ i < n /\ i \in 1 .. n BY <1>4
<1>6. n \in 1 .. n BY <1>4
<1>7. ASSUME NEW res
      PROVE  Dated(res)' = Dated(res) \cup (IF e.res = res THEN {n} ELSE {})
  <2>1. 1 .. n = (1 .. n - 1) \cup {n} BY <1>4
  <2> QED BY <1>1, <1>2, <1>3, <1>4, <2>1 DEF Dated
<1> QED BY <1>1, <1>2, <1>3, <1>4, <1>5, <1>6, <1>7

\* A plan before the end of the list is still found.
LEMMA PlanStays ==
    ASSUME TypesInv, NEW e, Adds(e), NEW res, NEW m \in Nat, m <= Len(events)
    PROVE  PlanAfter(res, m)' = PlanAfter(res, m)
<1>1. PICK n : n = Len(events) + 1 OBVIOUS
<1>2. /\ n \in Nat /\ \A i \in DOMAIN events : events'[i] = events[i]
      /\ Dated(res)' = Dated(res) \cup (IF e.res = res THEN {n} ELSE {})
      /\ Len(events) \in Nat /\ DOMAIN events = 1 .. Len(events)
  BY <1>1, AddsOne, TypesMean
<1>3. {i \in Dated(res) : i <= m}' = {i \in Dated(res) : i <= m}
  <2>1. ~ (n <= m) BY <1>1, <1>2
  <2> QED BY <1>2, <2>1
<1>4. PICK past : past = {i \in Dated(res) : i <= m} OBVIOUS
<1>5. past # {} => Max(past) \in DOMAIN events
  <2>1. past \in SUBSET (1 .. Len(events)) BY <1>2, <1>4 DEF Dated
  <2> QED BY <1>2, <2>1, MaxIsGreatest
<1> QED BY <1>2, <1>3, <1>4, <1>5 DEF PlanAfter

\* The events of a list, and their places in their ticks, stay when it grows.
LEMMA AddsKeeps ==
    ASSUME TypesInv, NEW e, Adds(e)
    PROVE  EventsKept
<1>1. PICK n : n = Len(events) + 1 OBVIOUS
<1>2. /\ n \in Nat
      /\ \A i \in DOMAIN events : i \in Nat /\ i < n /\ i \in DOMAIN events' /\ events'[i] = events[i]
      /\ \A res : Dated(res)' = Dated(res) \cup (IF e.res = res THEN {n} ELSE {})
      /\ Len(events) \in Nat /\ DOMAIN events = 1 .. Len(events)
  BY <1>1, AddsOne, TypesMean
<1>3. ASSUME NEW i \in DOMAIN events PROVE Before(i)' = Before(i) /\ Nth(i)' = Nth(i)
  <2>1. PICK res, m : res = events[i].res /\ m = i - 1 OBVIOUS
  <2>2. events'[i].res = res /\ i \in Nat /\ i < n /\ ~ (n <= i) /\ events'[i] = events[i]
    BY <1>2, <2>1
  <2>3. m \in Nat /\ m <= Len(events) BY <1>2, <2>1
  <2>4. Before(i)' = Before(i) BY <2>1, <2>2, <2>3, PlanStays DEF Before
  <2>5. {j \in Dated(events[i].res) : j <= i /\ events[j].tick = events[i].tick}'
        = {j \in Dated(events[i].res) : j <= i /\ events[j].tick = events[i].tick}
    BY <1>2, <2>1, <2>2 DEF Dated
  <2> QED BY <2>4, <2>5 DEF Nth
<1> QED BY <1>2, <1>3 DEF EventsKept

\* Documents of events that have been processed stay those of their events.
LEMMA AddsDocs ==
    ASSUME Facts, NEW e, Adds(e), NEW res, DocsInv(res), Turn(res) = {}, Done(res)' = Done(res)
    PROVE  DocsInv(res)'
<1> USE DEF Facts
<1>1. /\ carry \in [Key -> Doc \cup {NoDoc}] /\ EventsKept
      /\ \A k \in Key : carry[k] # NoDoc => carry[k].guid \in DOMAIN events
  BY AddsKeeps, TypesMean DEF CarryOK
<1>2. Apart(res) /\ UNCHANGED <<carry, ledger>> BY DEF Adds, Apart
<1>3. Done(res) \subseteq DOMAIN events BY DEF Done, Dated
<1>4. \A i \in DOMAIN events :
         /\ MonthOfEvent(i)' = MonthOfEvent(i) /\ PartsOf(i)' = PartsOf(i)
         /\ events'[i] = events[i] /\ Nth(i)' = Nth(i)
  BY <1>1, KeptSame
<1>5. Key' = Key /\ \A x : BuildKey(x)' = BuildKey(x) /\ Stored(BuildKey(x))' = Stored(BuildKey(x))
  BY <1>2 DEF Key, Months, MonthOf, MonthLength, BuildKey, Stored
<1>6. ASSUME NEW k \in Key, k[1] = res, carry[k] # NoDoc
      PROVE  /\ (Carried(k) \/ OfEvent(k))'
             /\ Reported([res |-> res, plan |-> k[2], time |-> carry[k].time])'
  <2>1. carry[k].guid \in DOMAIN events BY <1>1, <1>6
  <2>2. Carried(k) => Carried(k)'
    <3>1. StartOf(k[3])' = StartOf(k[3]) BY DEF StartOf, MonthLength
    <3> QED BY <1>2, <1>4, <2>1, <3>1 DEF Carried
  <2>3. OfEvent(k) => OfEvent(k)'
    <3> SUFFICES ASSUME OfEvent(k) PROVE OfEvent(k)' OBVIOUS
    <3> DEFINE i == carry[k].guid
    <3>1. /\ i \in Done(res)
          /\ carry[k].time <= events[i].tick * Gap + 2 * Nth(i)
          /\ \E x \in PartsOf(i) : /\ BuildKey(x) = k
                                   /\ carry[k].state = x.state
                                   /\ x.time <= carry[k].time
      BY <1>6 DEF OfEvent
    <3>2. PartsOf(i)' = PartsOf(i) /\ events'[i] = events[i] /\ Nth(i)' = Nth(i)
      BY <1>2, <1>4, <2>1
    <3>3. i \in Done(res)' \cup Turn(res)' /\ carry'[k] = carry[k] BY <1>2, <3>1
    <3>4. \A x : BuildKey(x)' = BuildKey(x) BY <1>5
    <3> QED BY <1>6, <3>1, <3>2, <3>3, <3>4 DEF OfEvent
  <2>4. Reported([res |-> res, plan |-> k[2], time |-> carry[k].time])
        /\ (Carried(k) \/ OfEvent(k))
    BY <1>6 DEF DocsInv
  <2>5. Reported([res |-> res, plan |-> k[2], time |-> carry[k].time])'
    BY <1>2, <2>4 DEF Reported
  <2> QED BY <2>2, <2>3, <2>4, <2>5
<1>7. ASSUME NEW i \in Done(res)', NEW x \in PartsOf(i)'
      PROVE  (Stored(BuildKey(x)) # NoDoc /\ Stored(BuildKey(x)).guid >= i)'
  <2>1. i \in Done(res) /\ x \in PartsOf(i) BY <1>3, <1>4, <1>7
  <2> QED BY <1>5, <2>1 DEF DocsInv
<1> QED BY <1>2, <1>5, <1>6, <1>7 DEF DocsInv

\* The resources stay as they are when an event is added, of which nothing has been
\* reported.
LEMMA AddsApart ==
    ASSUME Facts, Facts', PollInv, NEW e, Adds(e), NEW res \in Resources, ResInv(res)
    PROVE  ResInv(res)'
<1> USE DEF Facts
<1>1. PICK n : n = Len(events) + 1 OBVIOUS
<1>2. /\ n \in Nat /\ n \notin DOMAIN events
      /\ \A i \in DOMAIN events : i \in Nat /\ i < n
      /\ Dated(res)' = Dated(res) \cup (IF e.res = res THEN {n} ELSE {})
      /\ \A i \in Dated(res) : i \in DOMAIN events
  BY <1>1, AddsOne DEF Dated
<1>3. n \notin settled /\ UNCHANGED <<settled, carry, ledger>> BY <1>2 DEF LedgerInv, Adds
<1>4. Done(res)' = Done(res) BY <1>2, <1>3 DEF Done
<1>5. OrderInv(res)'
  <2> SUFFICES ASSUME NEW i \in Done(res), NEW j \in Dated(res)', j < i PROVE j \in settled
    BY <1>3, <1>4 DEF OrderInv
  <2>1. i \in DOMAIN events /\ i \in Nat /\ i < n BY <1>2 DEF Done
  <2>2. j # n BY <1>2, <2>1
  <2>3. j \in Dated(res) BY <1>2, <2>2
  <2> QED BY <2>3 DEF ResInv, OrderInv
<1>6. EventsKept /\ Apart(res) BY AddsKeeps DEF Apart, Adds
<1>7. TurnKept(res)
  <2>1. CASE Turn(res) # {}
    <3>1. PICK j \in Dated(res) : j \notin settled BY <2>1 DEF Turn
    <3>2. j < n /\ j \in Dated(res)' BY <1>2, <3>1
    <3>3. n \notin Turn(res)' BY <1>3, <3>1, <3>2 DEF Turn
    <3>4. ASSUME NEW i \in Dated(res)
          PROVE  (\A j2 \in Dated(res)' : j2 < i => j2 \in settled)
                 <=> (\A j2 \in Dated(res) : j2 < i => j2 \in settled)
      <4>1. i \in Nat /\ i < n /\ ~ (n < i) BY <1>2
      <4> QED BY <1>2, <4>1
    <3>5. Turn(res)' = Turn(res)
      <4>1. \A i : i \in Turn(res)' <=> i \in Turn(res) BY <1>2, <1>3, <3>3, <3>4 DEF Turn
      <4>2. Turn(res)' \subseteq Dated(res)' /\ Turn(res) \subseteq Dated(res) BY DEF Turn
      <4> QED BY <4>1, <4>2
    <3> QED BY <3>5 DEF TurnKept
  <2>2. CASE Turn(res) = {}
    <3>1. DocsInv(res)' BY <1>4, <2>2, AddsDocs DEF ResInv
    <3>2. Turn(res)' \subseteq {n}
      <4> SUFFICES ASSUME NEW i \in Turn(res)', i # n PROVE FALSE OBVIOUS
      <4>1. i \in Dated(res) /\ i \notin settled BY <1>2, <1>3 DEF Turn
      <4>2. \A j \in Dated(res) : j < i => j \in settled BY <1>2, <1>3 DEF Turn
      <4> QED BY <2>2, <4>1, <4>2 DEF Turn
    <3>3. \A k \in Key' : k[1] = res /\ carry'[k] # NoDoc =>
             carry'[k].guid \notin Turn(res)' \/ MonthOfEvent(carry[k].guid)' < k[3]
      <4>1. Key' = Key BY DEF Key, Months, MonthOf, MonthLength
      <4>2. \A k \in Key : carry[k] # NoDoc => carry[k].guid \in DOMAIN events
        BY TypesMean DEF CarryOK
      <4> QED BY <1>2, <1>3, <3>2, <4>1, <4>2
    <3>4. \A u \in ledger' : u.res = res => Placed(u)'
      <4> TAKE u \in ledger'
      <4> HAVE u.res = res
      <4>1. u \in ledger /\ EntryInv(u) BY <1>3 DEF ResInv
      <4>2. Placed(u) BY <2>2, <4>1 DEF EntryInv, Placed
      <4> QED BY <1>3, <4>2 DEF Placed, Stored, BuildKey, StartOf, MonthOf, MonthLength, Key, Months
    <3>5. \A i \in Turn(res)' : \A x \in PartsOf(i)' : ~ Begun(x, i)'
      BY <1>5, <3>1, <3>3, <3>4, FreshThen
    <3> QED BY <2>2, <3>5 DEF TurnKept
  <2> QED BY <2>1, <2>2
<1> QED BY <1>4, <1>5, <1>6, <1>7, ResStays

\* The event that is added is one that can happen, and its tick has room for it.
LEMMA AddsEvent ==
    ASSUME Facts, NEW res \in Resources, NEW plan \in Plans,
           NEW kind \in {"CREATED", "UPDATED", "DELETED"}, Emit(res, plan, kind),
           NEW e, e = [res |-> res, plan |-> plan, kind |-> kind, tick |-> now], Adds(e)
    PROVE  EventsInv'
<1> USE DEF Facts
<1>1. PICK n : n = Len(events) + 1 OBVIOUS
<1>2. /\ n \in Nat /\ n \notin DOMAIN events /\ DOMAIN events' = 1 .. n /\ DOMAIN events = 1 .. n - 1
      /\ \A i \in DOMAIN events : i \in Nat /\ i < n /\ i \in DOMAIN events' /\ events'[i] = events[i]
      /\ events'[n] = e
      /\ Dated(res)' = Dated(res) \cup {n}
      /\ Len(events) \in Nat /\ n - 1 = Len(events)
  BY <1>1, AddsOne, TypesMean
<1>3. e.res = res /\ e.plan = plan /\ e.kind = kind /\ e.tick = now OBVIOUS
<1>4. EventsKept BY AddsKeeps
<1>5. ASSUME NEW i \in DOMAIN events
      PROVE  (/\ events[i].kind = "CREATED" => Before(i) = NoDoc
              /\ events[i].kind = "DELETED" => Before(i) = events[i].plan
              /\ events[i].kind = "UPDATED" => Before(i) \notin {NoDoc, events[i].plan}
              /\ Nth(i) <= PerTick)'
  BY <1>4 DEF EventsInv, EventsKept
<1>6. Before(n)' = PlanOf(res)
  <2>1. PICK m : m = Len(events) OBVIOUS
  <2>2. Before(n)' = PlanAfter(res, m)' BY <1>2, <1>3, <2>1 DEF Before
  <2>3. PlanAfter(res, m)' = PlanAfter(res, m) BY <1>2, <2>1, PlanStays
  <2> QED BY <2>1, <2>2, <2>3 DEF PlanOf
<1>7. /\ kind = "CREATED" => Before(n)' = NoDoc
      /\ kind = "DELETED" => Before(n)' = plan
      /\ kind = "UPDATED" => Before(n)' \notin {NoDoc, plan}
  BY <1>6 DEF Emit, Happens
<1>8. Nth(n)' <= PerTick
  <2>1. PICK S : S = {i \in Dated(res) : events[i].tick = now} OBVIOUS
  <2>2. IsFiniteSet(S)
    <3>1. IsFiniteSet(DOMAIN events) BY <1>2, FS_Interval
    <3>2. S \in SUBSET DOMAIN events BY <2>1 DEF Dated
    <3> QED BY <3>1, <3>2, FS_Subset
  <2>3. n \notin S BY <1>2, <2>1 DEF Dated
  <2>4. {j \in Dated(events[n].res) : j <= n /\ events[j].tick = events[n].tick}' = S \cup {n}
    <3>1. \A j \in Dated(res) : j <= n /\ events'[j] = events[j] BY <1>2 DEF Dated
    <3>2. n <= n /\ events'[n].tick = now /\ events'[n].res = res BY <1>2, <1>3
    <3>3. {j \in Dated(res)' : j <= n /\ events'[j].tick = now} = S \cup {n}
      BY <1>2, <2>1, <3>1, <3>2
    <3> QED BY <3>2, <3>3
  <2>5. Cardinality(S \cup {n}) = Cardinality(S) + 1 /\ Cardinality(S) \in Nat
    BY <2>2, <2>3, FS_AddElement, FS_CardinalityType
  <2>6. Cardinality(S) < PerTick BY <2>1 DEF Emit
  <2>7. Nth(n)' = Cardinality(S \cup {n}) BY <2>4 DEF Nth
  <2>8. PerTick \in Nat BY Lengths
  <2> QED BY <2>5, <2>6, <2>7, <2>8
<1>9. \A i \in DOMAIN events' : i \in DOMAIN events \/ i = n BY <1>2
<1>10. (/\ events[n].kind = "CREATED" => Before(n) = NoDoc
        /\ events[n].kind = "DELETED" => Before(n) = events[n].plan
        /\ events[n].kind = "UPDATED" => Before(n) \notin {NoDoc, events[n].plan}
        /\ Nth(n) <= PerTick)'
  BY <1>2, <1>3, <1>7, <1>8
<1> QED BY <1>5, <1>9, <1>10 DEF EventsInv

\* An event happens.
LEMMA EmitDue ==
    ASSUME AllInv, TypesInv', PollInv', NEW res \in Resources, NEW plan \in Plans,
           NEW kind \in {"CREATED", "UPDATED", "DELETED"}, Emit(res, plan, kind),
           UNCHANGED renewerVars
    PROVE  DueInv'
<1>1. PICK e : e = [res |-> res, plan |-> plan, kind |-> kind, tick |-> now] OBVIOUS
<1>2. /\ Facts /\ TypesInv /\ PollInv /\ EventsInv /\ LedgerInv /\ ProcessInv /\ CarryingInv /\ AllRes
      /\ now \in Nat
  BY AllMeans, TypesMean
<1>3. /\ Adds(e) /\ UNCHANGED <<renewer, stale, reader, bridge, now, carry, ledger, supported,
                                settled, torn, overlooked>>
  BY <1>1, <1>2 DEF Emit, Adds, carryVars, historyVars, renewerVars, Event, States
<1>4. EventsKept BY <1>2, <1>3, AddsKeeps
<1>5. EventsInv' BY <1>1, <1>2, <1>3, AddsEvent
<1>6. LedgerInv'
  <2>1. /\ DOMAIN events \subseteq DOMAIN events'
        /\ \A i \in DOMAIN events : events'[i] = events[i]
    BY <1>4 DEF EventsKept
  <2> QED BY <1>2, <1>3, <2>1 DEF LedgerInv, Entry, Key, Months, MonthOf, MonthLength
<1>7. Facts' BY <1>5, <1>6 DEF Facts, PollInv
<1>8. \A r : Clean(r)' => Clean(r) BY <1>3, <1>4, CleanBefore
<1>9. ASSUME NEW r \in Resources, Clean(r)' PROVE ResInv(r)'
  <2>1. ResInv(r) BY <1>2, <1>8, <1>9 DEF AllRes
  <2> QED BY <1>2, <1>3, <1>7, <2>1, AddsApart
<1>10. CarryingInv' BY <1>2, <1>3, <1>4, <1>8, CarryingKept
<1>11. ProcessInv' BY <1>2, <1>3, <1>4, <1>8, ProcessKept
<1> QED BY <1>5, <1>6, <1>9, <1>10, <1>11 DEF DueInv

-----------------------------------------------------------------------------
(***************************************************************************)
(* The renewer.                                                            *)
(***************************************************************************)
\* The renewer leaves the bridge and the events alone.
Beside == UNCHANGED <<now, events, supported, reader, bridge, settled, overlooked, torn>>

\* It goes on, and neither reports nor inserts.
LEMMA RenewerIdles ==
    ASSUME AllInv, TypesInv', Beside, UNCHANGED <<carry, ledger, stale>>,
           \A ref \in renewer'.refs :
              ref \in renewer.refs \/ (ref.doc.state = "CREATED" /\ ref.key[3] < Month),
           renewer'.at \in {"finding", "inserting"} =>
              renewer.at \in {"finding", "inserting"} /\ renewer'.job = renewer.job
    PROVE  DueInv'
<1> USE DEF Beside
<1>1. /\ Facts /\ TypesInv /\ EventsInv /\ LedgerInv /\ ProcessInv /\ CarryingInv /\ AllRes
  BY AllMeans
<1>2. AllRes' /\ \A res : Clean(res)' => Clean(res) BY <1>1, ResourcesStay
<1>3. EventsKept /\ EventsInv' BY <1>1, AllKept, EventsInvStays
<1>4. LedgerInv' BY <1>1, LedgerStays DEF LedgerInv
<1>5. ProcessInv' BY <1>1, <1>2, <1>3, ProcessKept
<1>6. Month' = Month BY DEF Month, MonthOf, MonthLength
<1>7. \A ref \in renewer'.refs : ref.doc.state = "CREATED" /\ ref.key[3] < Month'
  BY <1>1, <1>6 DEF CarryingInv
<1>8. ASSUME renewer'.at \in {"finding", "inserting"}, NEW ref, ref = renewer'.job
      PROVE  /\ ref.doc.state = "CREATED" /\ ref.key[3] < Month'
             /\ supported'[ref.key[1]]
             /\ Clean(ref.key[1])' =>
                   /\ Renewed(ref.key[1], ref.key[2], ref.key[3] + 1)'
                   /\ MonthOfEvent(ref.doc.guid)' <= ref.key[3]
  <2>1. /\ ref.doc.state = "CREATED" /\ ref.key[3] < Month
        /\ supported[ref.key[1]]
        /\ Clean(ref.key[1]) =>
                   /\ Renewed(ref.key[1], ref.key[2], ref.key[3] + 1)
                   /\ MonthOfEvent(ref.doc.guid) <= ref.key[3]
    BY <1>1, <1>8 DEF CarryingInv
  <2>2. \A r, p, m : Renewed(r, p, m) => Renewed(r, p, m)' BY DEF Renewed, StartOf, MonthLength
  <2>3. MonthOfEvent(ref.doc.guid)' = MonthOfEvent(ref.doc.guid)
    BY DEF MonthOfEvent, TimeOf, MonthOf, MonthLength
  <2> QED BY <1>2, <1>6, <2>1, <2>2, <2>3
<1>9. CarryingInv' BY <1>7, <1>8 DEF CarryingInv
<1> QED BY <1>2, <1>3, <1>4, <1>5, <1>9 DEF DueInv, AllRes

\* A resource that a step of the renewer is not about stays as it is.
LEMMA ApartStays ==
    ASSUME Facts, UNCHANGED <<events, settled>>, NEW res, Apart(res), ResInv(res)
    PROVE  ResInv(res)'
<1>1. EventsKept BY AllKept
<1>2. Done(res)' = Done(res) /\ Turn(res)' = Turn(res) BY DEF Done, Turn, Dated
<1>3. OrderInv(res)' BY DEF ResInv, OrderInv, Done, Dated
<1> QED BY <1>1, <1>2, <1>3, ResStays DEF TurnKept

\* Pages are read, documents dropped, and runs end.
LEMMA RenewerIdlesDue ==
    ASSUME AllInv, TypesInv', Beside,
           Renew \/ PageDone \/ StartRefused \/ FindDoc \/ InsertConflict \/ RenewFails
           \/ RenewStops
    PROVE  DueInv'
<1>1. UNCHANGED <<carry, ledger, stale>>
  BY DEF Renew, PageDone, StartRefused, FindDoc, InsertConflict, RenewFails, RenewStops, carryVars
<1>2. renewer \in Renewing BY DEF AllInv, TypesInv, RenewerInv
<1>3. CASE renewer' = Waiting BY <1>1, <1>3, RenewerIdles DEF Waiting
<1>4. ASSUME NEW read, ReadPageFrom(read) PROVE DueInv'
  <2>1. CASE renewer' = Waiting BY <1>3, <2>1
  <2>2. CASE renewer' # Waiting
    <3>1. /\ renewer'.at = "getting"
          /\ \A ref \in renewer'.refs :
                ref.doc.state = "CREATED" /\ \E k \in DocsOf(Month - 1) : ref = Reference(k)
      BY <1>4, <2>2 DEF ReadPageFrom, Waiting, IsSupported
    <3>2. now \in Nat /\ Month \in Nat
      <4>1. TypesInv BY DEF AllInv
      <4> QED BY <4>1, TypesMean, MonthIs
    <3>3. \A ref \in renewer'.refs : ref.key[3] < Month
      <4> TAKE ref \in renewer'.refs
      <4>1. ref.key[3] = Month - 1 BY <3>1 DEF DocsOf, Reference
      <4> QED BY <3>2, <4>1
    <3> QED BY <1>1, <3>1, <3>3, RenewerIdles
  <2> QED BY <2>1, <2>2
<1>5. ASSUME NEW ref, Drop(ref), renewer.at = "getting" PROVE DueInv'
  <2>1. renewer'.at = "getting" /\ renewer'.refs \subseteq renewer.refs
    BY <1>2, <1>5 DEF Drop, Renewing
  <2> QED BY <1>1, <2>1, RenewerIdles
<1>6. ASSUME JobDone PROVE DueInv'
  <2>1. renewer'.at = "getting" /\ renewer'.refs = renewer.refs
    BY <1>2, <1>6 DEF JobDone, Renewing
  <2> QED BY <1>1, <2>1, RenewerIdles
<1>7. CASE renewer.at = "finding" /\ renewer' = [renewer EXCEPT !.at = "inserting"]
  <2>1. renewer'.job = renewer.job /\ renewer'.refs = renewer.refs
    BY <1>2, <1>7 DEF Renewing
  <2> QED BY <1>1, <1>7, <2>1, RenewerIdles
<1>8. CASE Renew BY <1>4, <1>8 DEF Renew
<1>9. CASE PageDone BY <1>3, <1>4, <1>9 DEF PageDone
<1>10. CASE StartRefused BY <1>5, <1>10 DEF StartRefused
<1>11. CASE FindDoc BY <1>6, <1>7, <1>11 DEF FindDoc
<1>12. CASE InsertConflict BY <1>6, <1>12 DEF InsertConflict
<1>13. CASE RenewFails BY <1>5, <1>6, <1>13 DEF RenewFails
<1>14. CASE RenewStops BY <1>3, <1>14 DEF RenewStops
<1> QED BY <1>8, <1>9, <1>10, <1>11, <1>12, <1>13, <1>14

\* The usage with which a month starts.
LEMMA StartIs ==
    ASSUME TypesInv, NEW ref \in DocRef, ref.key[3] < Month, NEW usage, usage = StartUsage(ref)
    PROVE  /\ ref.key \in Key /\ ref.key[1] \in Resources /\ ref.key[2] \in Plans
           /\ ref.doc \in Doc /\ ref.doc # NoDoc
           /\ ref.key[3] \in Nat /\ ref.key[3] + 1 \in Months \ {0} /\ ref.key[3] + 1 \in Nat
           /\ usage.res = ref.key[1] /\ usage.plan = ref.key[2] /\ usage.state = "CREATED"
           /\ usage.time = StartOf(ref.key[3] + 1) /\ usage.time \in Nat
           /\ MonthOf(usage.time) = ref.key[3] + 1
           /\ BuildKey(usage) = <<ref.key[1], ref.key[2], ref.key[3] + 1>>
           /\ BuildKey(usage) \in Key
<1>1. /\ ref.key \in Key /\ ref.key[1] \in Resources /\ ref.key[2] \in Plans
      /\ ref.key[3] \in Months /\ ref.doc \in Doc
  BY DEF DocRef, Key
<1>2. ref.doc # NoDoc BY <1>1, CarryOverAssumption DEF Doc, States
<1>3. now \in 0 .. Horizon BY DEF TypesInv, TypeOK
<1>4. Months = 0 .. (Horizon \div MonthTicks) /\ Month \in Months /\ Horizon \div MonthTicks \in Nat
  BY <1>3, MonthsReached
<1>5. PICK m : m = ref.key[3] OBVIOUS
<1>6. m \in Nat /\ m + 1 \in Months \ {0} /\ m + 1 \in Nat BY <1>1, <1>4, <1>5
<1>7. StartOf(m + 1) \in Nat /\ MonthOf(StartOf(m + 1)) = m + 1 BY <1>6, StartOfMonth
<1>8. usage = [res |-> ref.key[1], plan |-> ref.key[2], state |-> "CREATED",
               time |-> StartOf(m + 1)]
  BY <1>5 DEF StartUsage
<1>9. /\ usage.res = ref.key[1] /\ usage.plan = ref.key[2] /\ usage.state = "CREATED"
      /\ usage.time = StartOf(m + 1)
  BY <1>8
<1>10. BuildKey(usage) = <<ref.key[1], ref.key[2], m + 1>> BY <1>7, <1>9 DEF BuildKey
<1>11. BuildKey(usage) \in Key BY <1>1, <1>6, <1>10 DEF Key
<1> QED BY <1>1, <1>2, <1>5, <1>6, <1>7, <1>9, <1>10, <1>11

\* A resource that runs is renewed: what it amounts to in the month, and what is
\* due, is one more.
LEMMA StartCounts ==
    ASSUME Facts, UNCHANGED <<events, settled, carry>>, NEW res \in Resources, ResInv(res),
           NEW plan \in Plans, NEW month \in Months \ {0}, RunsSettled(res, plan, month - 1),
           NEW e \in Entry, e.res = res, e.plan = plan, e.time = StartOf(month), e.adds = 1,
           ~ Renewed(res, plan, month), ledger' = ledger \cup {e}
    PROVE  ResInv(res)'
<1> USE DEF Facts
<1>1. /\ Dated(res)' = Dated(res) /\ Done(res)' = Done(res) /\ Turn(res)' = Turn(res) /\ EventsKept
      /\ Turn(res) \subseteq DOMAIN events /\ Done(res) \subseteq DOMAIN events
  BY AllKept DEF Dated, Done, Turn
<1>2. /\ Months \subseteq Nat /\ month \in Nat /\ MonthOf(StartOf(month)) = month
      /\ \A m \in Nat : StartOf(m) = StartOf(month) => m = month
  <2>1. Months \subseteq Nat BY MonthsReached
  <2> QED BY <2>1, StartOfMonth
<1>3. \A i \in DOMAIN events :
         /\ MonthOfEvent(i)' = MonthOfEvent(i) /\ PartsOf(i)' = PartsOf(i)
         /\ events'[i] = events[i] /\ Nth(i)' = Nth(i)
  BY <1>1, KeptSame
<1>4. /\ \A x : BuildKey(x)' = BuildKey(x) /\ Stored(BuildKey(x))' = Stored(BuildKey(x))
      /\ \A x, i : (Written(x, i)' <=> Written(x, i)) /\ AdjustTimestamp(x, i)' = AdjustTimestamp(x, i)
      /\ Key' = Key /\ Months' = Months
  BY DEF Written, AdjustTimestamp, Stored, BuildKey, Key, Months, MonthOf, MonthLength
<1>5. \A usage : Reported(usage) => Reported(usage)' BY DEF Reported
<1>6. ASSUME NEW i \in Turn(res), NEW x \in PartsOf(i)
      PROVE  Begun(x, i)' <=> Begun(x, i)
  <2>1. PICK a : a = AdjustTimestamp(x, i) OBVIOUS
  <2>2. a.time # StartOf(month)
    <3>1. OrderInv(res) /\ DocsInv(res) BY DEF ResInv
    <3> QED BY <1>2, <2>1, <3>1, Moved
  <2>3. Reported(a)' <=> Reported(a) BY <2>2 DEF Reported
  <2>4. AdjustTimestamp(x, i)' = a BY <1>4, <2>1
  <2> QED BY <1>4, <2>1, <2>3, <2>4 DEF Begun
<1>7. \A p, m : RunsSettled(res, p, m)' <=> RunsSettled(res, p, m) BY <1>1, SettledSame
<1>8. \A p, m, state : HalfDone(res, p, m, state)' <=> HalfDone(res, p, m, state)
  <2> TAKE p, m, state
  <2> DEFINE H(x, i) == x.plan = p /\ x.state = state /\ MonthOf(x.time) = m
  <2>1. HalfDone(res, p, m, state) <=>
           \E i \in Turn(res) : \E x \in PartsOf(i) : H(x, i) /\ Begun(x, i)
    BY DEF HalfDone
  <2>2. HalfDone(res, p, m, state)' <=>
           \E i \in Turn(res)' : \E x \in PartsOf(i)' : H(x, i) /\ Begun(x, i)'
    BY DEF HalfDone, MonthOf, MonthLength
  <2> HIDE DEF H
  <2> QED BY <1>1, <1>3, <1>6, <2>1, <2>2
<1>9. SumInv(res)'
  <2>1. ASSUME NEW p \in Plans, NEW m \in Months
        PROVE  Running(res, p, m)' = DueSettled(res, p, m)'
                                     + One(HalfDone(res, p, m, "CREATED"))
                                     - One(HalfDone(res, p, m, "DELETED"))
    <3>1. e \notin ledger BY DEF Renewed
    <3>2. /\ Running(res, p, m) \in Int
          /\ Running(res, p, m)' = Running(res, p, m)
                + (IF e.res = res /\ e.plan = p /\ MonthOf(e.time) = m THEN e.adds ELSE 0)
      BY <3>1, RunningGrows DEF LedgerInv
    <3>3. Running(res, p, m)' = Running(res, p, m) + One(p = plan /\ m = month)
      BY <1>2, <3>2 DEF One
    <3>4. Renewed(res, p, m)' <=> Renewed(res, p, m) \/ (p = plan /\ m = month)
      <4>1. StartOf(m)' = StartOf(m) BY DEF StartOf, MonthLength
      <4>2. m \in Nat BY <1>2
      <4> QED BY <1>2, <4>1, <4>2 DEF Renewed
    <3>5. DueSettled(res, p, m)' = DueSettled(res, p, m) + One(p = plan /\ m = month)
      <4>1. m \in Nat BY <1>2
      <4>2. CASE p = plan /\ m = month
        BY <1>2, <1>7, <3>4, <4>2 DEF DueSettled, One
      <4>3. CASE ~ (p = plan /\ m = month)
        BY <1>2, <1>7, <3>4, <4>3 DEF DueSettled, One
      <4> QED BY <4>2, <4>3
    <3>6. Running(res, p, m) = DueSettled(res, p, m)
                               + One(HalfDone(res, p, m, "CREATED"))
                               - One(HalfDone(res, p, m, "DELETED"))
      BY DEF ResInv, SumInv
    <3>7. DueSettled(res, p, m) \in Int /\ \A b : One(b) \in Int BY DEF DueSettled, One
    <3> QED BY <3>2, <3>3, <3>5, <3>6, <3>7
  <2> QED BY <1>4, <1>8, <2>1 DEF SumInv, One
<1>10. DocsInv(res)'
  <2>1. ASSUME NEW k \in Key, k[1] = res, carry[k] # NoDoc
        PROVE  /\ (Carried(k) \/ OfEvent(k))'
               /\ Reported([res |-> res, plan |-> k[2], time |-> carry[k].time])'
    <3>1. Carried(k) => Carried(k)'
      BY DEF Carried, StartOf, MonthLength, MonthOfEvent, TimeOf, MonthOf
    <3>2. OfEvent(k) => OfEvent(k)'
      <4> SUFFICES ASSUME OfEvent(k) PROVE OfEvent(k)' OBVIOUS
      <4>1. PICK i : i = carry[k].guid OBVIOUS
      <4>2. /\ i \in Done(res) \cup Turn(res)
            /\ carry[k].time <= events[i].tick * Gap + 2 * Nth(i)
            /\ \E x \in PartsOf(i) : /\ BuildKey(x) = k
                                     /\ carry[k].state = x.state
                                     /\ x.time <= carry[k].time
        BY <2>1, <4>1 DEF OfEvent
      <4>3. PartsOf(i)' = PartsOf(i) /\ events'[i] = events[i] /\ Nth(i)' = Nth(i)
        BY <1>1, <1>3, <4>2
      <4>4. \A x : BuildKey(x)' = BuildKey(x) BY <1>4
      <4> QED BY <1>1, <2>1, <4>1, <4>2, <4>3, <4>4 DEF OfEvent
    <3>3. (Carried(k) \/ OfEvent(k)) /\ Reported([res |-> res, plan |-> k[2], time |-> carry[k].time])
      BY <2>1 DEF ResInv, DocsInv
    <3>4. Reported([res |-> res, plan |-> k[2], time |-> carry[k].time])'
      BY <3>3 DEF Reported
    <3> QED BY <3>1, <3>2, <3>3, <3>4
  <2>2. ASSUME NEW i \in Done(res)', NEW x \in PartsOf(i)'
        PROVE  (Stored(BuildKey(x)) # NoDoc /\ Stored(BuildKey(x)).guid >= i)'
    <3>1. i \in Done(res) /\ x \in PartsOf(i) BY <1>1, <1>3, <2>2
    <3> QED BY <1>4, <3>1 DEF ResInv, DocsInv
  <2> QED BY <1>4, <2>1, <2>2 DEF DocsInv
<1>11. ASSUME NEW u \in ledger', u.res = res PROVE EntryInv(u)'
  <2>1. /\ MonthOf(u.time)' = MonthOf(u.time) /\ StartOf(MonthOf(u.time))' = StartOf(MonthOf(u.time))
    BY DEF MonthOf, StartOf, MonthLength
  <2>2. CASE u \in ledger
    <3>1. EntryInv(u) BY <1>11, <2>2 DEF ResInv
    <3>2. CASE u.time = StartOf(MonthOf(u.time))
      BY <1>4, <1>7, <1>11, <2>1, <3>1, <3>2 DEF EntryInv
    <3>3. CASE u.time # StartOf(MonthOf(u.time))
      <4>1. \/ Stored(BuildKey(u)) # NoDoc /\ u.time <= Stored(BuildKey(u)).time
            \/ \E i \in Turn(res) : \E x \in PartsOf(i) :
                  u.plan = x.plan /\ u.time = AdjustTimestamp(x, i).time
        BY <1>11, <3>1, <3>3 DEF EntryInv
      <4>2. \/ (Stored(BuildKey(u)) # NoDoc /\ u.time <= Stored(BuildKey(u)).time)'
            \/ (\E i \in Turn(res) : \E x \in PartsOf(i) :
                  u.plan = x.plan /\ u.time = AdjustTimestamp(x, i).time)'
        BY <1>1, <1>3, <1>4, <4>1
      <4> QED BY <1>11, <2>1, <3>3, <4>2 DEF EntryInv
    <3> QED BY <3>2, <3>3
  <2>3. CASE u = e
    BY <1>2, <1>4, <1>7, <2>1, <2>3 DEF EntryInv
  <2> QED BY <2>2, <2>3
<1>12. OrderInv(res)' BY <1>1 DEF ResInv, OrderInv
<1> QED BY <1>9, <1>10, <1>11, <1>12 DEF ResInv

\* A document that is carried over says that its resource runs, if that is clean.
LEMMA RunsOn ==
    ASSUME AllInv, NEW ref \in DocRef, ref.key[3] < Month, ref.doc.state = "CREATED",
           NEW res, res = ref.key[1], NEW plan, plan = ref.key[2],
           NEW month, month = ref.key[3] + 1,
           UNCHANGED <<events, settled, carry>>, ledger \subseteq ledger',
           res \in stale' \/ carry[ref.key] = ref.doc, Renewed(res, plan, month)', Clean(res)',
           Clean(res)
    PROVE  RunsSettled(res, plan, month - 1) /\ MonthOfEvent(ref.doc.guid) <= ref.key[3]
<1>1. Facts /\ TypesInv /\ AllRes BY AllMeans
<1>2. /\ ref.key \in Key /\ res \in Resources /\ plan \in Plans
      /\ ref.doc # NoDoc /\ ref.key[3] \in Nat /\ month \in Months \ {0} /\ month \in Nat
      /\ month - 1 = ref.key[3]
  BY <1>1, StartIs
<1>3. carry[ref.key] = ref.doc BY DEF Clean
<1>4. ASSUME NEW i \in Dated(res) \ settled PROVE ~ (MonthOfEvent(i) <= ref.key[3])
  <2>1. i \in DOMAIN events /\ events[i].res = res /\ i \in Dated(res)' \ settled'
    BY DEF Dated
  <2>2. ~ Overtaken(i)' BY <2>1 DEF Clean, Late
  <2>3. MonthOf(TimeOf(i))' = MonthOfEvent(i) /\ Months' = Months /\ events'[i].res = res
    BY <2>1 DEF MonthOfEvent, TimeOf, MonthOf, MonthLength, Months
  <2>4. ~ (month > MonthOfEvent(i)) BY <1>2, <2>2, <2>3 DEF Overtaken
  <2>5. MonthOfEvent(i) \in Nat BY <1>1, <2>1, EventIs DEF Facts
  <2> QED BY <1>2, <2>4, <2>5
<1>5. ResInv(res) BY <1>1, <1>2 DEF AllRes
<1>6. /\ carry[ref.key].state = "CREATED" <=> RunsSettled(res, ref.key[2], ref.key[3])
      /\ MonthOfEvent(carry[ref.key].guid) <= ref.key[3]
  BY <1>1, <1>2, <1>3, <1>4, <1>5, DocSaysRuns
<1> QED BY <1>2, <1>3, <1>6

\* The start of a month is reported for a resource.
LEMMA ReportStartDue ==
    ASSUME AllInv, TypesInv', Beside, ReportStart
    PROVE  DueInv'
<1> USE DEF Beside
<1>1. PICK ref \in renewer.refs :
         /\ supported[ref.key[1]] /\ Accumulate(StartUsage(ref)) /\ Take(ref)
         /\ stale' = IF carry[ref.key] # ref.doc THEN stale \cup {ref.key[1]} ELSE stale
  BY DEF ReportStart
<1>2. PICK res, plan, month, usage :
         /\ res = ref.key[1] /\ plan = ref.key[2] /\ month = ref.key[3] + 1
         /\ usage = StartUsage(ref)
  OBVIOUS
<1>3. /\ Facts /\ TypesInv /\ EventsInv /\ LedgerInv /\ ProcessInv /\ CarryingInv /\ AllRes
      /\ now \in Nat
  BY AllMeans, TypesMean
<1>4. /\ renewer \in Renewing /\ ref \in DocRef /\ ref.doc.guid \in DOMAIN events
      /\ ref.doc.state = "CREATED" /\ ref.key[3] < Month
  BY <1>3 DEF TypesInv, RenewerInv, Renewing, CarryingInv
<1>5. /\ res \in Resources /\ plan \in Plans /\ month \in Months \ {0} /\ month \in Nat
      /\ usage.res = res /\ usage.plan = plan /\ usage.state = "CREATED"
      /\ usage.time = StartOf(month) /\ usage.time \in Nat
  BY <1>2, <1>3, <1>4, StartIs
<1>6. UNCHANGED carry /\ stale \subseteq stale' BY <1>1 DEF ReportStart
<1>7. /\ \/ Reported(usage) /\ ledger' = ledger
         \/ /\ ~ Reported(usage) /\ ledger' = ledger \cup {EntryOf(usage)}
            /\ EntryOf(usage) \notin ledger
      /\ ledger' \subseteq Entry /\ IsFiniteSet(ledger') /\ ledger \subseteq ledger'
      /\ EntryOf(usage) \in Entry /\ Reported(usage)'
      /\ \A u : u.res # res => (u \in ledger' <=> u \in ledger)
  BY <1>1, <1>2, <1>3, <1>5, Accumulates
<1>8. Renewed(res, plan, month)' /\ (Reported(usage) <=> Renewed(res, plan, month))
  <2>1. StartOf(month)' = StartOf(month) BY DEF StartOf, MonthLength
  <2>2. Reported(usage)' BY <1>7
  <2> QED BY <1>5, <2>1, <2>2 DEF Reported, Renewed
<1>9. EventsKept /\ EventsInv' BY <1>3, AllKept, EventsInvStays
<1>10. \A r : Clean(r)' => Clean(r) BY <1>6, <1>7, <1>9, CleanBefore
<1>11. LedgerInv'
  BY <1>3, <1>6, <1>7 DEF LedgerInv, Entry, Key, Months, MonthOf, MonthLength
<1>12. Clean(res)' =>
          RunsSettled(res, plan, month - 1) /\ MonthOfEvent(ref.doc.guid) <= ref.key[3]
  <2> HAVE Clean(res)'
  <2>1. Clean(res) BY <1>10
  <2>2. res \in stale' \/ carry[ref.key] = ref.doc BY <1>1, <1>2
  <2> QED BY <1>2, <1>4, <1>6, <1>7, <1>8, <2>1, <2>2, RunsOn
<1>13. ASSUME NEW r \in Resources, Clean(r)' PROVE ResInv(r)'
  <2>1. ResInv(r) BY <1>3, <1>10, <1>13 DEF AllRes
  <2>2. CASE r # res \/ ledger' = ledger
    <3>1. Apart(r) BY <1>6, <1>7, <2>2 DEF Apart
    <3> QED BY <1>3, <2>1, <3>1, ApartStays
  <2>3. CASE r = res /\ ledger' # ledger
    <3>1. PICK e : e = EntryOf(usage) OBVIOUS
    <3>2. /\ e \in Entry /\ e.res = res /\ e.plan = plan /\ e.time = StartOf(month) /\ e.adds = 1
      BY <1>5, <1>7, <3>1 DEF EntryOf, Instances
    <3>3. ~ Renewed(res, plan, month) /\ ledger' = ledger \cup {e} BY <1>7, <1>8, <2>3, <3>1
    <3>4. RunsSettled(res, plan, month - 1) BY <1>12, <1>13, <2>3
    <3> QED BY <1>3, <1>5, <1>6, <2>1, <2>3, <3>2, <3>3, <3>4, StartCounts
  <2> QED BY <2>2, <2>3
<1>14. ProcessInv' BY <1>3, <1>6, <1>7, <1>9, <1>10, ProcessKept
<1>15. CarryingInv'
  <2>1. Month' = Month BY DEF Month, MonthOf, MonthLength
  <2>2. /\ renewer'.at = "finding" /\ renewer'.job = ref /\ renewer'.refs \subseteq renewer.refs
    BY <1>1, <1>4 DEF Take, Renewing
  <2>3. \A r \in renewer'.refs : r.doc.state = "CREATED" /\ r.key[3] < Month'
    BY <1>3, <2>1, <2>2 DEF CarryingInv
  <2>4. /\ ref.doc.state = "CREATED" /\ ref.key[3] < Month' /\ supported'[ref.key[1]]
    BY <1>1, <1>4, <2>1
  <2>5. Clean(ref.key[1])' =>
           /\ Renewed(ref.key[1], ref.key[2], ref.key[3] + 1)'
           /\ MonthOfEvent(ref.doc.guid)' <= ref.key[3]
    <3>1. MonthOfEvent(ref.doc.guid)' = MonthOfEvent(ref.doc.guid)
      BY DEF MonthOfEvent, TimeOf, MonthOf, MonthLength
    <3> QED BY <1>2, <1>8, <1>12, <3>1
  <2> QED BY <2>2, <2>3, <2>4, <2>5 DEF CarryingInv
<1> QED BY <1>9, <1>11, <1>13, <1>14, <1>15 DEF DueInv

\* A document is inserted under a key that had none, of an event of an earlier
\* month.
Inserts(k, doc) ==
    /\ UNCHANGED <<events, settled, ledger>>
    /\ k \in Key /\ carry[k] = NoDoc /\ carry' = [carry EXCEPT ![k] = doc]
    /\ doc \in Doc /\ doc.guid \in DOMAIN events /\ doc.state = "CREATED"
    /\ doc.time = StartOf(k[3]) /\ MonthOfEvent(doc.guid) < k[3]

\* What that changes of a usage.
LEMMA InsertChanges ==
    ASSUME Facts, NEW res \in Resources, ResInv(res), NEW k, NEW doc, Inserts(k, doc), k[1] = res,
           NEW i \in Done(res) \cup Turn(res), NEW x \in PartsOf(i)
    PROVE  /\ i \in DOMAIN events /\ i \in Nat
           /\ AdjustTimestamp(x, i)' = AdjustTimestamp(x, i)
           /\ (Written(x, i)' <=> Written(x, i)) /\ (Begun(x, i)' <=> Begun(x, i))
           /\ BuildKey(x)' = BuildKey(x)
           /\ BuildKey(x) # k => Stored(BuildKey(x))' = Stored(BuildKey(x))
           /\ BuildKey(x) = k => Stored(k)' = doc /\ doc.guid < i /\ i \notin Done(res)
<1> USE DEF Facts
<1>1. i \in DOMAIN events /\ i \in Nat
  <2>1. i \in DOMAIN events BY DEF Done, Turn, Dated
  <2> QED BY <2>1, EventIs
<1>2. /\ x \in Usages /\ x.time \in Nat /\ BuildKey(x) = <<events[i].res, x.plan, MonthOfEvent(i)>>
      /\ MonthOfEvent(i) \in Nat /\ StartOf(MonthOfEvent(i)) < x.time
      /\ StartOf(MonthOfEvent(i)) \in Nat
  BY <1>1, PartsAre, PartTimes, EventIs, StartOfMonth
<1>3. /\ carry \in [Key -> Doc \cup {NoDoc}] /\ UNCHANGED <<events, settled, ledger>>
      /\ k \in Key /\ carry[k] = NoDoc /\ carry'[k] = doc /\ doc # NoDoc
      /\ \A key : key # k => Stored(key)' = Stored(key)
      /\ Stored(k) = NoDoc /\ Stored(k)' = doc
  <2>1. carry \in [Key -> Doc \cup {NoDoc}] BY TypesMean DEF CarryOK
  <2>2. doc # NoDoc BY CarryOverAssumption DEF Inserts, Doc, States
  <2> QED BY <2>1, <2>2 DEF Inserts, Stored, Key, Months, MonthOf, MonthLength
<1>4. /\ \A y : BuildKey(y)' = BuildKey(y) BY DEF BuildKey, MonthOf, MonthLength
<1>5. CASE BuildKey(x) # k
  <2>1. Stored(BuildKey(x))' = Stored(BuildKey(x)) BY <1>3, <1>4, <1>5
  <2>2. AdjustTimestamp(x, i)' = AdjustTimestamp(x, i) /\ (Written(x, i)' <=> Written(x, i))
    BY <2>1 DEF AdjustTimestamp, Written
  <2>3. Begun(x, i)' <=> Begun(x, i) BY <1>3, <2>2 DEF Begun, Reported
  <2> QED BY <1>1, <1>4, <1>5, <2>1, <2>2, <2>3
<1>6. CASE BuildKey(x) = k
  <2>1. k[3] = MonthOfEvent(i) BY <1>2, <1>6
  <2>2. doc.guid < i BY <1>1, <2>1, EventsInOrder DEF Inserts
  <2>3. doc.guid # i /\ doc.time < x.time BY <1>1, <1>2, <2>1, <2>2 DEF Inserts
  <2>4. Stored(BuildKey(x)) = NoDoc /\ Stored(BuildKey(x))' = doc BY <1>3, <1>4, <1>6
  <2>5. doc.time \in Nat BY DEF Inserts, Doc
  <2>6. ~ (doc.time >= x.time) BY <1>2, <2>3, <2>5
  <2>7. AdjustTimestamp(x, i) = x /\ AdjustTimestamp(x, i)' = x
    BY <2>4, <2>6 DEF AdjustTimestamp
  <2>8. ~ Written(x, i) /\ ~ Written(x, i)' BY <2>3, <2>4 DEF Written
  <2>9. Begun(x, i)' <=> Begun(x, i) BY <1>3, <2>7, <2>8 DEF Begun, Reported
  <2>10. i \notin Done(res) BY <2>4 DEF ResInv, DocsInv
  <2> QED BY <1>1, <1>3, <1>4, <1>6, <2>2, <2>7, <2>8, <2>9, <2>10
<1> QED BY <1>5, <1>6

\* A resource that has been renewed gets the document of its month.
LEMMA InsertCarries ==
    ASSUME Facts, NEW res \in Resources, ResInv(res), NEW k, NEW doc, Inserts(k, doc), k[1] = res,
           Renewed(res, k[2], k[3])
    PROVE  ResInv(res)'
<1> USE DEF Facts
<1>1. /\ Dated(res)' = Dated(res) /\ Done(res)' = Done(res) /\ Turn(res)' = Turn(res) /\ EventsKept
      /\ Turn(res) \subseteq DOMAIN events /\ Done(res) \subseteq DOMAIN events
      /\ UNCHANGED <<events, settled, ledger>>
  BY AllKept DEF Dated, Done, Turn, Inserts
<1>2. \A i \in DOMAIN events :
         /\ MonthOfEvent(i)' = MonthOfEvent(i) /\ PartsOf(i)' = PartsOf(i)
         /\ events'[i] = events[i] /\ Nth(i)' = Nth(i)
  BY <1>1, KeptSame
<1>3. /\ carry \in [Key -> Doc \cup {NoDoc}] /\ k \in Key /\ carry[k] = NoDoc /\ carry'[k] = doc
      /\ \A key \in Key : key # k => carry'[key] = carry[key]
      /\ \A key : key # k => Stored(key)' = Stored(key)
      /\ Stored(k) = NoDoc
      /\ Key' = Key /\ Months' = Months /\ \A x : BuildKey(x)' = BuildKey(x)
  <2>1. carry \in [Key -> Doc \cup {NoDoc}] BY TypesMean DEF CarryOK
  <2> QED BY <2>1 DEF Inserts, Stored, Key, Months, MonthOf, MonthLength, BuildKey
<1>4. \A i \in Done(res) \cup Turn(res) : \A x \in PartsOf(i) :
         /\ AdjustTimestamp(x, i)' = AdjustTimestamp(x, i)
         /\ Begun(x, i)' <=> Begun(x, i)
         /\ BuildKey(x) # k => Stored(BuildKey(x))' = Stored(BuildKey(x))
         /\ BuildKey(x) = k => i \notin Done(res)
  BY InsertChanges
<1>5. SumInv(res)'
  <2>1. \A p, m, state : HalfDone(res, p, m, state)' <=> HalfDone(res, p, m, state)
    <3> TAKE p, m, state
    <3> DEFINE H(x, i) == x.plan = p /\ x.state = state /\ MonthOf(x.time) = m
    <3>1. HalfDone(res, p, m, state) <=>
             \E i \in Turn(res) : \E x \in PartsOf(i) : H(x, i) /\ Begun(x, i)
      BY DEF HalfDone
    <3>2. HalfDone(res, p, m, state)' <=>
             \E i \in Turn(res)' : \E x \in PartsOf(i)' : H(x, i) /\ Begun(x, i)'
      BY DEF HalfDone, MonthOf, MonthLength
    <3> HIDE DEF H
    <3> QED BY <1>1, <1>2, <1>4, <3>1, <3>2
  <2>2. \A p, m : RunsSettled(res, p, m)' <=> RunsSettled(res, p, m) BY <1>1, SettledSame
  <2>3. \A p, m : /\ Running(res, p, m)' = Running(res, p, m)
                  /\ Renewed(res, p, m)' <=> Renewed(res, p, m)
    BY <1>1, RunningStays DEF Renewed, StartOf, MonthLength
  <2>4. \A p, m : DueSettled(res, p, m)' = DueSettled(res, p, m)
    BY <2>2, <2>3 DEF DueSettled, One
  <2>5. SumInv(res) BY DEF ResInv
  <2> QED BY <1>3, <2>1, <2>3, <2>4, <2>5 DEF SumInv, One
<1>6. DocsInv(res)'
  <2>1. ASSUME NEW key \in Key, key[1] = res, carry'[key] # NoDoc
        PROVE  /\ (Carried(key) \/ OfEvent(key))'
               /\ Reported([res |-> res, plan |-> key[2], time |-> carry[key].time])'
    <3>1. CASE key = k
      <4>1. StartOf(k[3])' = StartOf(k[3]) /\ \A i : MonthOfEvent(i)' = MonthOfEvent(i)
        BY <1>1 DEF StartOf, MonthLength, MonthOfEvent, TimeOf, MonthOf
      <4>2. doc.time = StartOf(k[3]) /\ doc.state = "CREATED" /\ MonthOfEvent(doc.guid) < k[3]
        BY DEF Inserts
      <4>3. Carried(key)' BY <1>3, <3>1, <4>1, <4>2 DEF Carried
      <4>4. Reported([res |-> res, plan |-> k[2], time |-> doc.time])
        BY <4>2 DEF Renewed, Reported
      <4>5. Reported([res |-> res, plan |-> key[2], time |-> carry[key].time])'
        BY <1>1, <1>3, <3>1, <4>4 DEF Reported
      <4> QED BY <4>3, <4>5
    <3>2. CASE key # k
      <4>1. carry'[key] = carry[key] /\ carry[key] # NoDoc BY <1>3, <2>1, <3>2
      <4>2. carry[key].guid \in DOMAIN events BY <4>1, TypesMean DEF CarryOK
      <4>3. Carried(key) => Carried(key)'
        <5>1. StartOf(key[3])' = StartOf(key[3]) BY DEF StartOf, MonthLength
        <5> QED BY <1>2, <4>1, <4>2, <5>1 DEF Carried
      <4>4. OfEvent(key) => OfEvent(key)'
        <5> SUFFICES ASSUME OfEvent(key) PROVE OfEvent(key)' OBVIOUS
        <5>1. PICK i : i = carry[key].guid OBVIOUS
        <5>2. /\ i \in Done(res) \cup Turn(res)
              /\ carry[key].time <= events[i].tick * Gap + 2 * Nth(i)
              /\ \E x \in PartsOf(i) : /\ BuildKey(x) = key
                                       /\ carry[key].state = x.state
                                       /\ x.time <= carry[key].time
          BY <2>1, <5>1 DEF OfEvent
        <5>3. PartsOf(i)' = PartsOf(i) /\ events'[i] = events[i] /\ Nth(i)' = Nth(i)
          BY <1>2, <4>2, <5>1
        <5>4. \A x : BuildKey(x)' = BuildKey(x) BY <1>3
        <5> QED BY <1>1, <2>1, <4>1, <5>1, <5>2, <5>3, <5>4 DEF OfEvent
      <4>5. /\ Carried(key) \/ OfEvent(key)
            /\ Reported([res |-> res, plan |-> key[2], time |-> carry[key].time])
        BY <2>1, <4>1 DEF ResInv, DocsInv
      <4>6. Reported([res |-> res, plan |-> key[2], time |-> carry[key].time])'
        BY <1>1, <4>1, <4>5 DEF Reported
      <4> QED BY <4>3, <4>4, <4>5, <4>6
    <3> QED BY <3>1, <3>2
  <2>2. ASSUME NEW i \in Done(res)', NEW x \in PartsOf(i)'
        PROVE  (Stored(BuildKey(x)) # NoDoc /\ Stored(BuildKey(x)).guid >= i)'
    <3>1. i \in Done(res) /\ x \in PartsOf(i) BY <1>1, <1>2, <2>2
    <3>2. Stored(BuildKey(x))' = Stored(BuildKey(x)) BY <1>4, <3>1
    <3> QED BY <3>1, <3>2 DEF ResInv, DocsInv
  <2> QED BY <1>3, <2>1, <2>2 DEF DocsInv
<1>7. ASSUME NEW u \in ledger', u.res = res PROVE EntryInv(u)'
  <2>1. u \in ledger /\ EntryInv(u) BY <1>1, <1>7 DEF ResInv
  <2>2. /\ MonthOf(u.time)' = MonthOf(u.time) /\ StartOf(MonthOf(u.time))' = StartOf(MonthOf(u.time))
        /\ \A m : RunsSettled(res, u.plan, m)' <=> RunsSettled(res, u.plan, m)
    BY <1>1, SettledSame DEF MonthOf, StartOf, MonthLength
  <2>3. CASE u.time = StartOf(MonthOf(u.time)) BY <1>3, <1>7, <2>1, <2>2, <2>3 DEF EntryInv
  <2>4. CASE u.time # StartOf(MonthOf(u.time))
    <3>1. \/ Stored(BuildKey(u)) # NoDoc /\ u.time <= Stored(BuildKey(u)).time
          \/ \E i \in Turn(res) : \E x \in PartsOf(i) :
                u.plan = x.plan /\ u.time = AdjustTimestamp(x, i).time
      BY <1>7, <2>1, <2>4 DEF EntryInv
    <3>2. CASE Stored(BuildKey(u)) # NoDoc /\ u.time <= Stored(BuildKey(u)).time
      <4>1. BuildKey(u) # k BY <1>3, <3>2
      <4>2. Stored(BuildKey(u))' = Stored(BuildKey(u)) BY <1>3, <4>1
      <4> QED BY <1>7, <2>2, <2>4, <3>2, <4>2 DEF EntryInv
    <3>3. CASE \E i \in Turn(res) : \E x \in PartsOf(i) :
                  u.plan = x.plan /\ u.time = AdjustTimestamp(x, i).time
      <4>1. (\E i \in Turn(res) : \E x \in PartsOf(i) :
                u.plan = x.plan /\ u.time = AdjustTimestamp(x, i).time)'
        BY <1>1, <1>2, <1>4, <3>3
      <4> QED BY <1>7, <2>2, <2>4, <4>1 DEF EntryInv
    <3> QED BY <3>1, <3>2, <3>3
  <2> QED BY <2>3, <2>4
<1>8. OrderInv(res)' BY <1>1 DEF ResInv, OrderInv
<1> QED BY <1>5, <1>6, <1>7, <1>8 DEF ResInv

\* What is being processed is right when a document is inserted beside it.
LEMMA InsertBeside ==
    ASSUME Facts, PollInv, ProcessInv, UNCHANGED <<bridge, supported>>, AllRes,
           NEW k, NEW doc, Inserts(k, doc), \A r : Clean(r)' => Clean(r)
    PROVE  ProcessInv'
<1> USE DEF Facts
<1> SUFFICES ASSUME bridge.at \in Reporting PROVE ProcessInv' BY DEF ProcessInv
<1>0. PICK i, res : i = bridge.event /\ res = events[i].res OBVIOUS
<1>1. /\ i \in DOMAIN events /\ bridge.at \in Processing
      /\ bridge.at \in {"getting", "putting"} => supported[Head(bridge.todo).res]
      /\ \A m \in DOMAIN bridge.todo : bridge.todo[m].res = res
      /\ Clean(res) => \E n \in DOMAIN Parts(i) : PartInv(i, n)
  BY <1>0, TypesMean DEF ProcessInv, Processing
<1>2. UNCHANGED <<events, settled, ledger>> BY DEF Inserts
<1>3. Parts(i)' = Parts(i) BY <1>1, <1>2, AllKept, KeptSame
<1>4. /\ carry \in [Key -> Doc \cup {NoDoc}] /\ k \in Key /\ carry[k] = NoDoc
      /\ \A key : key # k => Stored(key)' = Stored(key)
      /\ Stored(k) = NoDoc /\ \A x : BuildKey(x)' = BuildKey(x)
  <2>1. carry \in [Key -> Doc \cup {NoDoc}] BY TypesMean DEF CarryOK
  <2> QED BY <2>1 DEF Inserts, Stored, Key, Months, MonthOf, MonthLength, BuildKey
<1>5. ASSUME Clean(res)' PROVE \E n \in DOMAIN Parts(i)' : PartInv(i, n)'
  <2>1. PICK n \in DOMAIN Parts(i) : PartInv(i, n) BY <1>1, <1>5
  <2>2. Clean(res) BY <1>5
  <2>3. i \in Done(res) \cup Turn(res) /\ res \in Resources BY <1>0, <1>1, <2>2, InTurn
  <2>4. ResInv(res) BY <2>2, <2>3 DEF AllRes
  <2>5. PICK x : x = Parts(i)[n] OBVIOUS
  <2>6. x \in PartsOf(i) BY <2>5 DEF PartsOf
  <2>7. x.res = res /\ BuildKey(x)[1] = res
    <3>1. x.res = res BY <1>0, <1>1, <2>6, PartsAre
    <3> QED BY <3>1 DEF BuildKey
  <2>8. /\ AdjustTimestamp(x, i)' = AdjustTimestamp(x, i)
        /\ BuildKey(x) # k => Stored(BuildKey(x))' = Stored(BuildKey(x))
        /\ BuildKey(x) = k => Stored(BuildKey(x))' = doc /\ doc.guid < i /\ doc.guid <= i /\ doc.guid # i
    <3>1. CASE k[1] = res
      <4>1. /\ i \in Nat /\ AdjustTimestamp(x, i)' = AdjustTimestamp(x, i)
            /\ BuildKey(x) # k => Stored(BuildKey(x))' = Stored(BuildKey(x))
            /\ BuildKey(x) = k => Stored(k)' = doc /\ doc.guid < i /\ i \notin Done(res)
        BY <2>3, <2>4, <2>6, <3>1, InsertChanges
      <4>2. BuildKey(x)' = BuildKey(x) /\ doc.guid \in Nat BY <1>4 DEF Inserts, Doc
      <4> QED BY <4>1, <4>2, <1>2, <1>3 DEF BuildKey, Stored, Key, Months, MonthOf, MonthLength
    <3>2. CASE k[1] # res
      <4>1. BuildKey(x) # k BY <2>7, <3>2
      <4>2. BuildKey(x)' = BuildKey(x) BY <1>4
      <4>3. Stored(BuildKey(x))' = Stored(BuildKey(x)) BY <1>4, <4>1, <4>2
      <4>4. AdjustTimestamp(x, i)' = AdjustTimestamp(x, i) BY <4>3 DEF AdjustTimestamp
      <4> QED BY <4>1, <4>3, <4>4
    <3> QED BY <3>1, <3>2
  <2>9. \A y : Written(y, i) => Written(y, i)'
    <3> TAKE y
    <3> HAVE Written(y, i)
    <3>1. BuildKey(y) # k BY <1>4 DEF Written
    <3>2. Stored(BuildKey(y))' = Stored(BuildKey(y)) BY <1>4, <3>1
    <3> QED BY <3>2 DEF Written
  <2>10. Reported(Head(bridge.todo)) => Reported(Head(bridge.todo))'
    BY <1>2 DEF Reported
  <2>11. /\ Len(bridge.todo) = Len(Parts(i)) - n + 1
         /\ \A m \in 2 .. Len(bridge.todo) : bridge.todo[m] = Parts(i)[n + m - 1]
         /\ Head(bridge.todo) = IF bridge.at = "adjusting" THEN x ELSE AdjustTimestamp(x, i)
         /\ \A m \in 1 .. n - 1 : Written(Parts(i)[m], i)
         /\ bridge.at # "adjusting" /\ Stored(BuildKey(x)) # NoDoc =>
               /\ Stored(BuildKey(x)).guid <= i
               /\ (Stored(BuildKey(x)).guid = i => Stored(BuildKey(x)).time = x.time)
         /\ bridge.at \in {"getting", "putting"} => Reported(Head(bridge.todo))
    BY <2>1, <2>5 DEF PartInv
  <2>12. bridge.at # "adjusting" /\ Stored(BuildKey(x))' # NoDoc =>
               /\ Stored(BuildKey(x))'.guid <= i
               /\ (Stored(BuildKey(x))'.guid = i => Stored(BuildKey(x))'.time = x.time)
    BY <2>8, <2>11
  <2>13. PartInv(i, n)'
    <3>1. Parts(i)'[n] = x BY <1>3, <2>5
    <3>2. \A m \in 1 .. n - 1 : Written(Parts(i)[m], i)' BY <1>3, <2>9, <2>11
    <3> QED BY <1>3, <2>5, <2>8, <2>10, <2>11, <2>12, <3>1, <3>2 DEF PartInv
  <2> QED BY <1>3, <2>13
<1> QED BY <1>0, <1>1, <1>2, <1>5, ProcessIs

\* The document of a resource that has been renewed is inserted.
LEMMA InsertDue ==
    ASSUME AllInv, TypesInv', Beside, InsertDoc
    PROVE  DueInv'
<1> USE DEF Beside
<1>1. PICK ref, usage : ref = renewer.job /\ usage = StartUsage(ref) OBVIOUS
<1>2. PICK res, plan, month, doc :
         /\ res = ref.key[1] /\ plan = ref.key[2] /\ month = ref.key[3] + 1
         /\ doc = [ResourceInfo(usage, ref.doc.guid) EXCEPT !.state = ref.doc.state]
  OBVIOUS
<1>3. /\ Facts /\ TypesInv /\ PollInv /\ EventsInv /\ LedgerInv /\ ProcessInv /\ CarryingInv
      /\ AllRes /\ now \in Nat
  BY AllMeans, TypesMean
<1>4. /\ renewer.at = "inserting" /\ renewer \in Renewing
      /\ ref \in DocRef /\ ref.doc.guid \in DOMAIN events
      /\ ref.doc.state = "CREATED" /\ ref.key[3] < Month /\ supported[res]
      /\ Clean(res) => Renewed(res, plan, month) /\ MonthOfEvent(ref.doc.guid) <= ref.key[3]
  BY <1>1, <1>2, <1>3 DEF InsertDoc, TypesInv, RenewerInv, Renewing, CarryingInv
<1>5. PICK k : k = BuildKey(usage) OBVIOUS
<1>6. /\ res \in Resources /\ plan \in Plans /\ month \in Nat
      /\ usage.res = res /\ usage.plan = plan
      /\ usage.time = StartOf(month) /\ usage.time \in Nat
      /\ k = <<res, plan, month>> /\ k \in Key /\ ref.doc \in Doc /\ ref.key[3] \in Nat
  BY <1>1, <1>2, <1>3, <1>4, <1>5, StartIs
<1>7. doc = [guid |-> ref.doc.guid, state |-> "CREATED", time |-> StartOf(month)]
  BY <1>2, <1>4, <1>6 DEF ResourceInfo
<1>8. /\ carry[k] = NoDoc /\ carry' = [carry EXCEPT ![k] = doc]
      /\ UNCHANGED <<ledger, stale>> /\ JobDone
  BY <1>1, <1>2, <1>5, <1>6 DEF InsertDoc, PutConflicts, Put, Stored
<1>9. /\ doc \in Doc /\ doc.guid = ref.doc.guid /\ doc.state = "CREATED"
      /\ doc.time = StartOf(month)
  BY <1>6, <1>7 DEF Doc, States
<1>10. k[1] = res /\ k[2] = plan /\ k[3] = month BY <1>6
<1>11. EventsKept /\ EventsInv' BY <1>3, AllKept, EventsInvStays
<1>12. \A r : Clean(r)' => Clean(r) BY <1>8, <1>11, CleanBefore
<1>13. Clean(res) => Inserts(k, doc)
  <2> HAVE Clean(res)
  <2>1. MonthOfEvent(ref.doc.guid) <= ref.key[3] BY <1>4
  <2>2. MonthOfEvent(ref.doc.guid) \in Nat BY <1>3, <1>4, EventIs DEF Facts
  <2>3. MonthOfEvent(doc.guid) < month BY <1>2, <1>6, <1>9, <2>1, <2>2
  <2> QED BY <1>4, <1>6, <1>8, <1>9, <1>10, <2>3 DEF Inserts
<1>14. \A key \in Key : key # k => carry'[key] = carry[key]
  <2>1. carry \in [Key -> Doc \cup {NoDoc}] BY <1>3, TypesMean DEF CarryOK
  <2> QED BY <1>8, <2>1
<1>15. LedgerInv'
  <2>1. \A key \in Key : carry'[key] # NoDoc => supported[key[1]]
    BY <1>3, <1>4, <1>10, <1>14 DEF LedgerInv
  <2>2. Key' = Key /\ Entry' = Entry BY DEF Entry, Key, Months, MonthOf, MonthLength
  <2> QED BY <1>3, <1>8, <2>1, <2>2 DEF LedgerInv
<1>16. ASSUME NEW r \in Resources, Clean(r)' PROVE ResInv(r)'
  <2>1. ResInv(r) BY <1>3, <1>12, <1>16 DEF AllRes
  <2>2. CASE r # res
    <3>1. Apart(r) BY <1>8, <1>10, <1>14, <2>2 DEF Apart
    <3> QED BY <1>3, <2>1, <3>1, ApartStays
  <2>3. CASE r = res
    <3>1. Clean(res) BY <1>12, <1>16, <2>3
    <3>2. Inserts(k, doc) /\ Renewed(res, k[2], k[3]) BY <1>4, <1>10, <1>13, <3>1
    <3> QED BY <1>3, <1>6, <1>10, <2>1, <2>3, <3>2, InsertCarries
  <2> QED BY <2>2, <2>3
<1>17. CarryingInv'
  <2>1. renewer'.at = "getting" /\ renewer'.refs = renewer.refs
    BY <1>4, <1>8 DEF JobDone, Renewing
  <2>2. Month' = Month BY DEF Month, MonthOf, MonthLength
  <2> QED BY <1>3, <2>1, <2>2 DEF CarryingInv
<1>18. ProcessInv'
  <2>1. CASE Clean(res) BY <1>3, <1>12, <1>13, <2>1, InsertBeside
  <2>2. CASE ~ Clean(res)
    <3> SUFFICES ASSUME bridge.at \in Reporting PROVE ProcessInv' BY DEF ProcessInv
    <3>1. PICK i, own : i = bridge.event /\ own = events[i].res OBVIOUS
    <3>2. /\ i \in DOMAIN events
          /\ bridge.at \in {"getting", "putting"} => supported[Head(bridge.todo).res]
          /\ \A m \in DOMAIN bridge.todo : bridge.todo[m].res = own
          /\ Clean(own) => \E n \in DOMAIN Parts(i) : PartInv(i, n)
      BY <1>3, <3>1, TypesMean DEF ProcessInv, Processing
    <3>3. Parts(i)' = Parts(i) BY <1>11, <3>2, KeptSame
    <3>4. ASSUME Clean(own)' PROVE \E n \in DOMAIN Parts(i)' : PartInv(i, n)'
      <4>1. own # res /\ Clean(own) BY <1>12, <2>2, <3>4
      <4>2. PICK n \in DOMAIN Parts(i) : PartInv(i, n) BY <3>2, <4>1
      <4>3. ASSUME NEW y \in PartsOf(i)
            PROVE  /\ Stored(BuildKey(y))' = Stored(BuildKey(y))
                   /\ AdjustTimestamp(y, i)' = AdjustTimestamp(y, i)
                   /\ Written(y, i)' <=> Written(y, i)
        <5>1. BuildKey(y)[1] = own BY <3>1, <3>2, <1>3, PartsAre DEF Facts
        <5>2. BuildKey(y) # k /\ BuildKey(y)' = BuildKey(y)
          BY <1>10, <4>1, <5>1 DEF BuildKey, MonthOf, MonthLength
        <5>3. Stored(BuildKey(y))' = Stored(BuildKey(y))
          BY <1>14, <5>2 DEF Stored, Key, Months, MonthOf, MonthLength
        <5> QED BY <5>3 DEF AdjustTimestamp, Written
      <4>4. \A m \in DOMAIN Parts(i) : Parts(i)[m] \in PartsOf(i) BY DEF PartsOf
      <4>5. Reported(Head(bridge.todo))' <=> Reported(Head(bridge.todo)) BY <1>8 DEF Reported
      <4>6. PICK x : x = Parts(i)[n] OBVIOUS
      <4>7. \A m \in 1 .. n - 1 : m \in DOMAIN Parts(i)
        <5>1. Parts(i) \in Seq(PartsOf(i))
          <6>1. CASE events[i].kind = "UPDATED" BY <6>1 DEF Parts, PartsOf
          <6>2. CASE events[i].kind # "UPDATED" BY <6>2 DEF Parts, PartsOf
          <6> QED BY <6>1, <6>2
        <5>2. Len(Parts(i)) \in Nat /\ DOMAIN Parts(i) = 1 .. Len(Parts(i))
          BY <5>1, LenProperties
        <5> QED BY <5>2
      <4>8. PartInv(i, n)'
        <5>1. Parts(i)'[n] = x /\ x \in PartsOf(i) BY <3>3, <4>4, <4>6
        <5>2. \A m \in 1 .. n - 1 : Written(Parts(i)[m], i)'
          BY <3>3, <4>2, <4>3, <4>4, <4>7 DEF PartInv
        <5> QED BY <3>3, <4>2, <4>3, <4>5, <4>6, <5>1, <5>2 DEF PartInv
      <4> QED BY <3>3, <4>8
    <3> QED BY <3>1, <3>2, <3>4, ProcessIs
  <2> QED BY <2>1, <2>2
<1> QED BY <1>11, <1>15, <1>16, <1>17, <1>18 DEF DueInv

-----------------------------------------------------------------------------
(***************************************************************************)
(* All steps, and the theorems.                                            *)
(***************************************************************************)
\* At first nothing has happened.
LEMMA DueStarts == Init => DueInv
<1> SUFFICES ASSUME Init PROVE DueInv OBVIOUS
<1> USE DEF Init, CarryOverInit, BridgeInit, RenewerInit
<1>1. DOMAIN events = {} OBVIOUS
<1>2. EventsInv BY <1>1 DEF EventsInv
<1>3. LedgerInv
  <2>1. IsFiniteSet({}) BY FS_EmptySet
  <2> QED BY <2>1 DEF LedgerInv, NoReader
<1>4. ProcessInv BY DEF ProcessInv, Polled, Reporting
<1>5. CarryingInv BY DEF CarryingInv, Waiting
<1>6. ASSUME NEW res \in Resources PROVE ResInv(res)
  <2>1. Dated(res) = {} /\ Done(res) = {} /\ Turn(res) = {} BY <1>1 DEF Dated, Done, Turn
  <2>2. \A p, m : ~ RunsSettled(res, p, m) BY <2>1 DEF RunsSettled
  <2>3. \A p, m, state : ~ HalfDone(res, p, m, state) BY <2>1 DEF HalfDone
  <2>4. \A p, m : Running(res, p, m) = 0 BY RunningStarts
  <2>5. SumInv(res) BY <2>2, <2>3, <2>4 DEF SumInv, DueSettled, One
  <2>6. DocsInv(res) /\ OrderInv(res) BY <2>1 DEF DocsInv, OrderInv
  <2> QED BY <2>5, <2>6 DEF ResInv
<1> QED BY <1>2, <1>3, <1>4, <1>5, <1>6 DEF DueInv

\* A step of the renewer, which also may fail.
LEMMA RenewerDue ==
    ASSUME AllInv, TypesInv', Renewal \/ RenewalFault
    PROVE  DueInv'
<1>1. UNCHANGED <<events, reader, bridge, settled, overlooked, torn>>
  BY DEF Renewal, RenewalFault, bridgeVars, controllerVars, historyVars
<1>2. RenewerStep \/ RenewerFault BY DEF Renewal, RenewalFault
<1>3. UNCHANGED <<now, supported>>
  BY <1>2 DEF RenewerStep, RenewerFault, Renew, PageDone, ReportStart, StartRefused, FindDoc,
              InsertDoc, InsertConflict, RenewFails, RenewStops, carryVars
<1>4. Beside BY <1>1, <1>3 DEF Beside
<1> QED BY <1>2, <1>4, RenewerIdlesDue, ReportStartDue, InsertDue DEF RenewerStep, RenewerFault

\* Every step.
LEMMA DueSteps ==
    ASSUME AllInv, [Next]_vars
    PROVE  AllInv'
<1>1. TypesInv' /\ PollInv' BY BridgeSteps DEF AllInv
<1> SUFFICES DueInv' BY <1>1 DEF AllInv
<1>2. CASE Bridge
  <2>1. UNCHANGED renewerVars BY <1>2 DEF Bridge
  <2>2. CASE Controller BY <1>1, <2>1, <2>2, EmitDue, PollEndDue DEF Controller
  <2>3. CASE BridgeStep
    <3>1. CASE ReadPage BY <1>1, <2>1, <3>1, PageDue
    <3>2. CASE NextItem BY <1>1, <2>1, <3>2, ItemDue
    <3>3. CASE NoMorePages \/ GuidNotFound \/ PutConflict \/ SaveProgress \/ SaveConflict
      BY <1>1, <2>1, <3>3, PollEndDue
    <3>4. CASE MapEvent BY <1>1, <2>1, <3>4, MapDue
    <3>5. CASE AdjustTime BY <1>1, <2>1, <3>5, AdjustDue
    <3>6. CASE Report BY <1>1, <2>1, <3>6, ReportDue
    <3>7. CASE ReportUnsupported BY <1>1, <2>1, <3>7, RefusalDue
    <3>8. CASE GetDoc BY <1>1, <2>1, <3>8, GetDue
    <3>9. CASE PutDoc BY <1>1, <2>1, <3>9, PutDue
    <3> QED BY <2>3, <3>1, <3>2, <3>3, <3>4, <3>5, <3>6, <3>7, <3>8, <3>9 DEF BridgeStep
  <2>4. CASE BridgeFault
    BY <1>1, <2>1, <2>4, PollEndDue, AnswerLostDue DEF BridgeFault
  <2> QED BY <1>1, <1>2, <2>2, <2>3, <2>4 DEF Bridge
<1>3. CASE Clock BY <1>1, <1>3, ClockDue
<1>4. CASE Renewal \/ RenewalFault BY <1>1, <1>4, RenewerDue
<1>5. CASE UNCHANGED vars
  <2>1. /\ Beside /\ UNCHANGED <<carry, ledger, renewer, stale>>
    BY <1>5 DEF vars, Beside, carryVars, bridgeVars, controllerVars, progressVars, historyVars,
                renewerVars
  <2> QED BY <1>1, <2>1, RenewerIdles
<1> QED BY <1>2, <1>3, <1>4, <1>5 DEF Next

\* The events, the documents and what has been accumulated agree in every state,
\* also in the midst of an event that is processed, repeated or given up.
THEOREM CFBridgeInvariantHolds == Spec => []CFBridgeInv
<1>1. Init => AllInv BY BridgeStarts, DueStarts DEF AllInv
<1>2. AllInv /\ [Next]_vars => AllInv' BY DueSteps
<1>3. AllInv => DueInv BY DEF AllInv
<1> QED BY <1>1, <1>2, <1>3, BridgeInvariantHolds, PTL DEF Spec, CFBridgeInv

\* When the bridge has caught up, the events of a resource have been processed.
LEMMA CaughtUpIsSettled ==
    ASSUME AllInv, CaughtUp, NEW res \in Resources, res \notin torn \cup stale, supported[res]
    PROVE  /\ Clean(res) /\ ResInv(res) /\ Facts
           /\ Dated(res) \subseteq settled /\ Done(res) = Dated(res) /\ Turn(res) = {}
           /\ \A plan, month : RunsSettled(res, plan, month) <=> RunsAfter(res, plan, month)
<1>1. Facts /\ TypesInv /\ PollInv /\ LedgerInv /\ AllRes BY AllMeans
<1>2. 1 .. Len(events) \subseteq settled \cup overlooked
  BY <1>1 DEF PollInv, NothingSkipped, Covered, CaughtUp
<1>3. Dated(res) \subseteq settled
  <2> SUFFICES ASSUME NEW i \in Dated(res) PROVE i \in settled OBVIOUS
  <2>1. i \in DOMAIN events /\ events[i].res = res BY DEF Dated
  <2>2. i \in settled \cup overlooked BY <1>1, <1>2, <2>1, TypesMean
  <2> QED BY <1>1, <2>1, <2>2 DEF LedgerInv
<1>4. Clean(res) BY <1>3 DEF Clean, Late
<1>5. Done(res) = Dated(res) /\ Turn(res) = {} BY <1>3 DEF Done, Turn
<1>6. \A plan, month : RunsSettled(res, plan, month) <=> RunsAfter(res, plan, month)
  BY <1>5 DEF RunsSettled, RunsAfter, MonthOfEvent
<1> QED BY <1>1, <1>3, <1>4, <1>5, <1>6 DEF AllRes

\* Once the bridge has caught up, the usage that Abacus has accumulated is that of
\* the events, in each month and for each plan, whatever failed, was repeated or
\* was moved behind another event on the way (carryover/src/index.js,
\* adjustTimestamp; event-bridge.js).
THEOREM UsageIsAlwaysDue == Spec => []UsageIsDue
<1>1. Init => AllInv BY BridgeStarts, DueStarts DEF AllInv
<1>2. AllInv /\ [Next]_vars => AllInv' BY DueSteps
<1>3. AllInv => UsageIsDue
  <2> SUFFICES ASSUME AllInv, CaughtUp, NEW res \in Resources, res \notin torn \cup stale,
                      NEW plan \in Plans, NEW month \in 0 .. Month, supported[res]
               PROVE  Running(res, plan, month) = Due(res, plan, month)
    BY DEF UsageIsDue
  <2>1. /\ ResInv(res) /\ Turn(res) = {}
        /\ \A p, m : RunsSettled(res, p, m) <=> RunsAfter(res, p, m)
    BY CaughtUpIsSettled
  <2>2. month \in Months
    <3>1. TypesInv BY DEF AllInv
    <3>2. now \in 0 .. Horizon BY <3>1 DEF TypesInv, TypeOK
    <3>3. Months = 0 .. (Horizon \div MonthTicks) /\ Horizon \div MonthTicks \in Nat /\ Month \in Months
      BY <3>2, MonthsReached
    <3> QED BY <3>3
  <2>3. \A state : ~ HalfDone(res, plan, month, state) BY <2>1 DEF HalfDone
  <2>4. Running(res, plan, month) = DueSettled(res, plan, month)
                                    + One(HalfDone(res, plan, month, "CREATED"))
                                    - One(HalfDone(res, plan, month, "DELETED"))
    BY <2>1, <2>2 DEF ResInv, SumInv
  <2>5. Running(res, plan, month) = DueSettled(res, plan, month)
    BY <2>3, <2>4 DEF One, DueSettled
  <2>6. DueSettled(res, plan, month) = Due(res, plan, month)
    BY <2>1 DEF DueSettled, Due, One
  <2> QED BY <2>5, <2>6
<1> QED BY <1>1, <1>2, <1>3, PTL DEF Spec

\* Once the bridge has caught up, the carry-over documents say which resources run:
\* the renewer neither revives nor forgets one (renewer/src/index.js).
THEOREM CarriedIsAlwaysRunning == Spec => []CarriedIsRunning
<1>1. Init => AllInv BY BridgeStarts, DueStarts DEF AllInv
<1>2. AllInv /\ [Next]_vars => AllInv' BY DueSteps
<1>3. AllInv => CarriedIsRunning
  <2> SUFFICES ASSUME AllInv, CaughtUp, NEW k \in Key, k[1] \notin torn \cup stale,
                      carry[k] # NoDoc
               PROVE  carry[k].state = "CREATED" <=> RunsAfter(k[1], k[2], k[3])
    BY DEF CarriedIsRunning
  <2>1. k[1] \in Resources /\ supported[k[1]]
    <3>1. LedgerInv BY AllMeans
    <3> QED BY <3>1 DEF LedgerInv, Key
  <2>2. /\ ResInv(k[1]) /\ Facts /\ Dated(k[1]) \subseteq settled
        /\ RunsSettled(k[1], k[2], k[3]) <=> RunsAfter(k[1], k[2], k[3])
    BY <2>1, CaughtUpIsSettled
  <2>3. carry[k].state = "CREATED" <=> RunsSettled(k[1], k[2], k[3])
    BY <2>2, DocSaysRuns
  <2> QED BY <2>2, <2>3
<1> QED BY <1>1, <1>2, <1>3, PTL DEF Spec
=============================================================================
