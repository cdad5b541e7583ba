---------------------------- MODULE SamplerTheorems ----------------------------
(***************************************************************************)
(* The Sampler keeps its invariant, for any number of spans, requests and  *)
(* Workers and every cutting of the time line into windows; what follows:  *)
(* its safety properties, and that it implements the continuous usage it   *)
(* promises. Before that, what the sampling algorithm guarantees: an       *)
(* interval makes progress towards the end of the span, does not overshoot *)
(* it, does not cross a window boundary, and the usage posted at its       *)
(* midpoint lands in the window it covers.                                 *)
(***************************************************************************)
EXTENDS SamplerInvariant, TLAPS

-----------------------------------------------------------------------------
\* Intervals and windows.

\* StartOf is the last boundary that is not after t.
LEMMA StartOfProperties ==
    ASSUME NEW t \in Time
    PROVE  /\ StartOf(t) \in Boundary
           /\ StartOf(t) <= t
           /\ \A c \in Boundary : c <= t => c <= StartOf(t)
  BY BoundaryAssumption DEF StartOf

\* NextStart is the first boundary after t.
LEMMA NextStartProperties ==
    ASSUME NEW t \in Time, t < Horizon
    PROVE  /\ NextStart(t) \in Boundary
           /\ t < NextStart(t)
           /\ \A c \in Boundary : t < c => NextStart(t) <= c
  BY BoundaryAssumption DEF NextStart

\* Times are integers, and boundaries are times.
LEMMA TimeIsInt ==
    /\ \A t \in Time : t \in Int /\ 0 <= t /\ t <= Horizon
    /\ \A t \in Int : 0 <= t /\ t <= Horizon => t \in Time
    /\ \A b \in Boundary : b \in Time
    /\ Horizon \in Int
  BY BoundaryAssumption, HorizonAssumption DEF Time

\* Going forward, an interval is not empty, does not pass the end of the span and
\* stays in one window.
LEMMA TowardForward ==
    ASSUME NEW last \in Time, NEW end \in Time, last < end
    PROVE  /\ Toward(last, end) \in Time
           /\ last < Toward(last, end) /\ Toward(last, end) <= end
           /\ NoBoundaryBetween(last, Toward(last, end))
<1>1. last \in Int /\ end \in Int /\ last < Horizon /\ last # end /\ ~(end < last)
  BY TimeIsInt
<1>2. /\ StartOf(last) \in Int /\ StartOf(end) \in Int
      /\ StartOf(last) \in Boundary /\ StartOf(end) \in Boundary
      /\ StartOf(last) <= last /\ StartOf(end) <= end
  BY StartOfProperties, TimeIsInt
<1>3. \A c \in Boundary : c \in Int /\ (c <= last => c <= StartOf(last))
                                    /\ (c <= end => c <= StartOf(end))
  BY StartOfProperties, TimeIsInt
<1>4. CASE SameWindowGoingForward(last, end)
  <2>1. Toward(last, end) = end
    BY <1>4, <1>1 DEF Toward
  <2>2. ASSUME NEW b \in Boundary, last < b, b < end
        PROVE  FALSE
    <3>1. b <= StartOf(end)
      BY <2>2, <1>1, <1>3
    <3> QED BY <3>1, <2>2, <1>4, <1>1, <1>2, <1>3 DEF SameWindowGoingForward
  <2>3. NoBoundaryBetween(last, end)
    BY <2>2, <1>1, <1>3 DEF NoBoundaryBetween
  <2> QED BY <2>1, <2>3, <1>1
<1>5. CASE ~SameWindowGoingForward(last, end)
  <2>1. Toward(last, end) = NextStart(last)
    BY <1>5, <1>1 DEF Toward
  <2>2. StartOf(last) < StartOf(end)
    BY <1>5, <1>1, <1>2, <1>3 DEF SameWindowGoingForward
  <2>3. last < StartOf(end)
    BY <2>2, <1>1, <1>2, <1>3
  <2>4. /\ NextStart(last) \in Boundary /\ NextStart(last) \in Time
        /\ last < NextStart(last)
        /\ \A c \in Boundary : last < c => NextStart(last) <= c
    BY <1>1, NextStartProperties, TimeIsInt
  <2>5. NextStart(last) <= end
    <3>1. NextStart(last) <= StartOf(end) /\ NextStart(last) \in Int
      BY <2>3, <2>4, <1>2, <1>3
    <3> QED BY <3>1, <1>1, <1>2
  <2>6. NoBoundaryBetween(last, NextStart(last))
    BY <2>4, <1>1, <1>3, TimeIsInt DEF NoBoundaryBetween
  <2> QED BY <2>1, <2>4, <2>5, <2>6
<1> QED BY <1>4, <1>5

\* Going backward likewise.
LEMMA TowardBackward ==
    ASSUME NEW last \in Time, NEW end \in Time, end < last, end # 0
    PROVE  /\ Toward(last, end) \in Time
           /\ Toward(last, end) < last /\ end <= Toward(last, end)
           /\ NoBoundaryBetween(last, Toward(last, end))
<1>1. /\ last \in Int /\ end \in Int /\ last # end /\ ~(last < end)
      /\ last - 1 \in Time /\ end - 1 \in Time
  BY TimeIsInt
<1>2. /\ StartOf(last - 1) \in Int /\ StartOf(end - 1) \in Int
      /\ StartOf(last - 1) \in Boundary /\ StartOf(end - 1) \in Boundary
      /\ StartOf(last - 1) <= last - 1 /\ StartOf(end - 1) <= end - 1
  BY <1>1, StartOfProperties, TimeIsInt
<1>3. \A c \in Boundary : c \in Int /\ (c <= last - 1 => c <= StartOf(last - 1))
                                    /\ (c <= end - 1 => c <= StartOf(end - 1))
  BY <1>1, StartOfProperties, TimeIsInt
<1>4. CASE SameWindowGoingBackward(last, end)
  <2>1. Toward(last, end) = end
    BY <1>4, <1>1 DEF Toward
  <2>2. ASSUME NEW b \in Boundary, end < b, b < last
        PROVE  FALSE
    <3>1. b <= StartOf(last - 1)
      BY <2>2, <1>1, <1>3
    <3> QED BY <3>1, <2>2, <1>4, <1>1, <1>2, <1>3 DEF SameWindowGoingBackward
  <2>3. NoBoundaryBetween(last, end)
    BY <2>2, <1>1, <1>3 DEF NoBoundaryBetween
  <2> QED BY <2>1, <2>3, <1>1
<1>5. CASE ~SameWindowGoingBackward(last, end)
  <2>1. Toward(last, end) = StartOf(last - 1)
    BY <1>5, <1>1 DEF Toward
  <2>2. StartOf(end - 1) < StartOf(last - 1)
    BY <1>5, <1>1, <1>2, <1>3 DEF SameWindowGoingBackward
  <2>3. end <= StartOf(last - 1)
    BY <2>2, <1>1, <1>2, <1>3
  <2>4. NoBoundaryBetween(last, StartOf(last - 1))
    BY <1>1, <1>2, <1>3 DEF NoBoundaryBetween
  <2> QED BY <2>1, <2>3, <2>4, <1>1, <1>2, TimeIsInt
<1> QED BY <1>4, <1>5

\* calculateNextIntervalEnd: an interval never crosses a granularity boundary, in
\* whichever direction, and one that is not the last one makes progress.
THEOREM NextIntervalStaysInWindow ==
    ASSUME NEW last \in Time, NEW end \in (Time \ {0}) \cup {None},
           end = None => last < Horizon
    PROVE  /\ NextIntervalEnd(last, end) \in Time
           /\ NoBoundaryBetween(last, NextIntervalEnd(last, end))
           /\ end # None /\ end # last => NextIntervalEnd(last, end) # last
<1>1. CASE end = None
  <2>1. NextIntervalEnd(last, end) = NextStart(last)
    BY <1>1 DEF NextIntervalEnd
  <2>2. NoBoundaryBetween(last, NextStart(last))
    BY <1>1, NextStartProperties, TimeIsInt DEF NoBoundaryBetween
  <2> QED BY <1>1, <2>1, <2>2, NextStartProperties, TimeIsInt
<1>2. CASE end # None
  <2>1. NextIntervalEnd(last, end) = Toward(last, end) /\ end \in Time /\ end # 0
    BY <1>2 DEF NextIntervalEnd
  <2>2. CASE end = last
    <3>1. Toward(last, end) = last
      BY <2>2, TimeIsInt DEF Toward
    <3>2. NoBoundaryBetween(last, last)
      BY TimeIsInt DEF NoBoundaryBetween
    <3> QED BY <3>1, <3>2, <2>1, <2>2
  <2>3. CASE last < end
    BY <2>1, <2>3, TowardForward, TimeIsInt
  <2>4. CASE end < last
    BY <2>1, <2>4, TowardBackward, TimeIsInt
  <2> QED BY <2>1, <2>2, <2>3, <2>4, TimeIsInt
<1> QED BY <1>1, <1>2

-----------------------------------------------------------------------------

\* Clip projects a time onto a window.
LEMMA ClipValue ==
    ASSUME NEW t \in Time, NEW b \in Boundary
    PROVE  /\ Clip(t, b) \in Int
           /\ t <= b => Clip(t, b) = b
           /\ b < t => NextStart(b) \in Boundary /\ NextStart(b) \in Int
           /\ b < t /\ t <= NextStart(b) => Clip(t, b) = t
           /\ b < t /\ NextStart(b) < t => Clip(t, b) = NextStart(b)
<1>1. t \in Int /\ b \in Int /\ b \in Time /\ t <= Horizon /\ Horizon \in Int
  BY TimeIsInt
<1>2. CASE t <= b
  <2>1. Clip(t, b) = b /\ ~(b < t)
    BY <1>1, <1>2 DEF Clip
  <2> QED BY <2>1, <1>1, <1>2
<1>3. CASE b < t
  <2>1. b < Horizon
    BY <1>1, <1>3
  <2>2. NextStart(b) \in Boundary /\ NextStart(b) \in Int
    BY <1>1, <2>1, NextStartProperties, TimeIsInt
  <2>3. CASE t <= NextStart(b)
    <3>1. Clip(t, b) = t /\ ~(t <= b) /\ ~(NextStart(b) < t)
      BY <1>1, <1>3, <2>2, <2>3 DEF Clip
    <3> QED BY <3>1, <1>1, <2>2, <2>3
  <2>4. CASE NextStart(b) < t
    <3>1. Clip(t, b) = NextStart(b) /\ ~(t <= b) /\ ~(t <= NextStart(b))
      BY <1>1, <1>3, <2>2, <2>4 DEF Clip
    <3> QED BY <3>1, <1>1, <2>2, <2>4
  <2> QED BY <1>1, <2>2, <2>3, <2>4
<1> QED BY <1>1, <1>2, <1>3

\* Shares of adjacent intervals add up, whatever their directions.
LEMMA ShareAdds ==
    ASSUME NEW x \in Time, NEW y \in Time, NEW z \in Time, NEW b \in Boundary
    PROVE  /\ Share(x, y, b) \in Int
           /\ Share(x, x, b) = 0
           /\ Share(x, y, b) + Share(y, z, b) = Share(x, z, b)
<1>1. Clip(x, b) \in Int /\ Clip(y, b) \in Int /\ Clip(z, b) \in Int
  BY ClipValue
<1> QED BY <1>1 DEF Share

\* The midpoint of a non-empty interval lies in it, and not at its end.
LEMMA MidpointBetween ==
    ASSUME NEW x \in Time, NEW y \in Time
    PROVE  /\ Midpoint(x, y) \in Time
           /\ x < y => x <= Midpoint(x, y) /\ Midpoint(x, y) < y
           /\ y < x => y <= Midpoint(x, y) /\ Midpoint(x, y) < x
<1>1. x \in Int /\ y \in Int /\ 0 <= x /\ 0 <= y /\ x <= Horizon /\ y <= Horizon
      /\ Horizon \in Int
  BY TimeIsInt
<1>2. Midpoint(x, y) \in Int /\ 0 <= Midpoint(x, y) /\ Midpoint(x, y) <= Horizon
  BY <1>1 DEF Midpoint
<1>3. /\ x < y => x <= Midpoint(x, y) /\ Midpoint(x, y) < y
      /\ y < x => y <= Midpoint(x, y) /\ Midpoint(x, y) < x
  BY <1>1 DEF Midpoint
<1> QED BY <1>2, <1>3, TimeIsInt

\* An interval within a window belongs to the window its midpoint lies in, and to
\* no other: the usage the Worker posts for it is billed where it was consumed.
THEOREM MidpointShare ==
    ASSUME NEW x \in Time, NEW y \in Time, NoBoundaryBetween(x, y), NEW b \in Boundary
    PROVE  Share(x, y, b) = IF b = StartOf(Midpoint(x, y)) THEN y - x ELSE 0
<1> DEFINE m == Midpoint(x, y)
<1> DEFINE s == StartOf(m)
<1>1. x \in Int /\ y \in Int /\ b \in Int /\ b \in Time
  BY TimeIsInt
<1>2. m \in Time /\ m \in Int
  BY MidpointBetween, TimeIsInt
<1>3. s \in Boundary /\ s \in Int /\ s <= m /\ \A c \in Boundary : c <= m => c <= s
  BY <1>2, StartOfProperties, TimeIsInt
<1>4. /\ x < y => x <= m /\ m < y
      /\ y < x => y <= m /\ m < x
  BY MidpointBetween
<1> HIDE DEF m, s
<1>5. CASE x = y
  <2>1. Share(x, y, b) = 0 /\ y - x = 0
    BY <1>1, <1>5, ShareAdds
  <2> QED BY <2>1 DEF m, s
<1>6. CASE x # y
  \* Both ends of the interval are in the closure of the window s.
  <2>1. s <= x /\ s <= y
    BY <1>1, <1>2, <1>3, <1>4, <1>6 DEF NoBoundaryBetween
  <2>2. \A c \in Boundary : c \in Int
    BY TimeIsInt
  <2>3. \A c \in Boundary : s < c => x <= c /\ y <= c
    <3>1. SUFFICES ASSUME NEW c \in Boundary, s < c
                   PROVE  x <= c /\ y <= c
      OBVIOUS
    <3>2. m < c
      BY <1>2, <1>3, <2>2, <3>1
    <3> QED BY <1>1, <1>2, <1>4, <1>6, <2>2, <3>2 DEF NoBoundaryBetween
  <2>4. CASE b = s
    <3>1. s < x => NextStart(s) \in Boundary /\ s < NextStart(s)
      <4>1. s \in Time /\ x <= Horizon /\ Horizon \in Int
        BY <1>3, TimeIsInt
      <4>2. s < x => s < Horizon
        BY <4>1, <1>1, <1>3
      <4> QED BY <4>1, <4>2, NextStartProperties
    <3>2. s < y => NextStart(s) \in Boundary /\ s < NextStart(s)
      <4>1. s \in Time /\ y <= Horizon /\ Horizon \in Int
        BY <1>3, TimeIsInt
      <4>2. s < y => s < Horizon
        BY <4>1, <1>1, <1>3
      <4> QED BY <4>1, <4>2, NextStartProperties
    <3>3. Clip(x, s) = x
      <4>1. CASE s < x
        BY <4>1, <3>1, <2>3, <1>1, <1>3, ClipValue
      <4>2. CASE s = x
        BY <4>2, <1>1, <1>3, ClipValue
      <4> QED BY <4>1, <4>2, <2>1, <1>1, <1>3
    <3>4. Clip(y, s) = y
      <4>1. CASE s < y
        BY <4>1, <3>2, <2>3, <1>1, <1>3, ClipValue
      <4>2. CASE s = y
        BY <4>2, <1>1, <1>3, ClipValue
      <4> QED BY <4>1, <4>2, <2>1, <1>1, <1>3
    <3> QED BY <3>3, <3>4, <2>4 DEF Share, s, m
  <2>5. CASE s < b
    <3>1. Clip(x, b) = b /\ Clip(y, b) = b
      BY <2>3, <2>5, ClipValue
    <3> QED BY <3>1, <1>1, <1>3, <2>5 DEF Share, s, m
  <2>6. CASE b < s
    <3>1. b < Horizon /\ b < x /\ b < y
      BY <1>1, <1>3, <2>1, <2>6, TimeIsInt
    <3>2. NextStart(b) \in Boundary /\ NextStart(b) \in Int /\ NextStart(b) <= s
      BY <3>1, <1>1, <1>3, <2>6, NextStartProperties, TimeIsInt
    <3>3. Clip(x, b) = NextStart(b) /\ Clip(y, b) = NextStart(b)
      BY <3>1, <3>2, <2>1, <1>1, <1>3, ClipValue
    <3>4. Share(x, y, b) = 0
      BY <3>2, <3>3 DEF Share
    <3> QED BY <3>4, <1>1, <1>3, <2>6 DEF s, m
  <2> QED BY <2>4, <2>5, <2>6, <1>1, <1>3
<1> QED BY <1>5, <1>6

\* The Worker asks for spans last sampled before the same place in the window
\* before: what it plans for them is over.
THEOREM WindowOfOpenSpanIsOver ==
    ASSUME NEW time \in Time, NEW last \in Time, last < OneWindowBefore(time)
    PROVE  last < Horizon /\ NextStart(last) <= time
<1> DEFINE s == StartOf(time)
<1>1. /\ time \in Int /\ last \in Int /\ 0 <= last /\ time <= Horizon /\ Horizon \in Int
      /\ \A c \in Boundary : c \in Int
  BY TimeIsInt
<1>2. s \in Boundary /\ s \in Int /\ 0 <= s /\ s <= time
  BY StartOfProperties, TimeIsInt
<1>3. s # 0
  BY <1>1 DEF OneWindowBefore
<1>4. OneWindowBefore(time) <= s - 1
  <2>1. s - 1 \in Time
    BY <1>1, <1>2, <1>3, TimeIsInt
  <2>2. StartOf(s - 1) \in Int
    BY <2>1, StartOfProperties, TimeIsInt
  <2>3. OneWindowBefore(time) =
          IF StartOf(s - 1) + (time - s) < s THEN StartOf(s - 1) + (time - s) ELSE s - 1
    BY <1>3 DEF OneWindowBefore
  <2> QED BY <2>2, <2>3, <1>1, <1>2
<1>5. OneWindowBefore(time) \in Int
  <2>1. s - 1 \in Time
    BY <1>1, <1>2, <1>3, TimeIsInt
  <2>2. StartOf(s - 1) \in Int
    BY <2>1, StartOfProperties, TimeIsInt
  <2> QED BY <2>2, <1>1, <1>2 DEF OneWindowBefore
<1> HIDE DEF s
<1>6. last < s /\ last < Horizon
  BY <1>1, <1>2, <1>4, <1>5
<1>7. NextStart(last) <= s /\ NextStart(last) \in Int
  BY <1>1, <1>2, <1>6, NextStartProperties
<1> QED BY <1>1, <1>2, <1>6, <1>7

-----------------------------------------------------------------------------
\* The fields of documents, plans and snapshots.

\* A plan is a record of times and a guid, and not None.
LEMMA PlanFields ==
    ASSUME NEW plan \in Plan
    PROVE  plan # None /\ plan.start \in Time /\ plan.end \in Time /\ plan.guid \in Nat
  BY NoneIsNoRecord DEF Plan

\* The types of the fields the proofs use of a document.
LEMMA SpanFields ==
    ASSUME NEW doc \in Span
    PROVE  /\ doc # None
           /\ doc.start \in Time
           /\ doc.end \in Time \cup {None}
           /\ doc.last \in Time
           /\ doc.planned \in Plan \cup {None}
           /\ doc.complete \in BOOLEAN
           /\ doc.version \in Nat
  BY NoneIsNoRecord DEF Span

\* A snapshot holds a document and its _id.
LEMMA SnapshotFields ==
    ASSUME NEW item \in Snapshot
    PROVE  item # None /\ item.id \in SpanIds /\ item.doc \in Span
  BY NoneIsNoSnapshot DEF Snapshot

\* The document startSpan inserts has been sampled up to its start.
LEMMA NewSpanFields ==
    ASSUME NEW target \in Targets, NEW time \in Time, NEW id \in EventIds \cup {None}
    PROVE  LET new == NewSpan(target, time, id) IN
           /\ new \in Span
           /\ new.start = time /\ new.last = time
           /\ new.end = None /\ new.planned = None
           /\ new.complete = FALSE
  BY DEF NewSpan, Span

\* endSpan sets the end, and leaves the section processing and the version alone.
LEMMA EndedFields ==
    ASSUME NEW doc \in Span, NEW time \in Time, NEW id \in EventIds \cup {None}
    PROVE  LET new == Ended(doc, time, id) IN
           /\ new \in Span
           /\ new.end = time
           /\ new.start = doc.start /\ new.last = doc.last /\ new.planned = doc.planned
           /\ new.complete = doc.complete /\ new.version = doc.version
  BY DEF Ended, Span

\* updateSpanPlannedInterval sets the plan and increments the version.
LEMMA PlannedFields ==
    ASSUME NEW doc \in Span, NEW plan \in Plan
    PROVE  LET new == Planned(doc, plan, doc.version) IN
           /\ new \in Span
           /\ new.planned = plan
           /\ new.version = doc.version + 1
           /\ new.start = doc.start /\ new.last = doc.last
           /\ new.end = doc.end /\ new.complete = doc.complete
<1>1. doc.version \in Nat /\ doc.version + 1 \in Nat
  BY SpanFields
<1> QED BY <1>1 DEF Planned, Span

\* updateSpanProcessedInterval goes on to the end of the plan and forgets it.
LEMMA ProcessedFields ==
    ASSUME NEW doc \in Span, NEW plan \in Plan, NEW complete \in BOOLEAN,
           NEW new, new = Processed(doc, plan, complete, doc.version)
    PROVE  /\ new \in Span
           /\ new.planned = None
           /\ new.last = plan.end
           /\ new.complete = complete
           /\ new.version = doc.version + 1
           /\ new.start = doc.start /\ new.end = doc.end
<1>1. doc.version \in Nat /\ doc.version + 1 \in Nat /\ plan.end \in Time
  BY SpanFields, PlanFields
<1> QED BY <1>1 DEF Processed, Span

\* The document of a span that was ever started.
LEMMA StartedIsSpan ==
    ASSUME TypeOK, NEW s \in Started
    PROVE  s \in SpanIds /\ spans[s] \in Span
  BY DEF TypeOK, StoreTypeOK, Started

-----------------------------------------------------------------------------
\* What the metering pipeline does to the bill.

\* Adding the usage of an interval within a window adds, in every window, the share
\* of the interval in it.
LEMMA AddIsShare ==
    ASSUME LedgerTypeOK, NEW u \in SpanIds, NEW plan \in Plan,
           NoBoundaryBetween(plan.start, plan.end)
    PROVE  /\ Add(u, plan) \in [Usages -> [Boundary -> Int]]
           /\ \A v \in SpanIds : v # u => Add(u, plan)[v] = billed[v]
           /\ \A b \in Boundary :
                 Add(u, plan)[u][b] = billed[u][b] + Share(plan.start, plan.end, b)
<1> DEFINE w == StartOf(Midpoint(plan.start, plan.end))
<1>1. /\ billed \in [SpanIds -> [Boundary -> Int]]
      /\ plan.start \in Time /\ plan.end \in Time
      /\ plan.end - plan.start \in Int
  BY UsagesAreSpans, PlanFields, TimeIsInt DEF LedgerTypeOK
<1>2. w \in Boundary
  BY <1>1, MidpointBetween, StartOfProperties
<1>3. /\ Add(u, plan) \in [SpanIds -> [Boundary -> Int]]
      /\ \A v \in SpanIds : v # u => Add(u, plan)[v] = billed[v]
  BY <1>1, <1>2 DEF Add
<1>4. ASSUME NEW b \in Boundary
      PROVE  Add(u, plan)[u][b] = billed[u][b] + Share(plan.start, plan.end, b)
  <2>1. billed[u][b] \in Int
    BY <1>1
  <2>2. Add(u, plan)[u][b] =
          IF b = w THEN billed[u][b] + (plan.end - plan.start) ELSE billed[u][b]
    BY <1>1, <1>2 DEF Add
  <2>3. Share(plan.start, plan.end, b) = IF b = w THEN plan.end - plan.start ELSE 0
    BY <1>1, MidpointShare
  <2> QED BY <2>1, <2>2, <2>3, <1>1
<1> QED BY <1>3, <1>4, UsagesAreSpans

\* What posting the usage of a plan of u can do to the ledger.
LedgerStep(u, plan) ==
    /\ LedgerTypeOK'
    /\ \A v \in SpanIds : v # u =>
          accepted'[v] = accepted[v] /\ billed'[v] = billed[v] /\ dropped'[v] = dropped[v]
    /\ accepted[u] \subseteq accepted'[u] /\ dropped[u] \subseteq dropped'[u]
    /\ Harmless(u, plan)'
    /\ \/ accepted'[u] = accepted[u] /\ billed'[u] = billed[u]
       \/ /\ plan.guid \notin accepted[u]
          /\ accepted'[u] = accepted[u] \cup {plan.guid}
          /\ \A b \in Boundary :
                billed'[u][b] = billed[u][b] + Share(plan.start, plan.end, b)

\* A usage that is taken in is added to the bill, is a duplicate, or is dropped.
LEMMA TakeInEffect ==
    ASSUME LedgerTypeOK, NEW u \in SpanIds, NEW plan \in Plan, NEW at \in Time,
           NoBoundaryBetween(plan.start, plan.end), TakeIn(u, plan, at)
    PROVE  LedgerStep(u, plan)
<1> USE DEF LedgerStep
<1>1. /\ accepted \in [SpanIds -> SUBSET Nat]
      /\ billed \in [SpanIds -> [Boundary -> Int]]
      /\ dropped \in [SpanIds -> SUBSET Reasons]
      /\ plan.guid \in Nat
  BY UsagesAreSpans, PlanFields DEF LedgerTypeOK
<1>2. CASE \E r \in {"future", "slack"} : Drop(u, r) /\ UNCHANGED <<accepted, billed>>
  <2> PICK r \in {"future", "slack"} : Drop(u, r) /\ UNCHANGED <<accepted, billed>>
    BY <1>2
  <2>1. /\ dropped' \in [SpanIds -> SUBSET Reasons]
        /\ r \in dropped'[u] /\ dropped[u] \subseteq dropped'[u]
        /\ \A v \in SpanIds : v # u => dropped'[v] = dropped[v]
    BY <1>1 DEF Drop, Reasons
  <2> QED BY <1>1, <2>1, UsagesAreSpans DEF LedgerTypeOK, Harmless
<1>3. CASE IsDuplicate(u, plan.guid) /\ UNCHANGED ledgerVars
  BY <1>1, <1>3, UsagesAreSpans DEF LedgerTypeOK, Harmless, IsDuplicate, ledgerVars
<1>4. CASE /\ ~IsDuplicate(u, plan.guid)
           /\ accepted' = [accepted EXCEPT ![u] = @ \cup {plan.guid}]
           /\ billed' = Add(u, plan)
           /\ UNCHANGED dropped
  <2>1. /\ accepted' \in [SpanIds -> SUBSET Nat]
        /\ accepted'[u] = accepted[u] \cup {plan.guid}
        /\ \A v \in SpanIds : v # u => accepted'[v] = accepted[v]
    BY <1>1, <1>4
  <2>2. plan.guid \notin accepted[u]
    BY <1>4 DEF IsDuplicate
  <2> QED BY <1>1, <1>4, <2>1, <2>2, AddIsShare, UsagesAreSpans DEF LedgerTypeOK, Harmless
<1> QED BY <1>2, <1>3, <1>4 DEF TakeIn

\* A usage refused for legal reasons makes its span one of which no bill is promised.
LEMMA RefuseEffect ==
    ASSUME LedgerTypeOK, NEW u \in SpanIds, NEW plan \in Plan, RefuseForLegalReasons(u)
    PROVE  LedgerStep(u, plan)
<1>1. dropped \in [SpanIds -> SUBSET Reasons]
  BY UsagesAreSpans DEF LedgerTypeOK
<1>2. /\ dropped' \in [SpanIds -> SUBSET Reasons]
      /\ "legal" \in dropped'[u] /\ dropped[u] \subseteq dropped'[u]
      /\ \A v \in SpanIds : v # u => dropped'[v] = dropped[v]
  BY <1>1 DEF RefuseForLegalReasons, Drop, Reasons
<1>3. UNCHANGED <<accepted, billed>>
  BY DEF RefuseForLegalReasons
<1> QED BY <1>2, <1>3, UsagesAreSpans DEF LedgerTypeOK, LedgerStep, Harmless

-----------------------------------------------------------------------------
\* What a request does.

\* The fields of an event: what the schema of the Receiver lets pass.
LEMMA EventFields ==
    ASSUME NEW event \in Events
    PROVE  /\ event # None
           /\ event.target \in Targets
           /\ event.time \in Time /\ event.time # 0
           /\ event.id \in EventIds \cup {None}
  BY EventsAssumption DEF Event

\* An answered request is idle.
LEMMA AnswerKeepsTypes ==
    ASSUME ReceiverTypeOK, RequestsInv, NEW h \in Handlers,
           NEW event \in Events \cup {None}, NEW reply \in Replies, Answer(h, event, reply)
    PROVE  ReceiverTypeOK' /\ RequestsInv'
  BY DEF ReceiverTypeOK, RequestsInv, Request, Answer

\* A request that goes on knows its event.
LEMMA GoOnKeepsTypes ==
    ASSUME ReceiverTypeOK, RequestsInv, NEW h \in Handlers,
           NEW event \in Events, NEW at \in Pending, GoOn(h, event, at)
    PROVE  ReceiverTypeOK' /\ RequestsInv'
  BY EventFields DEF ReceiverTypeOK, RequestsInv, Request, GoOn

\* The three things a request can do to the store.
SomeSpanStarted ==
    \E s \in SpanIds, event \in Events :
        /\ spans[s] = None
        /\ spans' = [spans EXCEPT ![s] = NewSpan(event.target, event.time, event.id)]

SomeSpanEnded ==
    \E s \in Started, event \in Events :
        /\ spans[s].end = None
        /\ spans' = [spans EXCEPT ![s] = Ended(@, event.time, event.id)]

\* A step of a request starts a span, ends an open one, or changes no document.
LEMMA ReceiverStepEffect ==
    ASSUME ReceiverTypeOK, RequestsInv, NEW h \in Handlers, ReceiverStep(h)
    PROVE  /\ ReceiverTypeOK' /\ RequestsInv'
           /\ UNCHANGED <<now, deleted>>
           /\ UNCHANGED spans \/ SomeSpanStarted \/ SomeSpanEnded
<1> DEFINE event == request[h].event
<1>1. event \in Events \cup {None} /\ (request[h].at # "idle" => event \in Events)
  BY DEF ReceiverTypeOK, RequestsInv, Request
<1>2. /\ "created" \in Replies /\ "conflict" \in Replies /\ "missing" \in Replies
      /\ "outOfOrder" \in Replies /\ "outOfSlack" \in Replies
      /\ "duplicateStart" \in Pending /\ "missingSpan" \in Pending
      /\ "endSpan" \in Pending /\ "duplicateEnd" \in Pending
  BY DEF Replies, Pending
<1>3. ASSUME NEW e \in Events, RefuseOutOfSlack(h, e)
      PROVE  ReceiverTypeOK' /\ RequestsInv' /\ UNCHANGED <<now, deleted, spans>>
  BY <1>2, <1>3, AnswerKeepsTypes DEF RefuseOutOfSlack, storeVars
<1>4. ASSUME NEW e \in Events, HandleStart(h, e)
      PROVE  /\ ReceiverTypeOK' /\ RequestsInv' /\ UNCHANGED <<now, deleted>>
             /\ UNCHANGED spans \/ SomeSpanStarted
  <2>1. CASE StartSpan(e.target, e.time, e.id, TRUE) /\ Answer(h, e, "created")
    <3>1. SomeSpanStarted /\ UNCHANGED <<now, deleted>>
      BY <2>1 DEF StartSpan, SomeSpanStarted
    <3> QED BY <2>1, <3>1, <1>2, AnswerKeepsTypes
  <2>2. CASE StartSpan(e.target, e.time, e.id, FALSE) /\ GoOn(h, e, "duplicateStart")
    <3>1. UNCHANGED <<now, deleted, spans>>
      BY <2>2 DEF StartSpan
    <3> QED BY <2>2, <3>1, <1>2, GoOnKeepsTypes
  <2> QED BY <1>4, <2>1, <2>2 DEF HandleStart
<1>5. ASSUME NEW e \in Events, HandleStop(h, e)
      PROVE  ReceiverTypeOK' /\ RequestsInv' /\ UNCHANGED <<now, deleted, spans>>
  <2>1. Answer(h, e, "outOfOrder") \/ GoOn(h, e, "missingSpan") \/ GoOn(h, e, "endSpan")
    BY <1>5 DEF HandleStop
  <2> QED BY <1>2, <1>5, <2>1, AnswerKeepsTypes, GoOnKeepsTypes DEF HandleStop, storeVars
<1>6. CASE CheckDuplicateStart(h) \/ CheckMissingSpan(h) \/ CheckDuplicateEnd(h)
  <2>1. \E reply \in {"created", "conflict", "missing"} : Answer(h, event, reply)
    BY <1>6 DEF CheckDuplicateStart, CheckMissingSpan, CheckDuplicateEnd
  <2>2. UNCHANGED <<now, deleted, spans>>
    BY <1>6 DEF CheckDuplicateStart, CheckMissingSpan, CheckDuplicateEnd, storeVars
  <2> QED BY <1>1, <1>2, <2>1, <2>2, AnswerKeepsTypes
<1>7. CASE EndFoundSpan(h)
  <2>1. event \in Events
    BY <1>1, <1>7 DEF EndFoundSpan
  <2>2. CASE EndSpan(event.target, event.time, event.id, TRUE) /\ Answer(h, event, "created")
    <3>1. SomeSpanEnded /\ UNCHANGED <<now, deleted>>
      BY <2>1, <2>2 DEF EndSpan, SomeSpanEnded, Endable, SpansByTarget, Docs, Started
    <3> QED BY <2>1, <2>2, <3>1, <1>2, AnswerKeepsTypes
  <2>3. CASE EndSpan(event.target, event.time, event.id, FALSE) /\ GoOn(h, event, "duplicateEnd")
    <3>1. UNCHANGED <<now, deleted, spans>>
      BY <2>3 DEF EndSpan
    <3> QED BY <2>1, <2>3, <3>1, <1>2, GoOnKeepsTypes
  <2> QED BY <1>7, <2>2, <2>3 DEF EndFoundSpan
<1>8. CASE FailRequest(h)
  BY <1>8 DEF FailRequest, NoRequest, ReceiverTypeOK, RequestsInv, Request, storeVars
<1> QED BY <1>3, <1>4, <1>5, <1>6, <1>7, <1>8 DEF ReceiverStep

-----------------------------------------------------------------------------
\* Steps of requests and of the clock preserve the invariant.

\* A span that starts has an empty bill and has been sampled of nothing.
LEMMA StartKeepsInv ==
    ASSUME Inv, SomeSpanStarted, ReceiverTypeOK', RequestsInv',
           UNCHANGED <<now, deleted, workerVars, ledgerVars>>
    PROVE  Inv'
<1> PICK s \in SpanIds, event \in Events :
        /\ spans[s] = None
        /\ spans' = [spans EXCEPT ![s] = NewSpan(event.target, event.time, event.id)]
  BY DEF SomeSpanStarted
<1> DEFINE new == NewSpan(event.target, event.time, event.id)
<1> USE DEF workerVars, ledgerVars
<1>1. /\ new \in Span /\ new # None
      /\ new.start = event.time /\ new.last = event.time /\ event.time \in Time
      /\ new.end = None /\ new.planned = None /\ new.complete = FALSE
  <2>1. event.target \in Targets /\ event.time \in Time /\ event.id \in EventIds \cup {None}
    BY EventFields
  <2>2. new \in Span /\ new.start = event.time /\ new.last = event.time
        /\ new.end = None /\ new.planned = None /\ new.complete = FALSE
    BY ONLY <2>1, NewSpanFields
  <2> QED BY <2>1, <2>2, NoneIsNoRecord
<1>2. spans \in [SpanIds -> Span \cup {None}]
  BY DEF Inv, TypeOK, StoreTypeOK
<1>3. spans'[s] = new /\ \A r \in SpanIds : r # s => spans'[r] = spans[r]
  BY <1>2
<1> HIDE DEF new
<1>4. s \notin Started /\ Started' = Started \cup {s}
  BY <1>1, <1>3 DEF Started
<1>5. \A r \in Started : r \in SpanIds /\ r # s /\ r \in Started' /\ spans'[r] = spans[r]
  BY <1>3, <1>4 DEF Started
<1>6. TypeOK'
  <2>1. StoreTypeOK'
    BY <1>1, <1>2, <1>3 DEF Inv, TypeOK, StoreTypeOK, new
  <2> QED BY <2>1 DEF Inv, TypeOK, WorkerTypeOK, LedgerTypeOK
<1>7. SpansInv'
  <2>1. SpanInv(s)'
    BY <1>1, <1>3, NoneAssumption DEF SpanInv
  <2>2. ASSUME NEW r \in Started
        PROVE  SpanInv(r)'
    BY <1>5 DEF Inv, SpansInv, SpanInv
  <2> QED BY <1>4, <2>1, <2>2 DEF SpansInv
<1>8. GuidsInv'
  BY <1>4 DEF Inv, GuidsInv
<1>9. QueuesInv'
  BY <1>5 DEF Inv, QueuesInv, SnapshotInv, Harmless
<1>10. JobsInv'
  BY DEF Inv, JobsInv, JobInv, Harmless
<1>11. SweepsInv'
  BY <1>5 DEF Inv, SweepsInv
<1>12. BilledByWindow'
  <2>1. ASSUME NEW b \in Boundary
        PROVE  billed'[s][b] = SampledShare(s, b)'
    <3>1. billed[s][b] = 0
      BY <1>4 DEF Inv, GuidsInv
    <3>2. SampledShare(s, b)' = Share(event.time, event.time, b) + 0
      BY <1>1, <1>3 DEF SampledShare, IsPosted
    <3> QED BY <1>1, <3>1, <3>2, ShareAdds
  <2>2. ASSUME NEW r \in Started, NEW b \in Boundary, dropped[r] = {}
        PROVE  billed'[r][b] = SampledShare(r, b)'
    BY <1>5, <2>2 DEF Inv, BilledByWindow, SampledShare, IsPosted
  <2> QED BY <1>4, <2>1, <2>2 DEF BilledByWindow
<1> QED BY <1>6, <1>7, <1>8, <1>9, <1>10, <1>11, <1>12 DEF Inv

\* A stop changes nothing a Worker's snapshot relies on, although it leaves the version alone.
LEMMA EndKeepsInv ==
    ASSUME Inv, SomeSpanEnded, ReceiverTypeOK', RequestsInv',
           UNCHANGED <<now, deleted, workerVars, ledgerVars>>
    PROVE  Inv'
<1> PICK s \in Started, event \in Events :
        /\ spans[s].end = None
        /\ spans' = [spans EXCEPT ![s] = Ended(@, event.time, event.id)]
  BY DEF SomeSpanEnded
<1> DEFINE old == spans[s]
<1> DEFINE new == spans'[s]
<1> USE DEF workerVars, ledgerVars
<1>1. spans \in [SpanIds -> Span \cup {None}] /\ s \in SpanIds /\ old \in Span
  BY StartedIsSpan DEF Inv, TypeOK, StoreTypeOK
<1>2. /\ new \in Span /\ new # None
      /\ new.end = event.time /\ new.end # None /\ new.end # 0
      /\ new.start = old.start /\ new.last = old.last /\ new.planned = old.planned
      /\ new.complete = old.complete /\ new.version = old.version
  <2>1. event.time \in Time /\ event.time # 0 /\ event.time # None
    BY EventFields, TimeIsInt, NoneAssumption
  <2>2. new = Ended(old, event.time, event.id)
    BY <1>1
  <2> QED BY <1>1, <2>1, <2>2, EventFields, EndedFields, NoneIsNoRecord
<1>3. \A r \in SpanIds : r # s => spans'[r] = spans[r]
  BY <1>1
<1>4. Started' = Started
  BY <1>2, <1>3 DEF Started
<1>5. TypeOK'
  <2>1. spans' \in [SpanIds -> Span \cup {None}]
    BY <1>1, <1>2
  <2>2. StoreTypeOK'
    BY <1>2, <1>3, <2>1 DEF Inv, TypeOK, StoreTypeOK
  <2> QED BY <2>2 DEF Inv, TypeOK, WorkerTypeOK, LedgerTypeOK
<1>6. old.end = None /\ old.complete = FALSE
  BY <1>1, SpanFields DEF Inv, SpansInv, SpanInv
<1> HIDE DEF old, new
<1>7. SpansInv'
  <2>1. SpanInv(s)'
    BY <1>2, <1>6 DEF Inv, SpansInv, SpanInv, new, old
  <2>2. ASSUME NEW r \in Started, r # s
        PROVE  SpanInv(r)'
    BY <1>3, <2>2 DEF Inv, SpansInv, SpanInv, Started
  <2> QED BY <1>4, <2>1, <2>2 DEF SpansInv
<1>8. GuidsInv'
  BY <1>4 DEF Inv, GuidsInv
<1>9. QueuesInv'
  <2> SUFFICES ASSUME NEW w \in Workers, NEW item \in queue[w]
               PROVE  SnapshotInv(item.id, item.doc)'
    BY DEF QueuesInv
  <2>1. SnapshotInv(item.id, item.doc) /\ item.id \in Started
    BY DEF Inv, QueuesInv, SnapshotInv
  <2>2. CASE item.id = s
    BY <1>2, <1>4, <1>6, <2>1, <2>2 DEF SnapshotInv, Harmless, new, old
  <2>3. CASE item.id # s
    <3>1. spans'[item.id] = spans[item.id]
      BY <1>3, <2>1, <2>3 DEF Started
    <3> QED BY <3>1, <1>4, <2>1 DEF SnapshotInv, Harmless
  <2> QED BY <2>2, <2>3
<1>10. JobsInv'
  BY DEF Inv, JobsInv, JobInv, Harmless
<1>11. SweepsInv'
  BY <1>2, <1>3, <1>4 DEF Inv, SweepsInv, new, old, Started
<1>12. BilledByWindow'
  <2> SUFFICES ASSUME NEW r \in Started, NEW b \in Boundary, dropped[r] = {}
               PROVE  billed[r][b] = SampledShare(r, b)'
    BY <1>4 DEF BilledByWindow
  <2>1. SampledShare(r, b)' = SampledShare(r, b)
    BY <1>2, <1>3 DEF SampledShare, IsPosted, new, old, Started
  <2> QED BY <2>1 DEF Inv, BilledByWindow
<1> QED BY <1>5, <1>7, <1>8, <1>9, <1>10, <1>11, <1>12 DEF Inv

\* What was over stays over.
LEMMA TickKeepsInv ==
    ASSUME Inv, Tick
    PROVE  Inv'
<1> USE DEF Tick, workerVars, ledgerVars
<1>1. now \in Int /\ now' \in Time /\ now < now'
  <2>1. now \in Int /\ 0 <= now /\ now < Horizon /\ Horizon \in Int
    BY TimeIsInt DEF Inv, TypeOK, StoreTypeOK
  <2>2. now' = now + 1 /\ 0 <= now' /\ now' <= Horizon /\ now' \in Int
    BY <2>1
  <2> QED BY <2>1, <2>2, TimeIsInt
<1>2. TypeOK' /\ RequestsInv'
  BY <1>1 DEF Inv, TypeOK, StoreTypeOK, ReceiverTypeOK, RequestsInv, WorkerTypeOK, LedgerTypeOK
<1>3. Started' = Started
  BY DEF Started
<1>4. SpansInv'
  <2> SUFFICES ASSUME NEW s \in Started
               PROVE  SpanInv(s)'
    BY <1>3 DEF SpansInv
  <2>1. SpanInv(s)
    BY DEF Inv, SpansInv
  <2>2. spans[s].planned # None => spans[s].planned.end \in Int
    BY StartedIsSpan, SpanFields, PlanFields, TimeIsInt DEF Inv
  <2> QED BY <1>1, <2>1, <2>2, TimeIsInt DEF SpanInv
<1>5. QueuesInv'
  <2> SUFFICES ASSUME NEW w \in Workers, NEW item \in queue[w]
               PROVE  SnapshotInv(item.id, item.doc)'
    BY DEF QueuesInv
  <2>1. SnapshotInv(item.id, item.doc) /\ item \in Snapshot
    BY DEF Inv, QueuesInv, TypeOK, WorkerTypeOK
  <2>2. item.doc.end = None => NextStart(item.doc.last) \in Int
    BY <2>1, SnapshotFields, SpanFields, NextStartProperties, TimeIsInt DEF SnapshotInv
  <2>3. item.doc.end = None => NextStart(item.doc.last) <= now'
    BY <1>1, <2>1, <2>2, TimeIsInt DEF SnapshotInv
  <2> QED BY <1>3, <2>1, <2>3 DEF SnapshotInv, Harmless
<1>6. GuidsInv' /\ JobsInv' /\ SweepsInv'
  BY <1>3 DEF Inv, GuidsInv, JobsInv, JobInv, SweepsInv, Harmless
<1>7. BilledByWindow'
  BY <1>3 DEF Inv, BilledByWindow, SampledShare, IsPosted
<1> QED BY <1>2, <1>4, <1>5, <1>6, <1>7 DEF Inv

-----------------------------------------------------------------------------
\* Steps of Workers preserve the invariant.

\* Leaving a snapshot, or all of them, leaves the others as they are.
LEMMA QueueShrinks ==
    ASSUME WorkerTypeOK, NEW w \in Workers, NEW item, Done(w, item) \/ Abort(w)
    PROVE  /\ queue' \in [Workers -> SUBSET Snapshot]
           /\ \A v \in Workers : queue'[v] \subseteq queue[v]
           /\ \A v \in Workers : v # w => queue'[v] = queue[v]
  BY DEF WorkerTypeOK, Done, Abort

\* What the invariant says of a snapshot in a batch.
LEMMA SnapshotFacts ==
    ASSUME Inv, NEW w \in Workers, NEW item \in queue[w]
    PROVE  /\ item \in Snapshot
           /\ SnapshotInv(item.id, item.doc)
           /\ item.id \in Started /\ item.id \in SpanIds
           /\ spans[item.id] \in Span /\ item.doc \in Span
           /\ item.doc.planned # None => item.doc.planned \in Plan
<1>1. item \in Snapshot /\ SnapshotInv(item.id, item.doc)
  BY DEF Inv, QueuesInv, TypeOK, WorkerTypeOK
<1>2. item.id \in Started /\ item.id \in SpanIds /\ item.doc \in Span
  BY <1>1, SnapshotFields DEF SnapshotInv
<1> QED BY <1>1, <1>2, StartedIsSpan, SpanFields DEF Inv

\* What is read of an incomplete span is a sound snapshot.
LEMMA PollKeepsInv ==
    ASSUME Inv, NEW w \in Workers, Poll(w), UNCHANGED request
    PROVE  Inv'
<1> DEFINE found == FindIncompleteSpans(OneWindowBefore(now))
<1>1. PICK batch \in SUBSET found :
          queue' = [queue EXCEPT ![w] = {[id |-> s, doc |-> spans[s]] : s \in batch}]
  BY DEF Poll, Batches
<1>2. ASSUME NEW s \in batch
      PROVE  /\ s \in Started /\ s \in SpanIds /\ spans[s] \in Span
             /\ ~spans[s].complete
             /\ spans[s].end = None => spans[s].last < OneWindowBefore(now)
  <2>1. s \in Started /\ ~spans[s].complete
        /\ (spans[s].end = None => spans[s].last < OneWindowBefore(now))
    BY <1>1, <1>2 DEF FindIncompleteSpans, Docs, Started
  <2> QED BY <2>1, StartedIsSpan DEF Inv
<1> HIDE DEF found
<1> USE DEF Poll, storeVars, ledgerVars
<1>3. now \in Time
  BY DEF Inv, TypeOK, StoreTypeOK
<1>4. ASSUME NEW s \in batch
      PROVE  SnapshotInv(s, spans[s])
  <2>1. spans[s].end = None => spans[s].last < Horizon /\ NextStart(spans[s].last) <= now
    BY <1>2, <1>3, SpanFields, WindowOfOpenSpanIsOver
  <2>2. SpanInv(s)
    BY <1>2 DEF Inv, SpansInv
  <2>3. spans[s].version \in Nat
    BY <1>2, SpanFields
  <2> QED BY <1>2, <2>1, <2>2, <2>3 DEF SnapshotInv, SpanInv
<1>5. /\ queue' \in [Workers -> SUBSET Snapshot]
      /\ \A v \in Workers : v # w => queue'[v] = queue[v]
      /\ queue'[w] = {[id |-> s, doc |-> spans[s]] : s \in batch}
  <2>1. \A s \in batch : [id |-> s, doc |-> spans[s]] \in Snapshot
    BY <1>2 DEF Snapshot
  <2> QED BY <1>1, <2>1 DEF Inv, TypeOK, WorkerTypeOK
<1>6. TypeOK' /\ RequestsInv'
  BY <1>5 DEF Inv, TypeOK, StoreTypeOK, ReceiverTypeOK, WorkerTypeOK, LedgerTypeOK, RequestsInv
<1>7. Started' = Started
  BY DEF Started
<1>8. QueuesInv'
  <2> SUFFICES ASSUME NEW v \in Workers, NEW item \in queue'[v]
               PROVE  SnapshotInv(item.id, item.doc)'
    BY DEF QueuesInv
  <2>1. SnapshotInv(item.id, item.doc)
    <3>1. CASE v = w
      BY <1>4, <1>5, <3>1
    <3>2. CASE v # w
      BY <1>5, <3>2 DEF Inv, QueuesInv
    <3> QED BY <3>1, <3>2
  <2> QED BY <1>7, <2>1 DEF SnapshotInv, Harmless
<1>9. JobsInv'
  <2>1. queue[w] = {}
    OBVIOUS
  <2> QED BY <1>5, <2>1 DEF Inv, JobsInv, JobInv, Harmless
<1>10. SpansInv' /\ GuidsInv' /\ SweepsInv' /\ BilledByWindow'
  BY <1>7 DEF Inv, SpansInv, SpanInv, GuidsInv, SweepsInv, BilledByWindow, SampledShare, IsPosted
<1> QED BY <1>6, <1>8, <1>9, <1>10 DEF Inv

\* A snapshot is left, and nothing else happens.
LEMMA LeavingKeepsInv ==
    ASSUME Inv, NEW w \in Workers, NEW item, Done(w, item) \/ Abort(w),
           \/ job[w] = None /\ UNCHANGED job
           \/ job' = [job EXCEPT ![w] = None],
           UNCHANGED <<storeVars, ledgerVars, request, sweep, lastGuid>>
    PROVE  Inv'
<1> USE DEF storeVars, ledgerVars
<1>1. /\ queue' \in [Workers -> SUBSET Snapshot]
      /\ \A v \in Workers : queue'[v] \subseteq queue[v]
      /\ \A v \in Workers : v # w => queue'[v] = queue[v]
  BY QueueShrinks DEF Inv, TypeOK
<1>2. /\ job' \in [Workers -> Snapshot \cup {None}]
      /\ job'[w] = None
      /\ \A v \in Workers : v # w => job'[v] = job[v]
  BY DEF Inv, TypeOK, WorkerTypeOK
<1>3. TypeOK' /\ RequestsInv'
  BY <1>1, <1>2 DEF Inv, TypeOK, StoreTypeOK, ReceiverTypeOK, WorkerTypeOK, LedgerTypeOK, RequestsInv
<1>4. Started' = Started
  BY DEF Started
<1>5. QueuesInv'
  BY <1>1, <1>4 DEF Inv, QueuesInv, SnapshotInv, Harmless
<1>6. JobsInv'
  BY <1>1, <1>2 DEF Inv, JobsInv, JobInv, Harmless
<1>7. SpansInv' /\ GuidsInv' /\ SweepsInv' /\ BilledByWindow'
  BY <1>4 DEF Inv, SpansInv, SpanInv, GuidsInv, SweepsInv, BilledByWindow, SampledShare, IsPosted
<1> QED BY <1>3, <1>5, <1>6, <1>7 DEF Inv

\* The plan of a snapshot, in the case that the document still has its version: it
\* is a new plan, from where the span has been sampled to, within a window, and over
\* unless the span has been stopped.
LEMMA PlanIsSound ==
    ASSUME Inv, NEW w \in Workers, NEW item \in queue[w], item.doc.planned = None,
           spans[item.id].version = item.doc.version
    PROVE  LET plan == NextPlan(item) IN
           /\ plan \in Plan
           /\ plan.start = spans[item.id].last
           /\ NoBoundaryBetween(plan.start, plan.end)
           /\ plan.guid = lastGuid[item.id] + 1
           /\ plan.guid \notin accepted[item.id]
           /\ spans[item.id].end = None => plan.end <= now
<1> DEFINE s == item.id
<1> DEFINE doc == item.doc
<1> DEFINE end == NextIntervalEnd(doc.last, doc.end)
<1>1. /\ SnapshotInv(s, doc) /\ s \in SpanIds /\ s \in Started
      /\ doc.last \in Time /\ doc.end \in Time \cup {None}
  BY SnapshotFacts, SpanFields
<1>2. /\ doc.end \in (Time \ {0}) \cup {None}
      /\ doc.end = None => doc.last < Horizon /\ NextStart(doc.last) <= now
      /\ doc.end # None => spans[s].end = doc.end
      /\ doc.last = spans[s].last
  BY <1>1 DEF SnapshotInv
<1> HIDE DEF s, doc
<1>3. end \in Time /\ NoBoundaryBetween(doc.last, end)
  BY <1>1, <1>2, NextIntervalStaysInWindow
<1>4. spans[s].end = None => end <= now
  BY <1>2 DEF NextIntervalEnd
<1>5. /\ lastGuid[s] \in Nat /\ lastGuid[s] + 1 \in Nat
      /\ \A g \in accepted[s] : g \in Nat /\ g <= lastGuid[s]
  BY <1>1, UsagesAreSpans DEF Inv, GuidsInv, TypeOK, WorkerTypeOK, LedgerTypeOK
<1>6. lastGuid[s] + 1 \notin accepted[s]
  BY <1>5
<1>7. NextPlan(item) = [start |-> doc.last, end |-> end, guid |-> lastGuid[s] + 1]
  BY DEF NextPlan, s, doc
<1> QED BY <1>1, <1>2, <1>3, <1>4, <1>5, <1>6, <1>7 DEF Plan, s, doc

\* Planning an interval outdates every snapshot of the span, none of which had a plan.
LEMMA PlanIntervalKeepsInv ==
    ASSUME Inv, NEW w \in Workers, PlanInterval(w), UNCHANGED request
    PROVE  Inv'
<1> PICK item \in queue[w], applied \in BOOLEAN :
        /\ job[w] = None
        /\ item.doc.planned = None
        /\ UpdateSpanPlannedInterval(item.id, NextPlan(item), item.doc.version, applied)
        /\ lastGuid' = IF applied THEN [lastGuid EXCEPT ![item.id] = @ + 1] ELSE lastGuid
        /\ Done(w, item)
        /\ UNCHANGED <<ledgerVars, job, sweep>>
  BY DEF PlanInterval
<1> USE DEF storeVars, ledgerVars
<1>1. CASE ~applied
  BY <1>1, LeavingKeepsInv DEF UpdateSpanPlannedInterval
<1>2. CASE applied
  <2> DEFINE s == item.id
  <2> DEFINE old == spans[s]
  <2> DEFINE new == spans'[s]
  <2> DEFINE plan == NextPlan(item)
  <2>1. /\ s \in Started /\ s \in SpanIds /\ old \in Span /\ item.doc \in Span
        /\ SnapshotInv(s, item.doc)
    BY SnapshotFacts
  <2>2. /\ old.version = item.doc.version
        /\ spans' = [spans EXCEPT ![s] = Planned(@, plan, old.version)]
        /\ lastGuid' = [lastGuid EXCEPT ![s] = @ + 1]
        /\ UNCHANGED <<now, deleted>>
    BY <1>2 DEF UpdateSpanPlannedInterval, Unchanged
  <2>3. /\ plan \in Plan /\ plan # None /\ plan.start = old.last
        /\ NoBoundaryBetween(plan.start, plan.end)
        /\ plan.guid = lastGuid[s] + 1 /\ plan.guid \notin accepted[s]
        /\ old.end = None => plan.end <= now
    BY <2>2, PlanIsSound, PlanFields
  <2>4. spans \in [SpanIds -> Span \cup {None}]
    BY DEF Inv, TypeOK, StoreTypeOK
  <2>5. new = Planned(old, plan, old.version)
    BY <2>1, <2>2, <2>4
  <2>6. /\ new \in Span /\ new # None /\ new.planned = plan
        /\ new.version = old.version + 1 /\ old.version \in Nat
        /\ new.start = old.start /\ new.last = old.last
        /\ new.end = old.end /\ new.complete = old.complete
    BY ONLY <2>1, <2>3, <2>5, PlannedFields, SpanFields
  <2>7. /\ DOMAIN spans' = SpanIds /\ spans' = [r \in SpanIds |-> spans'[r]]
        /\ \A r \in SpanIds : r # s => spans'[r] = spans[r]
    BY <2>2, <2>4
  <2>8. /\ lastGuid' \in [SpanIds -> Nat]
        /\ lastGuid[s] \in Nat /\ lastGuid'[s] = lastGuid[s] + 1
        /\ \A r \in SpanIds : r # s => lastGuid'[r] = lastGuid[r]
    BY <2>1, <2>2 DEF Inv, TypeOK, WorkerTypeOK
  <2>9. ~old.complete /\ old.planned = None
    BY <2>1, <2>2 DEF SnapshotInv
  <2>10. Started' = Started
    BY <2>1, <2>6, <2>7 DEF Started
  <2> HIDE DEF s, old, new, plan
  <2>11. /\ queue' \in [Workers -> SUBSET Snapshot]
         /\ \A v \in Workers : queue'[v] \subseteq queue[v]
         /\ \A v \in Workers : v # w => queue'[v] = queue[v]
    BY QueueShrinks DEF Inv, TypeOK
  <2>12. TypeOK' /\ RequestsInv'
    <3>1. spans' \in [SpanIds -> Span \cup {None}]
      BY <2>4, <2>6, <2>7 DEF new
    <3>2. StoreTypeOK'
      BY <2>2, <2>10, <3>1 DEF Inv, TypeOK, StoreTypeOK, Started
    <3> QED BY <2>8, <2>11, <3>2
            DEF Inv, TypeOK, ReceiverTypeOK, RequestsInv, WorkerTypeOK, LedgerTypeOK
  <2>13. SpansInv'
    <3>1. SpanInv(s)'
      <4>1. plan.guid <= lastGuid'[s]
        BY <2>3, <2>8
      <4>2. SpanInv(s)
        BY <2>1 DEF Inv, SpansInv
      <4> QED BY <2>2, <2>3, <2>6, <2>9, <4>1, <4>2 DEF SpanInv, old, new
    <3>2. ASSUME NEW r \in Started, r # s
          PROVE  SpanInv(r)'
      BY <2>2, <2>7, <2>8, <3>2 DEF Inv, SpansInv, SpanInv, Started
    <3> QED BY <2>10, <3>1, <3>2 DEF SpansInv
  <2>14. GuidsInv'
    <3> SUFFICES ASSUME NEW r \in SpanIds
                 PROVE  /\ \A g \in accepted[r] : g <= lastGuid'[r]
                        /\ r \notin Started => billed[r] = [b \in Boundary |-> 0]
      BY <2>10 DEF GuidsInv
    <3>1. /\ \A g \in accepted[r] : g \in Nat /\ g <= lastGuid[r]
          /\ r \notin Started => billed[r] = [b \in Boundary |-> 0]
      BY UsagesAreSpans DEF Inv, GuidsInv, TypeOK, LedgerTypeOK
    <3> QED BY <2>8, <3>1
  <2>15. QueuesInv'
    <3> SUFFICES ASSUME NEW v \in Workers, NEW i \in queue'[v]
                 PROVE  SnapshotInv(i.id, i.doc)'
      BY DEF QueuesInv
    <3>1. /\ SnapshotInv(i.id, i.doc) /\ i.doc.version \in Nat /\ i.id \in SpanIds
          /\ i.doc.planned # None => i.doc.planned.guid \in Nat
      BY <2>11, SnapshotFacts, SpanFields, PlanFields
    <3>2. CASE i.id = s
      <4>1. i.doc.version # new.version /\ i.doc.version <= new.version
        BY <2>6, <3>1, <3>2 DEF SnapshotInv, old
      <4>2. i.doc.planned # None => Harmless(s, i.doc.planned)
        BY <2>9, <3>1, <3>2 DEF SnapshotInv, old
      <4>3. i.doc.planned # None => i.doc.planned.guid <= lastGuid'[s]
        BY <2>8, <3>1, <3>2 DEF SnapshotInv
      <4> QED BY <2>2, <2>6, <2>10, <3>1, <3>2, <4>1, <4>2, <4>3
              DEF SnapshotInv, Harmless, old, new
    <3>3. CASE i.id # s
      BY <2>2, <2>7, <2>8, <2>10, <3>1, <3>3 DEF SnapshotInv, Harmless
    <3> QED BY <3>2, <3>3
  <2>16. JobsInv'
    BY <2>11 DEF Inv, JobsInv, JobInv, Harmless
  <2>17. SweepsInv'
    BY <2>2, <2>6, <2>7, <2>10 DEF Inv, SweepsInv, Started, old, new
  <2>18. BilledByWindow'
    <3> SUFFICES ASSUME NEW r \in Started, NEW b \in Boundary, dropped[r] = {}
                 PROVE  billed[r][b] = SampledShare(r, b)'
      BY <2>10 DEF BilledByWindow
    <3>1. SampledShare(r, b)' = SampledShare(r, b)
      <4>1. CASE r = s
        BY <2>3, <2>6, <2>9, <4>1 DEF SampledShare, IsPosted, old, new
      <4>2. CASE r # s
        BY <2>7, <4>2 DEF SampledShare, IsPosted, Started
      <4> QED BY <4>1, <4>2
    <3> QED BY <3>1 DEF Inv, BilledByWindow
  <2> QED BY <2>12, <2>13, <2>14, <2>15, <2>16, <2>17, <2>18 DEF Inv
<1> QED BY <1>1, <1>2

\* The usage of a snapshot has been posted, whatever came of it: either it is new,
\* and then the snapshot is up to date and the plan is the one of the document, or
\* no bill that is still promised changes.
LEMMA PostKeepsInv ==
    ASSUME Inv, NEW w \in Workers, NEW item \in queue[w], Posting(w, item),
           LedgerStep(item.id, item.doc.planned),
           \/ UNCHANGED queue /\ job' = [job EXCEPT ![w] = item]
           \/ Abort(w) /\ UNCHANGED job,
           UNCHANGED <<storeVars, request, sweep, lastGuid>>
    PROVE  Inv'
<1> DEFINE u == item.id
<1> DEFINE plan == item.doc.planned
<1> USE DEF storeVars
<1>1. /\ SnapshotInv(u, item.doc) /\ u \in Started /\ u \in SpanIds
      /\ item \in Snapshot /\ item # None /\ plan # None /\ plan \in Plan
      /\ spans[u] \in Span
  BY SnapshotFacts, SnapshotFields DEF Posting
<1>2. LedgerStep(u, plan)
  OBVIOUS
<1> HIDE DEF u, plan
<1>3. /\ queue' \in [Workers -> SUBSET Snapshot]
      /\ \A v \in Workers : queue'[v] \subseteq queue[v]
      /\ \A v \in Workers : v # w => queue'[v] = queue[v]
  <2>1. queue \in [Workers -> SUBSET Snapshot]
    BY DEF Inv, TypeOK, WorkerTypeOK
  <2> QED BY <2>1, QueueShrinks DEF Inv, TypeOK
<1>4. /\ job' \in [Workers -> Snapshot \cup {None}]
      /\ \A v \in Workers : v # w => job'[v] = job[v]
      /\ job'[w] = None \/ (job'[w] = item /\ queue' = queue)
  <2>1. job \in [Workers -> Snapshot \cup {None}] /\ job[w] = None
    BY DEF Inv, TypeOK, WorkerTypeOK, Posting
  <2> QED BY <1>1, <2>1
<1>5. TypeOK' /\ RequestsInv'
  BY <1>2, <1>3, <1>4
     DEF Inv, TypeOK, StoreTypeOK, ReceiverTypeOK, WorkerTypeOK, RequestsInv, LedgerStep
<1>6. Started' = Started
  BY DEF Started
<1>7. SpansInv'
  BY <1>6 DEF Inv, SpansInv, SpanInv
<1>8. GuidsInv'
  <2> SUFFICES ASSUME NEW r \in SpanIds
               PROVE  /\ \A g \in accepted'[r] : g <= lastGuid[r]
                      /\ r \notin Started => billed'[r] = [b \in Boundary |-> 0]
    BY <1>6 DEF GuidsInv
  <2>1. plan.guid <= lastGuid[u]
    BY <1>1 DEF SnapshotInv, plan
  <2> QED BY <1>1, <1>2, <2>1 DEF Inv, GuidsInv, LedgerStep
<1>9. \A r \in SpanIds, p \in Plan : Harmless(r, p) => Harmless(r, p)'
  BY <1>1, <1>2 DEF Harmless, LedgerStep
<1>10. QueuesInv'
  <2> SUFFICES ASSUME NEW v \in Workers, NEW i \in queue'[v]
               PROVE  SnapshotInv(i.id, i.doc)'
    BY DEF QueuesInv
  <2>1. SnapshotInv(i.id, i.doc) /\ i.id \in SpanIds
        /\ (i.doc.planned # None => i.doc.planned \in Plan)
    BY <1>3, SnapshotFacts
  <2>2. i.doc.planned # None /\ Harmless(i.id, i.doc.planned) => Harmless(i.id, i.doc.planned)'
    BY <1>9, <2>1
  <2> QED BY <1>6, <2>1, <2>2 DEF SnapshotInv
<1>11. JobsInv'
  <2> SUFFICES ASSUME NEW v \in Workers
               PROVE  JobInv(v)'
    BY DEF JobsInv
  <2>1. CASE v = w
    BY <1>1, <1>2, <1>4, <2>1 DEF JobInv, LedgerStep, u, plan
  <2>2. CASE v # w
    <3>1. JobInv(v) /\ job'[v] = job[v] /\ queue'[v] = queue[v]
      BY <1>3, <1>4, <2>2 DEF Inv, JobsInv
    <3>2. job[v] # None => /\ job[v].id \in SpanIds
                           /\ job[v].doc.planned # None => job[v].doc.planned \in Plan
      BY <3>1, SnapshotFacts DEF JobInv
    <3> QED BY <1>9, <3>1, <3>2 DEF JobInv
  <2> QED BY <2>1, <2>2
<1>12. SweepsInv'
  BY <1>6 DEF Inv, SweepsInv
<1>13. BilledByWindow'
  <2> SUFFICES ASSUME NEW r \in Started, NEW b \in Boundary, dropped'[r] = {}
               PROVE  billed'[r][b] = SampledShare(r, b)'
    BY <1>6 DEF BilledByWindow
  <2>1. r \in SpanIds
    BY DEF Started
  <2>2. dropped[r] = {}
    BY <1>1, <1>2, <2>1 DEF LedgerStep
  <2>3. billed[r][b] = SampledShare(r, b)
    BY <2>2 DEF Inv, BilledByWindow
  <2>4. CASE accepted'[r] = accepted[r] /\ billed'[r] = billed[r]
    BY <2>3, <2>4 DEF SampledShare, IsPosted
  <2>5. CASE /\ r = u
             /\ plan.guid \notin accepted[u]
             /\ accepted'[u] = accepted[u] \cup {plan.guid}
             /\ billed'[u][b] = billed[u][b] + Share(plan.start, plan.end, b)
    <3>1. ~Harmless(u, plan)
      BY <2>2, <2>5 DEF Harmless
    <3>2. spans[u].planned = plan
      BY <1>1, <3>1 DEF SnapshotInv, plan
    <3>3. ~IsPosted(u) /\ IsPosted(u)'
      BY <1>1, <2>5, <3>2 DEF IsPosted
    <3>4. /\ Share(spans[u].start, spans[u].last, b) \in Int
          /\ Share(plan.start, plan.end, b) \in Int
      BY <1>1, SpanFields, PlanFields, ShareAdds
    <3>5. SampledShare(u, b) = Share(spans[u].start, spans[u].last, b) + 0
      BY <3>3 DEF SampledShare
    <3>6. SampledShare(u, b)' =
            Share(spans[u].start, spans[u].last, b) + Share(plan.start, plan.end, b)
      BY <3>2, <3>3 DEF SampledShare
    <3> QED BY <2>3, <2>5, <3>4, <3>5, <3>6
  <2> QED BY <1>2, <2>1, <2>4, <2>5 DEF LedgerStep
<1> QED BY <1>5, <1>7, <1>8, <1>10, <1>11, <1>12, <1>13 DEF Inv

\* Whatever comes of a post.
LEMMA PostsKeepInv ==
    ASSUME Inv, NEW w \in Workers, UNCHANGED request,
           PostAccepted(w) \/ PostAnswerLost(w) \/ PostRefused(w) \/ PostFailed(w)
    PROVE  Inv'
<1>1. now \in Time /\ LedgerTypeOK
  BY DEF Inv, TypeOK, StoreTypeOK
<1>2. ASSUME NEW item \in queue[w], Posting(w, item)
      PROVE  /\ item.id \in SpanIds /\ item.doc.planned \in Plan
             /\ NoBoundaryBetween(item.doc.planned.start, item.doc.planned.end)
  BY <1>2, SnapshotFacts DEF Posting, SnapshotInv
<1>3. CASE PostAccepted(w)
  <2> PICK item \in queue[w] :
          /\ Posting(w, item)
          /\ TakeIn(item.id, item.doc.planned, now)
          /\ job' = [job EXCEPT ![w] = item]
          /\ UNCHANGED <<storeVars, queue, sweep, lastGuid>>
    BY <1>3 DEF PostAccepted
  <2>1. LedgerStep(item.id, item.doc.planned)
    BY <1>1, <1>2, TakeInEffect
  <2> QED BY <2>1, PostKeepsInv
<1>4. CASE PostAnswerLost(w)
  <2> PICK item \in queue[w] :
          /\ Posting(w, item)
          /\ TakeIn(item.id, item.doc.planned, now)
          /\ Abort(w)
          /\ UNCHANGED <<storeVars, job, sweep, lastGuid>>
    BY <1>4 DEF PostAnswerLost
  <2>1. LedgerStep(item.id, item.doc.planned)
    BY <1>1, <1>2, TakeInEffect
  <2> QED BY <2>1, PostKeepsInv
<1>5. CASE PostRefused(w)
  <2> PICK item \in queue[w] :
          /\ Posting(w, item)
          /\ RefuseForLegalReasons(item.id)
          /\ job' = [job EXCEPT ![w] = item]
          /\ UNCHANGED <<storeVars, queue, sweep, lastGuid>>
    BY <1>5 DEF PostRefused
  <2>1. LedgerStep(item.id, item.doc.planned)
    BY <1>1, <1>2, RefuseEffect
  <2> QED BY <2>1, PostKeepsInv
<1>6. CASE PostFailed(w)
  <2>1. job[w] = None /\ Abort(w) /\ UNCHANGED <<storeVars, ledgerVars, job, sweep, lastGuid>>
    BY <1>6 DEF PostFailed, Posting
  <2> QED BY <2>1, LeavingKeepsInv
<1> QED BY <1>3, <1>4, <1>5, <1>6

\* The span goes on by an interval that is in the bill, and every snapshot of it with a
\* plan holds this one or an older one.
LEMMA ProcessIntervalKeepsInv ==
    ASSUME Inv, NEW w \in Workers, ProcessInterval(w), UNCHANGED request
    PROVE  Inv'
<1> PICK item \in queue[w], applied \in BOOLEAN :
        /\ item = job[w]
        /\ item.doc.planned # None
        /\ Harmless(item.id, item.doc.planned)
        /\ UpdateSpanProcessedInterval(item.id, item.doc.planned, ReachesEnd(item.doc),
                                       item.doc.version, applied)
        /\ job' = [job EXCEPT ![w] = None]
        /\ Done(w, item)
        /\ UNCHANGED <<ledgerVars, sweep, lastGuid>>
  BY DEF ProcessInterval, Inv, JobsInv, JobInv
<1> USE DEF storeVars, ledgerVars
<1>1. CASE ~applied
  BY <1>1, LeavingKeepsInv DEF UpdateSpanProcessedInterval
<1>2. CASE applied
  <2> DEFINE s == item.id
  <2> DEFINE old == spans[s]
  <2> DEFINE new == spans'[s]
  <2> DEFINE plan == item.doc.planned
  <2> DEFINE complete == ReachesEnd(item.doc)
  <2>1. /\ s \in Started /\ s \in SpanIds /\ old \in Span /\ item.doc \in Span
        /\ SnapshotInv(s, item.doc) /\ plan \in Plan /\ complete \in BOOLEAN
    BY SnapshotFacts DEF ReachesEnd
  <2>2. /\ old.version = item.doc.version
        /\ spans' = [spans EXCEPT ![s] = Processed(@, plan, complete, old.version)]
        /\ UNCHANGED <<now, deleted>>
    BY <1>2 DEF UpdateSpanProcessedInterval, Unchanged
  <2>3. spans \in [SpanIds -> Span \cup {None}]
    BY DEF Inv, TypeOK, StoreTypeOK
  <2>4. new = Processed(old, plan, complete, old.version)
    BY <2>1, <2>2, <2>3
  <2> HIDE DEF s, old, new, plan, complete
  <2>5. /\ new \in Span /\ new # None /\ new.planned = None
        /\ new.version = old.version + 1 /\ old.version \in Nat
        /\ new.start = old.start /\ new.end = old.end
        /\ new.last = plan.end
    <3>1. ASSUME NEW c \in BOOLEAN, new = Processed(old, plan, c, old.version)
          PROVE  /\ new \in Span /\ new.planned = None /\ new.version = old.version + 1
                 /\ new.start = old.start /\ new.end = old.end /\ new.last = plan.end
      BY <2>1, <3>1, ProcessedFields
    <3>2. /\ new \in Span /\ new.planned = None /\ new.version = old.version + 1
          /\ new.start = old.start /\ new.end = old.end /\ new.last = plan.end
      BY ONLY <2>1, <2>4, <3>1, Zenon
    <3> QED BY ONLY <2>1, <3>2, SpanFields
  <2>6. /\ DOMAIN spans' = SpanIds /\ spans' = [r \in SpanIds |-> spans'[r]]
        /\ \A r \in SpanIds : r # s => spans'[r] = spans[r]
    BY <2>2, <2>3
  <2>7. ~old.complete /\ old.planned = plan
    BY <2>1, <2>2 DEF SnapshotInv, s, old, plan
  <2>8. Started' = Started
    BY <2>1, <2>5, <2>6 DEF Started, new
  <2>9. new.complete => new.end = plan.end /\ new.end # None
    <3>1. new.complete => complete
      BY ONLY <2>1, <2>4, ProcessedFields
    <3>2. complete => old.end = plan.end /\ old.end # None
      BY <2>1, PlanFields, TimeIsInt, NoneAssumption
         DEF SnapshotInv, ReachesEnd, s, old, plan, complete
    <3> QED BY ONLY <2>5, <3>1, <3>2
  <2>10. Harmless(s, plan) /\ plan # None
    BY DEF s, plan
  <2>11. /\ queue' \in [Workers -> SUBSET Snapshot]
         /\ \A v \in Workers : queue'[v] \subseteq queue[v]
         /\ \A v \in Workers : v # w => queue'[v] = queue[v]
    BY QueueShrinks DEF Inv, TypeOK
  <2>12. /\ job' \in [Workers -> Snapshot \cup {None}]
         /\ job'[w] = None
         /\ \A v \in Workers : v # w => job'[v] = job[v]
    BY DEF Inv, TypeOK, WorkerTypeOK
  <2>13. TypeOK' /\ RequestsInv'
    <3>1. spans' \in [SpanIds -> Span \cup {None}]
      BY <2>3, <2>5, <2>6 DEF new
    <3>2. StoreTypeOK'
      BY <2>2, <2>8, <3>1 DEF Inv, TypeOK, StoreTypeOK, Started
    <3> QED BY <2>11, <2>12, <3>2
            DEF Inv, TypeOK, ReceiverTypeOK, RequestsInv, WorkerTypeOK, LedgerTypeOK
  <2>14. SpansInv'
    <3>1. SpanInv(s)'
      <4>1. SpanInv(s)
        BY <2>1 DEF Inv, SpansInv
      <4> QED BY <2>5, <2>9, <4>1 DEF SpanInv, old, new
    <3>2. ASSUME NEW r \in Started, r # s
          PROVE  SpanInv(r)'
      BY <2>2, <2>6, <3>2 DEF Inv, SpansInv, SpanInv, Started
    <3> QED BY <2>8, <3>1, <3>2 DEF SpansInv
  <2>15. GuidsInv'
    BY <2>8 DEF Inv, GuidsInv
  <2>16. QueuesInv'
    <3> SUFFICES ASSUME NEW v \in Workers, NEW i \in queue'[v]
                 PROVE  SnapshotInv(i.id, i.doc)'
      BY DEF QueuesInv
    <3>1. SnapshotInv(i.id, i.doc) /\ i.doc.version \in Nat /\ i.id \in SpanIds
      BY <2>11, SnapshotFacts, SpanFields
    <3>2. CASE i.id = s
      <4>1. i.doc.version # new.version /\ i.doc.version <= new.version
        BY <2>5, <3>1, <3>2 DEF SnapshotInv, old
      <4>2. i.doc.planned # None => Harmless(s, i.doc.planned)
        BY <2>7, <2>10, <3>1, <3>2 DEF SnapshotInv, old
      <4> QED BY <2>2, <2>5, <2>8, <3>1, <3>2, <4>1, <4>2
              DEF SnapshotInv, Harmless, old, new
    <3>3. CASE i.id # s
      BY <2>2, <2>6, <2>8, <3>1, <3>3 DEF SnapshotInv, Harmless
    <3> QED BY <3>2, <3>3
  <2>17. JobsInv'
    BY <2>11, <2>12 DEF Inv, JobsInv, JobInv, Harmless
  <2>18. SweepsInv'
    BY <2>2, <2>5, <2>6, <2>7, <2>8 DEF Inv, SweepsInv, Started, old, new
  <2>19. BilledByWindow'
    <3> SUFFICES ASSUME NEW r \in Started, NEW b \in Boundary, dropped[r] = {}
                 PROVE  billed[r][b] = SampledShare(r, b)'
      BY <2>8 DEF BilledByWindow
    <3>1. billed[r][b] = SampledShare(r, b)
      BY DEF Inv, BilledByWindow
    <3>2. CASE r = s
      <4>1. IsPosted(s) /\ ~IsPosted(s)'
        BY <2>5, <2>7, <2>10, <3>2 DEF IsPosted, Harmless, old, new
      <4>2. /\ plan.start = old.last
            /\ old.start \in Time /\ old.last \in Time /\ plan.end \in Time
        BY <2>1, <2>7, <2>10, SpanFields, PlanFields DEF Inv, SpansInv, SpanInv, old
      <4>3. SampledShare(s, b) = Share(old.start, old.last, b) + Share(old.last, plan.end, b)
        BY <2>7, <4>1, <4>2 DEF SampledShare, old
      <4>4. SampledShare(s, b)' = Share(old.start, plan.end, b) + 0
        BY <2>5, <4>1 DEF SampledShare, new
      <4>5. /\ Share(old.start, plan.end, b) \in Int
            /\ Share(old.start, old.last, b) + Share(old.last, plan.end, b)
                 = Share(old.start, plan.end, b)
        BY <4>2, ShareAdds
      <4> QED BY <3>1, <3>2, <4>3, <4>4, <4>5
    <3>3. CASE r # s
      BY <2>6, <3>1, <3>3 DEF SampledShare, IsPosted, Started
    <3> QED BY <3>2, <3>3
  <2> QED BY <2>13, <2>14, <2>15, <2>16, <2>17, <2>18, <2>19 DEF Inv
<1> QED BY <1>1, <1>2

\* Reading what to delete, deleting it, and crashing leave the documents alone.
LEMMA CleanupKeepsInv ==
    ASSUME Inv, NEW w \in Workers, UNCHANGED request,
           FindForCleanup(w) \/ Cleanup(w) \/ Crash(w)
    PROVE  Inv'
<1> USE DEF storeVars, ledgerVars
<1>1. /\ UNCHANGED <<now, spans, accepted, billed, dropped, lastGuid>>
      /\ Started' = Started
  BY DEF FindForCleanup, Cleanup, Crash, DeleteSpansByIDs, Started
<1>2. /\ sweep' \in [Workers -> SUBSET SpanIds]
      /\ \A v \in Workers : \A s \in sweep'[v] : s \in Started /\ spans[s].complete
      /\ \A s \in deleted' : s \in Started /\ spans[s].complete
  <2>1. /\ sweep \in [Workers -> SUBSET SpanIds]
        /\ \A v \in Workers : \A s \in sweep[v] : s \in Started /\ spans[s].complete
        /\ \A s \in deleted : s \in Started /\ spans[s].complete
    BY DEF Inv, TypeOK, WorkerTypeOK, SweepsInv
  <2>2. CASE FindForCleanup(w)
    <3>1. PICK batch \in SUBSET FindCompleteSpans(now - CleanupAge) :
              sweep' = [sweep EXCEPT ![w] = batch]
      BY <2>2 DEF FindForCleanup, Batches
    <3>2. \A s \in batch : s \in Started /\ s \in SpanIds /\ spans[s].complete
      BY <3>1 DEF FindCompleteSpans, Docs, Started
    <3> QED BY <2>1, <2>2, <3>1, <3>2 DEF FindForCleanup
  <2>3. CASE Cleanup(w)
    BY <2>1, <2>3 DEF Cleanup, DeleteSpansByIDs
  <2>4. CASE Crash(w)
    BY <2>1, <2>4 DEF Crash
  <2> QED BY <2>2, <2>3, <2>4
<1>3. /\ queue' \in [Workers -> SUBSET Snapshot]
      /\ job' \in [Workers -> Snapshot \cup {None}]
      /\ \A v \in Workers : queue'[v] \subseteq queue[v]
      /\ \A v \in Workers : job'[v] # None => job'[v] = job[v] /\ queue'[v] = queue[v]
  BY DEF FindForCleanup, Cleanup, Crash, Inv, TypeOK, WorkerTypeOK
<1>4. TypeOK' /\ RequestsInv'
  <2>1. StoreTypeOK'
    BY <1>1, <1>2 DEF Inv, TypeOK, StoreTypeOK, Started
  <2> QED BY <1>1, <1>2, <1>3, <2>1
          DEF Inv, TypeOK, ReceiverTypeOK, RequestsInv, WorkerTypeOK, LedgerTypeOK
<1>5. QueuesInv'
  BY <1>1, <1>3 DEF Inv, QueuesInv, SnapshotInv, Harmless
<1>6. JobsInv'
  BY <1>1, <1>3 DEF Inv, JobsInv, JobInv, Harmless
<1>7. SweepsInv'
  BY <1>1, <1>2 DEF SweepsInv
<1>8. SpansInv' /\ GuidsInv' /\ BilledByWindow'
  BY <1>1 DEF Inv, SpansInv, SpanInv, GuidsInv, BilledByWindow, SampledShare, IsPosted
<1> QED BY <1>4, <1>5, <1>6, <1>7, <1>8 DEF Inv

-----------------------------------------------------------------------------
\* The invariant.

\* Nothing has been started, read or billed.
LEMMA InitEstablishesInv ==
    Init => Inv
<1> SUFFICES ASSUME Init PROVE Inv
  OBVIOUS
<1> USE DEF Init, StoreInit, ReceiverInit, WorkerInit, LedgerInit
<1>1. Started = {}
  BY DEF Started
<1>2. StoreTypeOK
  BY TimeIsInt, HorizonAssumption DEF StoreTypeOK, Time
<1>3. ReceiverTypeOK /\ RequestsInv
  BY DEF ReceiverTypeOK, RequestsInv, Request, NoRequest
<1>4. WorkerTypeOK /\ LedgerTypeOK
  BY DEF WorkerTypeOK, LedgerTypeOK
<1>5. SpansInv /\ BilledByWindow
  BY <1>1 DEF SpansInv, BilledByWindow
<1>6. GuidsInv
  BY UsagesAreSpans DEF GuidsInv
<1>7. QueuesInv /\ JobsInv /\ SweepsInv
  BY DEF QueuesInv, JobsInv, JobInv, SweepsInv
<1> QED BY <1>2, <1>3, <1>4, <1>5, <1>6, <1>7 DEF Inv, TypeOK

\* Every step preserves the invariant.
LEMMA NextKeepsInv ==
    Inv /\ [Next]_vars => Inv'
<1> SUFFICES ASSUME Inv, [Next]_vars PROVE Inv'
  OBVIOUS
<1>1. CASE Tick
  BY <1>1, TickKeepsInv
<1>2. ASSUME NEW h \in Handlers, ReceiverStep(h), UNCHANGED <<workerVars, ledgerVars>>
      PROVE  Inv'
  <2>1. /\ ReceiverTypeOK' /\ RequestsInv' /\ UNCHANGED <<now, deleted>>
        /\ UNCHANGED spans \/ SomeSpanStarted \/ SomeSpanEnded
    BY <1>2, ReceiverStepEffect DEF Inv, TypeOK
  <2>2. CASE UNCHANGED spans
    <3>1. Started' = Started
      BY <2>2 DEF Started
    <3> QED BY <1>2, <2>1, <2>2, <3>1
            DEF Inv, TypeOK, StoreTypeOK, WorkerTypeOK, LedgerTypeOK, SpansInv, SpanInv,
                GuidsInv, QueuesInv, SnapshotInv, Harmless, JobsInv, JobInv, SweepsInv,
                BilledByWindow, SampledShare, IsPosted, workerVars, ledgerVars
  <2> QED BY <1>2, <2>1, <2>2, StartKeepsInv, EndKeepsInv
<1>3. ASSUME NEW w \in Workers, WorkerStep(w), UNCHANGED request
      PROVE  Inv'
  BY <1>3, PollKeepsInv, PlanIntervalKeepsInv, PostsKeepInv, ProcessIntervalKeepsInv,
     CleanupKeepsInv DEF WorkerStep
<1>4. CASE UNCHANGED vars
  <2> USE <1>4 DEF vars, storeVars, workerVars, ledgerVars
  <2>1. TypeOK' /\ RequestsInv'
    BY DEF Inv, TypeOK, StoreTypeOK, ReceiverTypeOK, WorkerTypeOK, LedgerTypeOK, RequestsInv
  <2>2. Started' = Started
    BY DEF Started
  <2>3. SpansInv' /\ GuidsInv' /\ BilledByWindow'
    BY <2>2 DEF Inv, SpansInv, SpanInv, GuidsInv, BilledByWindow, SampledShare, IsPosted
  <2>4. QueuesInv' /\ JobsInv' /\ SweepsInv'
    BY <2>2 DEF Inv, QueuesInv, SnapshotInv, Harmless, JobsInv, JobInv, SweepsInv
  <2> QED BY <2>1, <2>3, <2>4 DEF Inv
<1> QED BY <1>1, <1>2, <1>3, <1>4 DEF Next

\* However many Workers and requests there are, and wherever they are interrupted,
\* what a Worker works from is never wrong.
THEOREM InvariantHolds == Spec => []Inv
  BY InitEstablishesInv, NextKeepsInv, PTL DEF Spec

-----------------------------------------------------------------------------
\* What follows from the invariant.

\* No step leaves a document, or a copy of one, that the other processes cannot read.
THEOREM TypeCorrect == Spec => []TypeOK
<1>1. Inv => TypeOK
  BY DEF Inv
<1> QED BY <1>1, InvariantHolds, PTL

\* In every window every span is billed for exactly what has been sampled of it, for
\* any number of Workers, lost answers, crashes and repeated posts.
THEOREM BillsAreExact == Spec => []BilledByWindow
<1>1. Inv => BilledByWindow
  BY DEF Inv
<1> QED BY <1>1, InvariantHolds, PTL

\* Clean-up only ever deletes spans that have been sampled up to their end.
THEOREM DeletedAreSettled == Spec => []DeletedIsSettled
<1>1. Inv => DeletedIsSettled
  BY DEF Inv, SweepsInv, SpansInv, SpanInv, DeletedIsSettled
<1> QED BY <1>1, InvariantHolds, PTL

\* Intervals never cross window boundaries, regardless of the sampling direction.
THEOREM IntervalsStayInWindow == Spec => []IntervalWithinWindow
<1>1. Inv => IntervalWithinWindow
  BY DEF Inv, SpansInv, SpanInv, IntervalWithinWindow
<1> QED BY <1>1, InvariantHolds, PTL

\* A usage that has not been stopped is not sampled ahead of time.
THEOREM OpenAreNotSampledAhead == Spec => []OpenNotSampledAhead
<1>1. Inv => OpenNotSampledAhead
  BY DEF Inv, SpansInv, SpanInv, OpenNotSampledAhead
<1> QED BY <1>1, InvariantHolds, PTL

-----------------------------------------------------------------------------
\* What a step may do to the spans and the bills.

\* A step changes the document and the bill of one span at most, in one of five ways.
SpanStarted(s) ==
    /\ spans[s] = None
    /\ spans'[s] # None /\ spans'[s].end = None /\ spans'[s].complete = FALSE
    /\ spans'[s].start \in Time
    /\ UNCHANGED <<billed, dropped>>

SpanEnded(s) ==
    /\ s \in Started /\ spans[s].end = None /\ spans[s].complete = FALSE
    /\ spans'[s] # None /\ spans'[s].end \in Time /\ spans'[s].complete = FALSE
    /\ spans'[s].start = spans[s].start
    /\ UNCHANGED <<billed, dropped>>

\* An interval has been planned or processed: the last one has been if complete.
SpanSampled(s) ==
    /\ s \in Started /\ spans[s].complete = FALSE
    /\ spans'[s] # None /\ spans'[s].complete \in BOOLEAN
    /\ spans'[s].start = spans[s].start /\ spans'[s].end = spans[s].end
    /\ spans'[s].complete =>
          /\ spans[s].end # None
          /\ dropped[s] = {} =>
                \A b \in Boundary : billed[s][b] = Share(spans[s].start, spans[s].end, b)
    /\ UNCHANGED <<billed, dropped>>

SpanBilled(s) ==
    /\ s \in Started /\ (spans[s].complete => dropped[s] # {})
    /\ \E b \in Boundary, d \in -Horizon .. Horizon :
          billed' = [billed EXCEPT ![s][b] = @ + d]
    /\ UNCHANGED <<spans, dropped>>

SpanExcused(s) ==
    /\ s \in Started
    /\ dropped'[s] # {}
    /\ \A r \in SpanIds : r # s => dropped'[r] = dropped[r]
    /\ UNCHANGED <<spans, billed>>

SpanStep(s) ==
    /\ \A r \in SpanIds : r # s => spans'[r] = spans[r]
    /\ \/ SpanStarted(s)
       \/ SpanEnded(s)
       \/ SpanSampled(s)
       \/ SpanBilled(s)
       \/ SpanExcused(s)

\* No document, no bill and no excuse changes.
NoSpanStep == UNCHANGED <<spans, billed, dropped>>

\* A request starts or ends one span at most.
LEMMA ReceiverIsSpanStep ==
    ASSUME Inv, NEW h \in Handlers, ReceiverStep(h), UNCHANGED <<workerVars, ledgerVars>>
    PROVE  NoSpanStep \/ \E s \in SpanIds : SpanStep(s)
<1> USE DEF ledgerVars
<1>1. spans \in [SpanIds -> Span \cup {None}]
  BY DEF Inv, TypeOK, StoreTypeOK
<1>2. UNCHANGED spans \/ SomeSpanStarted \/ SomeSpanEnded
  BY ReceiverStepEffect DEF Inv, TypeOK
<1>3. CASE UNCHANGED spans
  BY <1>3 DEF NoSpanStep
<1>4. CASE SomeSpanStarted
  <2> PICK s \in SpanIds, event \in Events :
          /\ spans[s] = None
          /\ spans' = [spans EXCEPT ![s] = NewSpan(event.target, event.time, event.id)]
    BY <1>4 DEF SomeSpanStarted
  <2>1. /\ spans'[s] = NewSpan(event.target, event.time, event.id)
        /\ \A r \in SpanIds : r # s => spans'[r] = spans[r]
    BY <1>1
  <2>2. event.target \in Targets /\ event.time \in Time /\ event.id \in EventIds \cup {None}
    BY EventFields
  <2>3. /\ spans'[s] \in Span /\ spans'[s].start \in Time
        /\ spans'[s].end = None /\ spans'[s].complete = FALSE
    <3> DEFINE new == NewSpan(event.target, event.time, event.id)
    <3>1. /\ new \in Span /\ new.start = event.time
          /\ new.end = None /\ new.complete = FALSE
      BY ONLY <2>2, NewSpanFields
    <3> HIDE DEF new
    <3>2. spans'[s] = new
      BY <2>1 DEF new
    <3> QED BY ONLY <2>2, <3>1, <3>2
  <2>4. SpanStarted(s)
    BY <2>3, NoneIsNoRecord DEF SpanStarted
  <2> QED BY <2>1, <2>4 DEF SpanStep
<1>5. CASE SomeSpanEnded
  <2> PICK s \in Started, event \in Events :
          /\ spans[s].end = None
          /\ spans' = [spans EXCEPT ![s] = Ended(@, event.time, event.id)]
    BY <1>5 DEF SomeSpanEnded
  <2>1. s \in SpanIds /\ spans[s] \in Span
    BY StartedIsSpan DEF Inv
  <2>2. /\ spans'[s] = Ended(spans[s], event.time, event.id)
        /\ \A r \in SpanIds : r # s => spans'[r] = spans[r]
    BY <1>1, <2>1
  <2>3. event.time \in Time /\ event.id \in EventIds \cup {None}
    BY EventFields
  <2>4. spans[s].complete = FALSE
    BY <2>1, SpanFields DEF Inv, SpansInv, SpanInv
  <2>5. /\ spans'[s] \in Span /\ spans'[s].end \in Time
        /\ spans'[s].start = spans[s].start /\ spans'[s].complete = FALSE
    BY ONLY <2>1, <2>2, <2>3, <2>4, EndedFields
  <2>6. SpanEnded(s)
    BY <2>4, <2>5, NoneIsNoRecord DEF SpanEnded
  <2> QED BY <2>1, <2>2, <2>6 DEF SpanStep
<1> QED BY <1>2, <1>3, <1>4, <1>5

\* Planning changes neither the phase of a usage nor its bill.
LEMMA PlanIntervalIsSpanStep ==
    ASSUME Inv, NEW w \in Workers, PlanInterval(w)
    PROVE  NoSpanStep \/ \E s \in SpanIds : SpanStep(s)
<1> PICK item \in queue[w], applied \in BOOLEAN :
        /\ item.doc.planned = None
        /\ UpdateSpanPlannedInterval(item.id, NextPlan(item), item.doc.version, applied)
        /\ UNCHANGED ledgerVars
  BY DEF PlanInterval
<1> USE DEF ledgerVars
<1>1. CASE ~applied
  BY <1>1 DEF UpdateSpanPlannedInterval, NoSpanStep
<1>2. CASE applied
  <2> DEFINE s == item.id
  <2> DEFINE old == spans[s]
  <2> DEFINE new == spans'[s]
  <2> DEFINE plan == NextPlan(item)
  <2>1. s \in Started /\ s \in SpanIds /\ old \in Span /\ SnapshotInv(s, item.doc)
    BY SnapshotFacts
  <2>2. /\ old.version = item.doc.version
        /\ spans' = [spans EXCEPT ![s] = Planned(@, plan, old.version)]
    BY <1>2 DEF UpdateSpanPlannedInterval, Unchanged
  <2>3. plan \in Plan
    BY <2>2, PlanIsSound
  <2>4. spans \in [SpanIds -> Span \cup {None}]
    BY DEF Inv, TypeOK, StoreTypeOK
  <2>5. /\ new = Planned(old, plan, old.version)
        /\ \A r \in SpanIds : r # s => spans'[r] = spans[r]
    BY <2>1, <2>2, <2>4
  <2>6. new \in Span /\ new.start = old.start /\ new.end = old.end /\ new.complete = old.complete
    BY ONLY <2>1, <2>3, <2>5, PlannedFields
  <2>7. old.complete = FALSE
    BY <2>1, <2>2, SpanFields DEF SnapshotInv
  <2>8. SpanSampled(s)
    BY <2>1, <2>6, <2>7, NoneIsNoRecord DEF SpanSampled
  <2> QED BY <2>1, <2>5, <2>8 DEF SpanStep
<1> QED BY <1>1, <1>2

\* A usage that is taken in changes the bill of a span that is not yet complete.
LEMMA TakeInIsSpanStep ==
    ASSUME Inv, NEW w \in Workers, NEW item \in queue[w], Posting(w, item),
           TakeIn(item.id, item.doc.planned, now), UNCHANGED storeVars
    PROVE  NoSpanStep \/ \E s \in SpanIds : SpanStep(s)
<1> DEFINE s == item.id
<1> DEFINE plan == item.doc.planned
<1> USE DEF storeVars
<1>1. /\ s \in Started /\ s \in SpanIds /\ spans[s] \in Span /\ plan \in Plan
      /\ SnapshotInv(s, item.doc) /\ plan # None
  BY SnapshotFacts DEF Posting
<1>2. dropped \in [SpanIds -> SUBSET Reasons]
  BY UsagesAreSpans DEF Inv, TypeOK, LedgerTypeOK
<1>3. CASE \E r \in {"future", "slack"} : Drop(s, r) /\ UNCHANGED <<accepted, billed>>
  <2>1. SpanExcused(s)
    BY <1>1, <1>2, <1>3 DEF SpanExcused, Drop
  <2> QED BY <1>1, <2>1 DEF SpanStep
<1>4. CASE UNCHANGED ledgerVars
  BY <1>4 DEF NoSpanStep, ledgerVars
<1>5. CASE ~IsDuplicate(s, plan.guid) /\ billed' = Add(s, plan) /\ UNCHANGED dropped
  <2>1. spans[s].complete => dropped[s] # {}
    BY <1>1, <1>5 DEF SnapshotInv, Harmless, IsDuplicate
  <2>2. /\ StartOf(Midpoint(plan.start, plan.end)) \in Boundary
        /\ plan.end - plan.start \in -Horizon .. Horizon
    <3>1. plan.start \in Time /\ plan.end \in Time
      BY <1>1, PlanFields
    <3>2. /\ plan.start \in Int /\ plan.end \in Int /\ Horizon \in Int
          /\ 0 <= plan.start /\ plan.start <= Horizon /\ 0 <= plan.end /\ plan.end <= Horizon
      BY <3>1, TimeIsInt
    <3>3. plan.end - plan.start \in -Horizon .. Horizon
      BY <3>2
    <3> QED BY <3>1, <3>3, MidpointBetween, StartOfProperties
  <2>3. SpanBilled(s)
    BY <1>1, <1>5, <2>1, <2>2 DEF SpanBilled, Add
  <2> QED BY <1>1, <2>3 DEF SpanStep
<1> QED BY <1>3, <1>4, <1>5 DEF TakeIn

\* A post changes the bill of one span at most, or drops a usage of it.
LEMMA PostIsSpanStep ==
    ASSUME Inv, NEW w \in Workers,
           PostAccepted(w) \/ PostAnswerLost(w) \/ PostRefused(w) \/ PostFailed(w)
    PROVE  NoSpanStep \/ \E s \in SpanIds : SpanStep(s)
<1>1. CASE PostAccepted(w)
  BY <1>1, TakeInIsSpanStep DEF PostAccepted
<1>2. CASE PostAnswerLost(w)
  BY <1>2, TakeInIsSpanStep DEF PostAnswerLost
<1>3. CASE PostRefused(w)
  <2> PICK item \in queue[w] : RefuseForLegalReasons(item.id) /\ UNCHANGED storeVars
    BY <1>3 DEF PostRefused
  <2>1. item.id \in Started /\ item.id \in SpanIds
    BY SnapshotFacts
  <2>2. dropped \in [SpanIds -> SUBSET Reasons]
    BY UsagesAreSpans DEF Inv, TypeOK, LedgerTypeOK
  <2>3. SpanExcused(item.id)
    BY <2>1, <2>2 DEF SpanExcused, RefuseForLegalReasons, Drop, storeVars
  <2> QED BY <2>1, <2>3 DEF SpanStep, storeVars
<1>4. CASE PostFailed(w)
  BY <1>4 DEF PostFailed, NoSpanStep, storeVars, ledgerVars
<1> QED BY <1>1, <1>2, <1>3, <1>4

\* The update that completes a span finds its bill exact.
LEMMA ProcessIntervalIsSpanStep ==
    ASSUME Inv, NEW w \in Workers, ProcessInterval(w)
    PROVE  NoSpanStep \/ \E s \in SpanIds : SpanStep(s)
<1> PICK item \in queue[w], applied \in BOOLEAN :
        /\ item.doc.planned # None
        /\ Harmless(item.id, item.doc.planned)
        /\ UpdateSpanProcessedInterval(item.id, item.doc.planned, ReachesEnd(item.doc),
                                       item.doc.version, applied)
        /\ UNCHANGED ledgerVars
  BY DEF ProcessInterval, Inv, JobsInv, JobInv
<1> USE DEF ledgerVars
<1>1. CASE ~applied
  BY <1>1 DEF UpdateSpanProcessedInterval, NoSpanStep
<1>2. CASE applied
  <2> DEFINE s == item.id
  <2> DEFINE old == spans[s]
  <2> DEFINE new == spans'[s]
  <2> DEFINE plan == item.doc.planned
  <2> DEFINE complete == ReachesEnd(item.doc)
  <2>1. /\ s \in Started /\ s \in SpanIds /\ old \in Span /\ item.doc \in Span
        /\ SnapshotInv(s, item.doc) /\ plan \in Plan /\ complete \in BOOLEAN
    BY SnapshotFacts DEF ReachesEnd
  <2>2. /\ old.version = item.doc.version
        /\ spans' = [spans EXCEPT ![s] = Processed(@, plan, complete, old.version)]
    BY <1>2 DEF UpdateSpanProcessedInterval, Unchanged
  <2>3. spans \in [SpanIds -> Span \cup {None}]
    BY DEF Inv, TypeOK, StoreTypeOK
  <2>4. /\ new = Processed(old, plan, complete, old.version)
        /\ \A r \in SpanIds : r # s => spans'[r] = spans[r]
    BY <2>1, <2>2, <2>3
  <2>5. old.complete = FALSE /\ old.planned = plan
    BY <2>1, <2>2, SpanFields DEF SnapshotInv
  <2>6. complete => old.end = plan.end /\ old.end # None
    BY <2>1, PlanFields, TimeIsInt, NoneAssumption DEF SnapshotInv, ReachesEnd
  <2>7. Harmless(s, plan) /\ plan # None
    OBVIOUS
  <2> HIDE DEF s, old, new, plan, complete
  <2>8. /\ new \in Span /\ new.complete \in BOOLEAN
        /\ new.start = old.start /\ new.end = old.end
        /\ new.complete => complete
    <3>1. ASSUME NEW c \in BOOLEAN, new = Processed(old, plan, c, old.version)
          PROVE  /\ new \in Span /\ new.complete \in BOOLEAN
                 /\ new.start = old.start /\ new.end = old.end
                 /\ new.complete => c
      BY <2>1, <3>1, ProcessedFields
    <3> QED BY ONLY <2>1, <2>4, <3>1, Zenon
  <2>9. ASSUME complete, dropped[s] = {}, NEW b \in Boundary
        PROVE  billed[s][b] = Share(old.start, old.end, b)
    <3>1. /\ plan.start = old.last
          /\ old.start \in Time /\ old.last \in Time /\ plan.end \in Time
      BY <2>1, <2>5, <2>7, SpanFields, PlanFields DEF Inv, SpansInv, SpanInv, old
    <3>2. IsPosted(s)
      BY <2>5, <2>7, <2>9 DEF IsPosted, Harmless, old
    <3>3. billed[s][b] = SampledShare(s, b)
      BY <2>1, <2>9 DEF Inv, BilledByWindow
    <3>4. SampledShare(s, b) = Share(old.start, old.last, b) + Share(old.last, plan.end, b)
      BY <2>5, <3>1, <3>2 DEF SampledShare, old
    <3> QED BY <2>6, <2>9, <3>1, <3>3, <3>4, ShareAdds
  <2>10. SpanSampled(s)
    <3>1. new.complete => /\ old.end # None
                          /\ dropped[s] = {} =>
                                \A b \in Boundary : billed[s][b] = Share(old.start, old.end, b)
      BY <2>6, <2>8, <2>9
    <3> QED BY <2>1, <2>5, <2>8, <3>1, NoneIsNoRecord DEF SpanSampled, old, new
  <2> QED BY <2>1, <2>4, <2>10 DEF SpanStep
<1> QED BY <1>1, <1>2

\* Every step is a step of one span at most.
LEMMA NextIsSpanStep ==
    ASSUME Inv, [Next]_vars
    PROVE  NoSpanStep \/ \E s \in SpanIds : SpanStep(s)
<1>1. CASE Tick \/ UNCHANGED vars
  BY <1>1 DEF Tick, NoSpanStep, vars, storeVars, ledgerVars
<1>2. ASSUME NEW w \in Workers, WorkerStep(w)
      PROVE  NoSpanStep \/ \E s \in SpanIds : SpanStep(s)
  <2>1. CASE Poll(w) \/ FindForCleanup(w) \/ Cleanup(w) \/ Crash(w)
    BY <2>1 DEF Poll, FindForCleanup, Cleanup, DeleteSpansByIDs, Crash, NoSpanStep,
       storeVars, ledgerVars
  <2> QED BY <1>2, <2>1, PlanIntervalIsSpanStep, PostIsSpanStep, ProcessIntervalIsSpanStep
          DEF WorkerStep
<1> QED BY <1>1, <1>2, ReceiverIsSpanStep DEF Next

\* Nothing changes a complete span or its bill, as long as no usage of it is refused.
THEOREM SettledStaysFinal == Spec => SettledIsFinal
<1> DEFINE Final == \A s \in Started :
        spans[s].complete /\ dropped'[s] = {} => spans'[s] = spans[s] /\ billed'[s] = billed[s]
<1>1. Inv /\ [Next]_vars => Final
  <2> SUFFICES ASSUME Inv, [Next]_vars, NEW s \in Started,
                      spans[s].complete, dropped'[s] = {}
               PROVE  spans'[s] = spans[s] /\ billed'[s] = billed[s]
    OBVIOUS
  <2>1. s \in SpanIds /\ spans[s].complete \in BOOLEAN
        /\ billed \in [SpanIds -> [Boundary -> Int]]
    BY StartedIsSpan, SpanFields, UsagesAreSpans DEF Inv, TypeOK, LedgerTypeOK
  <2>2. CASE NoSpanStep
    BY <2>2 DEF NoSpanStep
  <2>3. ASSUME NEW r \in SpanIds, SpanStep(r)
        PROVE  spans'[s] = spans[s] /\ billed'[s] = billed[s]
    <3>1. CASE r = s
      BY <2>1, <2>3, <3>1
         DEF SpanStep, SpanStarted, SpanEnded, SpanSampled, SpanBilled, SpanExcused, Started
    <3>2. CASE r # s
      BY <2>1, <2>3, <3>2
         DEF SpanStep, SpanStarted, SpanEnded, SpanSampled, SpanBilled, SpanExcused
    <3> QED BY <3>1, <3>2
  <2> QED BY <2>2, <2>3, NextIsSpanStep
<1> QED BY <1>1, InvariantHolds, PTL DEF Spec, SettledIsFinal

-----------------------------------------------------------------------------
\* The refinement.

\* The four phases a document stands for.
LEMMA PhaseValues ==
    ASSUME NEW s \in SpanIds
    PROVE  /\ spans[s] = None => Phase(s) = "none"
           /\ spans[s] # None /\ spans[s].complete => Phase(s) = "settled"
           /\ spans[s] # None /\ ~spans[s].complete /\ spans[s].end # None => Phase(s) = "stopped"
           /\ spans[s] # None /\ ~spans[s].complete /\ spans[s].end = None => Phase(s) = "running"
  BY DEF Phase

\* When one document changes, the usage it stands for does.
LEMMA MapsOfOneSpan ==
    ASSUME NEW s \in SpanIds, \A r \in SpanIds : r # s => spans'[r] = spans[r]
    PROVE  /\ PhaseMap' = [PhaseMap EXCEPT ![s] = Phase(s)']
           /\ FromMap' = [FromMap EXCEPT ![s] = FromMap'[s]]
           /\ UntilMap' = [UntilMap EXCEPT ![s] = UntilMap'[s]]
<1>1. \A r \in SpanIds : r # s => Phase(r)' = Phase(r)
  BY DEF Phase
<1>2. PhaseMap' = [PhaseMap EXCEPT ![s] = Phase(s)']
  BY <1>1 DEF PhaseMap
<1>3. FromMap' = [FromMap EXCEPT ![s] = FromMap'[s]]
  BY DEF FromMap
<1>4. UntilMap' = [UntilMap EXCEPT ![s] = UntilMap'[s]]
  BY DEF UntilMap
<1> QED BY <1>2, <1>3, <1>4

\* Each of the five changes is one the promise allows.
LEMMA SpanStepIsPromised ==
    ASSUME Inv, NEW s \in SpanIds, SpanStep(s)
    PROVE  Promise!Next \/ UNCHANGED Promise!vars
<1>1. /\ PhaseMap' = [PhaseMap EXCEPT ![s] = Phase(s)']
      /\ FromMap' = [FromMap EXCEPT ![s] = FromMap'[s]]
      /\ UntilMap' = [UntilMap EXCEPT ![s] = UntilMap'[s]]
  BY MapsOfOneSpan DEF SpanStep
<1>2. /\ PhaseMap[s] = Phase(s)
      /\ FromMap[s] = IF spans[s] = None THEN None ELSE spans[s].start
      /\ UntilMap[s] = IF spans[s] = None THEN None ELSE spans[s].end
      /\ FromMap'[s] = IF spans'[s] = None THEN None ELSE spans'[s].start
      /\ UntilMap'[s] = IF spans'[s] = None THEN None ELSE spans'[s].end
      /\ ExcusedMap[s] = (dropped[s] # {})
  BY DEF PhaseMap, FromMap, UntilMap, ExcusedMap
<1>3. /\ PhaseMap = [PhaseMap EXCEPT ![s] = PhaseMap[s]]
      /\ FromMap = [FromMap EXCEPT ![s] = FromMap[s]]
      /\ UntilMap = [UntilMap EXCEPT ![s] = UntilMap[s]]
  BY DEF PhaseMap, FromMap, UntilMap
<1>4. UNCHANGED dropped => UNCHANGED ExcusedMap
  BY DEF ExcusedMap
<1>5. UNCHANGED spans => UNCHANGED <<PhaseMap, FromMap, UntilMap>>
  BY DEF PhaseMap, FromMap, UntilMap, Phase
<1>6. CASE SpanStarted(s)
  <2>1. Phase(s) = "none" /\ Phase(s)' = "running"
    BY <1>6, PhaseValues DEF SpanStarted, Phase
  <2>2. FromMap'[s] \in Time /\ UntilMap' = UntilMap
    BY <1>1, <1>2, <1>3, <1>6 DEF SpanStarted
  <2>3. Promise!Start(s)
    <3>1. \E t \in Time : FromMap' = [FromMap EXCEPT ![s] = t]
      BY <1>1, <2>2
    <3>2. PhaseMap[s] = "none" /\ PhaseMap' = [PhaseMap EXCEPT ![s] = "running"]
      BY <1>1, <1>2, <2>1
    <3>3. UNCHANGED <<UntilMap, billed, ExcusedMap>>
      BY <1>4, <1>6, <2>2 DEF SpanStarted
    <3> QED BY <3>1, <3>2, <3>3 DEF Promise!Start, Promise!Time, Time
  <2> QED BY <2>3 DEF Promise!Next
<1>7. CASE SpanEnded(s)
  <2>1. Phase(s) = "running" /\ Phase(s)' = "stopped"
    <3>1. spans'[s].end # None
      BY <1>7, TimeIsInt, NoneAssumption DEF SpanEnded
    <3> QED BY <1>7, <3>1, PhaseValues DEF SpanEnded, Phase, Started
  <2>2. UntilMap'[s] \in Time /\ FromMap' = FromMap
    BY <1>1, <1>2, <1>3, <1>7 DEF SpanEnded, Started
  <2>3. Promise!Stop(s)
    <3>1. \E t \in Time : UntilMap' = [UntilMap EXCEPT ![s] = t]
      BY <1>1, <2>2
    <3>2. PhaseMap[s] = "running" /\ PhaseMap' = [PhaseMap EXCEPT ![s] = "stopped"]
      BY <1>1, <1>2, <2>1
    <3>3. UNCHANGED <<FromMap, billed, ExcusedMap>>
      BY <1>4, <1>7, <2>2 DEF SpanEnded
    <3> QED BY <3>1, <3>2, <3>3 DEF Promise!Stop, Promise!Time, Time
  <2> QED BY <2>3 DEF Promise!Next
<1>8. CASE SpanSampled(s)
  <2>1. FromMap' = FromMap /\ UntilMap' = UntilMap /\ UNCHANGED <<billed, ExcusedMap>>
    BY <1>1, <1>2, <1>3, <1>4, <1>8 DEF SpanSampled, Started
  <2>2. CASE ~spans'[s].complete
    <3>1. Phase(s)' = Phase(s)
      BY <1>8, <2>2 DEF SpanSampled, Phase, Started
    <3>2. PhaseMap' = PhaseMap
      BY <1>1, <1>2, <1>3, <3>1
    <3> QED BY <2>1, <3>2 DEF Promise!vars
  <2>3. CASE spans'[s].complete
    <3>1. Phase(s) = "stopped" /\ Phase(s)' = "settled"
      BY <1>8, <2>3, PhaseValues DEF SpanSampled, Phase, Started
    <3>2. Promise!Exact(s) \/ ExcusedMap[s]
      BY <1>2, <1>8, <2>3 DEF SpanSampled, Promise!Exact, Started,
         Promise!Share, Promise!Clip, Promise!NextStart, Share, Clip, NextStart
    <3>3. Promise!Settle(s)
      BY <1>1, <1>2, <2>1, <3>1, <3>2 DEF Promise!Settle
    <3> QED BY <3>3 DEF Promise!Next
  <2> QED BY <2>2, <2>3
<1>9. CASE SpanBilled(s)
  <2>1. PhaseMap[s] \in {"running", "stopped"} \/ ExcusedMap[s]
    BY <1>2, <1>9, PhaseValues DEF SpanBilled, Started
  <2>2. Promise!Charge(s)
    BY <1>4, <1>5, <1>9, <2>1 DEF SpanBilled, Promise!Charge
  <2> QED BY <2>2 DEF Promise!Next
<1>10. CASE SpanExcused(s)
  <2>1. ExcusedMap' = [ExcusedMap EXCEPT ![s] = TRUE]
    BY <1>10 DEF SpanExcused, ExcusedMap
  <2>2. Promise!Excuse(s)
    BY <1>5, <1>10, <2>1 DEF SpanExcused, Promise!Excuse
  <2> QED BY <2>2 DEF Promise!Next
<1> QED BY <1>6, <1>7, <1>8, <1>9, <1>10 DEF SpanStep

\* The Sampler implements the continuous usage it promises: every usage is charged
\* while it is open, and settled once, when every window has been charged with
\* exactly the part of it that lies in the window.
THEOREM SamplerImplementsPromise == Spec => ImplementsPromise
<1>1. Init => Promise!Init
  BY UsagesAreSpans DEF Init, StoreInit, LedgerInit, Promise!Init, PhaseMap, FromMap, UntilMap,
     ExcusedMap, Phase
<1>2. Inv /\ [Next]_vars => [Promise!Next]_(Promise!vars)
  <2> SUFFICES ASSUME Inv, [Next]_vars PROVE Promise!Next \/ UNCHANGED Promise!vars
    OBVIOUS
  <2>1. CASE NoSpanStep
    BY <2>1 DEF NoSpanStep, Promise!vars, PhaseMap, FromMap, UntilMap, ExcusedMap, Phase
  <2> QED BY <2>1, NextIsSpanStep, SpanStepIsPromised
<1> QED BY <1>1, <1>2, InvariantHolds, PTL DEF Spec, ImplementsPromise, Promise!Spec

-----------------------------------------------------------------------------
(***************************************************************************)
(* The events: what was answered with "created" is recorded, and an event  *)
(* that is retried is applied once.                                        *)
(***************************************************************************)

\* What a document says of its events.
SameEvents(doc, new) ==
    /\ new # None /\ new.target = doc.target
    /\ new.start = doc.start /\ new.startId = doc.startId
    /\ new.end = doc.end /\ new.endId = doc.endId

\* A step that records no event.
NoEventRecorded ==
    /\ \A s \in SpanIds : spans[s] = None => spans'[s] = None
    /\ \A s \in Started : SameEvents(spans[s], spans'[s])

\* A document that is there remains, with its target and its start; what ended it
\* remains, too.
LEMMA StartedStays ==
    ASSUME Inv, [Next]_vars, NEW s \in Started
    PROVE  spans'[s] # None /\ (spans[s].complete => spans'[s] = spans[s])
<1>1. s \in SpanIds /\ spans[s] # None /\ spans[s].complete \in BOOLEAN
  BY StartedIsSpan, SpanFields DEF Inv, Started
<1>2. CASE NoSpanStep BY <1>1, <1>2 DEF NoSpanStep
<1>3. ASSUME NEW r \in SpanIds, SpanStep(r)
      PROVE  spans'[s] # None /\ (spans[s].complete => spans'[s] = spans[s])
  <2>1. CASE r # s BY <1>1, <1>3, <2>1 DEF SpanStep
  <2>2. CASE r = s
    BY <1>1, <1>3, <2>2
       DEF SpanStep, SpanStarted, SpanEnded, SpanSampled, SpanBilled, SpanExcused
  <2> QED BY <2>1, <2>2
<1> QED BY <1>2, <1>3, NextIsSpanStep

\* The Workers record no event.
LEMMA WorkerRecordsNoEvent ==
    ASSUME Inv, NEW w \in Workers, WorkerStep(w), [Next]_vars
    PROVE  NoEventRecorded
<1>1. spans \in [SpanIds -> Span \cup {None}] BY DEF Inv, TypeOK, StoreTypeOK
<1>2. CASE UNCHANGED spans BY <1>1, <1>2 DEF NoEventRecorded, SameEvents, Started
<1>3. ASSUME NEW s \in Docs, NEW old, old = spans[s], NEW new, spans' = [spans EXCEPT ![s] = new],
             /\ new.target = old.target /\ new.start = old.start /\ new.startId = old.startId
             /\ new.end = old.end /\ new.endId = old.endId
      PROVE  NoEventRecorded
  <2>1. s \in SpanIds /\ spans[s] # None BY DEF Docs
  <2>2. spans'[s] = new /\ \A r \in SpanIds : r # s => spans'[r] = spans[r]
    BY <1>1, <1>3, <2>1
  <2>3. \A r \in Started : spans'[r] # None BY StartedStays
  <2> QED BY <1>3, <2>1, <2>2, <2>3 DEF NoEventRecorded, SameEvents, Started
<1>4. ASSUME NEW item, NEW plan, NEW applied \in BOOLEAN,
             UpdateSpanPlannedInterval(item.id, plan, item.doc.version, applied)
      PROVE  NoEventRecorded
  <2>1. CASE ~applied BY <1>2, <1>4, <2>1 DEF UpdateSpanPlannedInterval
  <2>2. CASE applied
    <3>1. PICK s : s = item.id OBVIOUS
    <3>2. PICK version : version = item.doc.version OBVIOUS
    <3>3. PICK old : old = spans[s] OBVIOUS
    <3>4. PICK new : new = Planned(old, plan, version) OBVIOUS
    <3>5. s \in Docs /\ spans' = [spans EXCEPT ![s] = new]
      BY <1>4, <2>2, <3>1, <3>2, <3>3, <3>4 DEF UpdateSpanPlannedInterval, Unchanged
    <3>6. old \in Span BY <1>1, <3>3, <3>5 DEF Docs
    <3>7. /\ new.target = old.target /\ new.start = old.start /\ new.startId = old.startId
          /\ new.end = old.end /\ new.endId = old.endId
      BY <3>4, <3>6 DEF Planned, Span
    <3> QED BY <1>3, <3>3, <3>5, <3>7
  <2> QED BY <2>1, <2>2
<1>5. ASSUME NEW item, NEW plan, NEW complete, NEW applied \in BOOLEAN,
             UpdateSpanProcessedInterval(item.id, plan, complete, item.doc.version, applied)
      PROVE  NoEventRecorded
  <2>1. CASE ~applied BY <1>2, <1>5, <2>1 DEF UpdateSpanProcessedInterval
  <2>2. CASE applied
    <3>1. PICK s : s = item.id OBVIOUS
    <3>2. PICK version : version = item.doc.version OBVIOUS
    <3>3. PICK old : old = spans[s] OBVIOUS
    <3>4. PICK new : new = Processed(old, plan, complete, version) OBVIOUS
    <3>5. s \in Docs /\ spans' = [spans EXCEPT ![s] = new]
      BY <1>5, <2>2, <3>1, <3>2, <3>3, <3>4 DEF UpdateSpanProcessedInterval, Unchanged
    <3>6. old \in Span BY <1>1, <3>3, <3>5 DEF Docs
    <3>7. /\ new.target = old.target /\ new.start = old.start /\ new.startId = old.startId
          /\ new.end = old.end /\ new.endId = old.endId
      BY <3>4, <3>6 DEF Processed, Span
    <3> QED BY <1>3, <3>3, <3>5, <3>7
  <2> QED BY <2>1, <2>2
<1>6. CASE PlanInterval(w) BY <1>4, <1>6 DEF PlanInterval
<1>7. CASE ProcessInterval(w)
  <2>1. PICK complete : complete = ReachesEnd(job[w].doc) OBVIOUS
  <2> QED BY <1>5, <1>7, <2>1 DEF ProcessInterval
<1> QED BY <1>2, <1>6, <1>7
     DEF WorkerStep, Poll, PostAccepted, PostAnswerLost, PostRefused, PostFailed,
         FindForCleanup, Cleanup, DeleteSpansByIDs, Crash, storeVars

-----------------------------------------------------------------------------
\* A document that records this event.
Records(doc, event) ==
    /\ doc.target = event.target
    /\ event.kind = "start" => doc.startId = event.id /\ doc.start = event.time
    /\ event.kind # "start" => doc.endId = event.id /\ doc.end = event.time

IsRecorded(event) == \E s \in Started : Records(spans[s], event)

\* A step after which every event that was recorded still is.
EventsStay ==
    \A s \in Started :
        LET new == spans'[s] IN
        /\ new # None /\ new.target = spans[s].target
        /\ new.start = spans[s].start /\ new.startId = spans[s].startId
        /\ spans[s].end # None => new.end = spans[s].end /\ new.endId = spans[s].endId

\* What was recorded stays recorded: a document without an end has recorded no stop.
LEMMA RecordedStays ==
    ASSUME Inv, EventsStay, NEW event \in Events, IsRecorded(event),
           Started \subseteq Started'
    PROVE  IsRecorded(event)'
<1> PICK s \in Started : Records(spans[s], event) BY DEF IsRecorded
<1>1. event.time # None BY EventFields, TimeIsInt, NoneAssumption
<1>2. event.kind # "start" => spans[s].end # None BY <1>1 DEF Records
<1>3. Records(spans'[s], event) BY <1>2 DEF Records, EventsStay
<1>4. s \in Started' OBVIOUS
<1> QED BY <1>3, <1>4 DEF IsRecorded

\* A step that records no event leaves what the documents say of the events as it is.
LEMMA NoEventKeepsRecorded ==
    ASSUME Inv, RecordedInv, NoEventRecorded
    PROVE  RecordedInv' /\ EventsStay /\ Started' = Started
<1>1. Started' = Started /\ EventsStay
  BY DEF NoEventRecorded, SameEvents, Started, EventsStay
<1>2. ASSUME NEW s \in Started'
      PROVE  /\ spans'[s].startId # None => \E e \in Events :
                   /\ e.kind = "start" /\ e.id = spans'[s].startId
                   /\ e.target = spans'[s].target /\ e.time = spans'[s].start
             /\ spans'[s].endId # None => \E e \in Events :
                   /\ e.kind = "stop" /\ e.id = spans'[s].endId
                   /\ e.target = spans'[s].target /\ e.time = spans'[s].end
  <2>1. s \in Started /\ SameEvents(spans[s], spans'[s])
    BY <1>1, <1>2 DEF NoEventRecorded
  <2> QED BY <2>1 DEF RecordedInv, SameEvents
<1> QED BY <1>1, <1>2 DEF RecordedInv

\* A usage that starts is recorded with its start event, and with no stop.
LEMMA StartIsRecorded ==
    ASSUME Inv, RecordedInv, NEW s \in SpanIds, NEW event \in Events,
           event.kind = "start", spans[s] = None,
           spans' = [spans EXCEPT ![s] = NewSpan(event.target, event.time, event.id)]
    PROVE  /\ RecordedInv' /\ EventsStay /\ Started \subseteq Started'
           /\ s \in Started' /\ Records(spans'[s], event) /\ spans'[s].endId = None
           /\ \A r \in SpanIds : r # s => spans'[r] = spans[r]
<1>0. PICK target, time, id : target = event.target /\ time = event.time /\ id = event.id
  OBVIOUS
<1>1. target \in Targets /\ time \in Time /\ id \in EventIds \cup {None}
  BY <1>0, EventFields
<1>2. PICK new : new = NewSpan(target, time, id) OBVIOUS
<1>3. /\ new \in Span /\ new # None /\ new.target = target /\ new.start = time
      /\ new.startId = id /\ new.endId = None
  BY <1>1, <1>2, NewSpanFields, SpanFields DEF NewSpan
<1>4. spans \in [SpanIds -> Span \cup {None}] BY DEF Inv, TypeOK, StoreTypeOK
<1>5. spans'[s] = new /\ \A r \in SpanIds : r # s => spans'[r] = spans[r]
  BY <1>0, <1>2, <1>4
<1>6. Started' = Started \cup {s} /\ s \notin Started
  BY <1>3, <1>5 DEF Started
<1>7. \A r \in Started : r \in SpanIds /\ r # s /\ spans'[r] = spans[r] /\ spans[r] # None
  BY <1>5, <1>6 DEF Started
<1>8. EventsStay BY <1>7 DEF EventsStay
<1>9. Records(spans'[s], event) BY <1>0, <1>3, <1>5 DEF Records
<1>10. RecordedInv'
  <2>1. ASSUME NEW r \in Started'
        PROVE  /\ spans'[r].startId # None => \E e \in Events :
                     /\ e.kind = "start" /\ e.id = spans'[r].startId
                     /\ e.target = spans'[r].target /\ e.time = spans'[r].start
               /\ spans'[r].endId # None => \E e \in Events :
                     /\ e.kind = "stop" /\ e.id = spans'[r].endId
                     /\ e.target = spans'[r].target /\ e.time = spans'[r].end
    <3>1. CASE r = s BY <1>0, <1>3, <1>5, <3>1
    <3>2. CASE r # s
      <4>1. r \in Started /\ spans'[r] = spans[r] BY <1>6, <1>7, <2>1, <3>2
      <4> QED BY <4>1 DEF RecordedInv
    <3> QED BY <3>1, <3>2
  <2> QED BY <2>1 DEF RecordedInv
<1> QED BY <1>3, <1>5, <1>6, <1>8, <1>9, <1>10

\* A usage that is stopped is recorded with its stop event, and had no end before.
LEMMA StopIsRecorded ==
    ASSUME Inv, RecordedInv, NEW s \in Started, NEW event \in Events,
           event.kind = "stop", spans[s].end = None, spans[s].target = event.target,
           spans' = [spans EXCEPT ![s] = Ended(@, event.time, event.id)]
    PROVE  /\ RecordedInv' /\ EventsStay /\ Started' = Started
           /\ Records(spans'[s], event) /\ spans'[s].startId = spans[s].startId
           /\ \A r \in SpanIds : r # s => spans'[r] = spans[r]
<1>0. PICK target, time, id : target = event.target /\ time = event.time /\ id = event.id
  OBVIOUS
<1>1. PICK old : old = spans[s] OBVIOUS
<1>2. PICK new : new = Ended(old, time, id) OBVIOUS
<1>3. time \in Time /\ id \in EventIds \cup {None} /\ s \in SpanIds /\ old \in Span
  BY <1>0, <1>1, EventFields, StartedIsSpan DEF Inv
<1>4. /\ new \in Span /\ new # None /\ new.target = old.target /\ new.start = old.start
      /\ new.startId = old.startId /\ new.endId = id /\ new.end = time
  <2>1. new \in Span /\ new.end = time /\ new.start = old.start
    BY <1>2, <1>3, EndedFields
  <2>2. new.target = old.target /\ new.startId = old.startId /\ new.endId = id
    BY <1>2, <1>3 DEF Ended, Span
  <2> QED BY <2>1, <2>2, SpanFields
<1>5. spans \in [SpanIds -> Span \cup {None}] BY DEF Inv, TypeOK, StoreTypeOK
<1>6. spans'[s] = new /\ \A r \in SpanIds : r # s => spans'[r] = spans[r]
  BY <1>0, <1>1, <1>2, <1>3, <1>5
<1>7. Started' = Started BY <1>3, <1>4, <1>6 DEF Started
<1>8. EventsStay
  <2>1. ASSUME NEW r \in Started
        PROVE  /\ spans'[r] # None /\ spans'[r].target = spans[r].target
               /\ spans'[r].start = spans[r].start /\ spans'[r].startId = spans[r].startId
               /\ spans[r].end # None =>
                     spans'[r].end = spans[r].end /\ spans'[r].endId = spans[r].endId
    <3>1. CASE r = s BY <1>1, <1>4, <1>6, <3>1
    <3>2. CASE r # s BY <1>6, <3>2 DEF Started
    <3> QED BY <3>1, <3>2
  <2> QED BY <2>1 DEF EventsStay
<1>9. Records(spans'[s], event) BY <1>0, <1>1, <1>4, <1>6 DEF Records
<1>10. RecordedInv'
  <2>1. ASSUME NEW r \in Started'
        PROVE  /\ spans'[r].startId # None => \E e \in Events :
                     /\ e.kind = "start" /\ e.id = spans'[r].startId
                     /\ e.target = spans'[r].target /\ e.time = spans'[r].start
               /\ spans'[r].endId # None => \E e \in Events :
                     /\ e.kind = "stop" /\ e.id = spans'[r].endId
                     /\ e.target = spans'[r].target /\ e.time = spans'[r].end
    <3>1. CASE r = s
      <4>1. /\ old.startId # None => \E e \in Events :
                 /\ e.kind = "start" /\ e.id = old.startId
                 /\ e.target = old.target /\ e.time = old.start
        BY <1>1 DEF RecordedInv
      <4> QED BY <1>0, <1>1, <1>4, <1>6, <3>1, <4>1
    <3>2. CASE r # s
      <4>1. r \in Started /\ spans'[r] = spans[r] BY <1>6, <1>7, <2>1, <3>2 DEF Started
      <4> QED BY <4>1 DEF RecordedInv
    <3> QED BY <3>1, <3>2
  <2> QED BY <2>1 DEF RecordedInv
<1> QED BY <1>1, <1>4, <1>6, <1>7, <1>8, <1>9, <1>10

\* An id that is found belongs to the event that is looked up.
LEMMA FoundIsRecorded ==
    ASSUME Inv, UniqueIds, RecordedInv, NEW event \in Events,
           \/ event.kind = "start" /\ ExistsSpanWithStartDedupID(event.id)
           \/ event.kind = "stop" /\ ExistsSpanWithEndDedupID(event.id)
    PROVE  IsRecorded(event)
<1>1. CASE event.kind = "start" /\ ExistsSpanWithStartDedupID(event.id)
  <2> PICK d \in Docs : spans[d].startId = event.id BY <1>1 DEF ExistsSpanWithStartDedupID
  <2>1. d \in Started /\ event.id # None
    BY <1>1 DEF Docs, Started, ExistsSpanWithStartDedupID
  <2> PICK e \in Events : /\ e.kind = "start" /\ e.id = spans[d].startId
                          /\ e.target = spans[d].target /\ e.time = spans[d].start
    BY <2>1 DEF RecordedInv
  <2>2. e = event BY <1>1, <2>1 DEF UniqueIds
  <2> QED BY <1>1, <2>1, <2>2 DEF IsRecorded, Records
<1>2. CASE event.kind = "stop" /\ ExistsSpanWithEndDedupID(event.id)
  <2> PICK d \in Docs : spans[d].endId = event.id BY <1>2 DEF ExistsSpanWithEndDedupID
  <2>1. d \in Started /\ event.id # None
    BY <1>2 DEF Docs, Started, ExistsSpanWithEndDedupID
  <2> PICK e \in Events : /\ e.kind = "stop" /\ e.id = spans[d].endId
                          /\ e.target = spans[d].target /\ e.time = spans[d].end
    BY <2>1 DEF RecordedInv
  <2>2. e = event BY <1>2, <2>1 DEF UniqueIds
  <2> QED BY <1>2, <2>1, <2>2 DEF IsRecorded, Records
<1> QED BY <1>1, <1>2

\* An answer that says "created" only of an event that is recorded keeps the events.
LEMMA AnswerKeepsEvents ==
    ASSUME Inv, EventsInv, RecordedInv', EventsStay, Started \subseteq Started',
           NEW h \in Handlers, NEW event \in Events \cup {None}, NEW reply,
           Answer(h, event, reply),
           reply = "created" => event \in Events /\ IsRecorded(event)'
    PROVE  EventsInv'
<1>1. PICK new : new = [at |-> "idle", event |-> event, reply |-> reply] OBVIOUS
<1>2. request \in [Handlers -> Request] BY DEF Inv, TypeOK, ReceiverTypeOK
<1>3. request' = [request EXCEPT ![h] = new] BY <1>1 DEF Answer
<1>4. request'[h] = new /\ \A g \in Handlers : g # h => request'[g] = request[g]
  BY <1>2, <1>3
<1>5. new.at = "idle" /\ new.event = event /\ new.reply = reply BY <1>1
<1>6. KindsInv'
  <2>1. reply = "created" => event # None BY EventFields
  <2> QED BY <2>1, <1>4, <1>5 DEF KindsInv, EventsInv, Pending
<1>7. ASSUME NEW g \in Handlers,
             request'[g].reply = "created", request'[g].event.id # None
      PROVE  \E s \in Started' : Records(spans'[s], request'[g].event)
  <2>1. CASE g = h
    <3>1. PICK e : e = event OBVIOUS
    <3>2. IsRecorded(e)' BY <1>4, <1>5, <1>7, <2>1, <3>1
    <3> QED BY <1>4, <1>5, <2>1, <3>1, <3>2 DEF IsRecorded
  <2>2. CASE g # h
    <3>1. request'[g] = request[g] BY <1>4, <2>2
    <3>2. PICK e : e = request[g].event OBVIOUS
    <3>3. e \in Events
      BY <1>2, <1>7, <3>1, <3>2 DEF EventsInv, KindsInv, Request
    <3>4. IsRecorded(e)
      BY <1>7, <3>1, <3>2 DEF EventsInv, AcknowledgedIsRecorded, IsRecorded, Records
    <3>5. IsRecorded(e)' BY <3>3, <3>4, RecordedStays
    <3> QED BY <3>1, <3>2, <3>5 DEF IsRecorded
  <2> QED BY <2>1, <2>2
<1>8. AcknowledgedIsRecorded'
  BY <1>7 DEF AcknowledgedIsRecorded, IsRecorded, Records
<1> QED BY <1>6, <1>8 DEF EventsInv

\* A request that goes on has acknowledged nothing.
LEMMA GoOnKeepsEvents ==
    ASSUME Inv, EventsInv, NoEventRecorded, NEW h \in Handlers, NEW event \in Events,
           NEW at \in Pending, GoOn(h, event, at),
           IF at = "duplicateStart" THEN event.kind = "start" ELSE event.kind = "stop"
    PROVE  EventsInv'
<1>0. RecordedInv' /\ EventsStay /\ Started' = Started
  BY NoEventKeepsRecorded DEF EventsInv
<1>1. PICK new : new = [at |-> at, event |-> event, reply |-> None] OBVIOUS
<1>2. request \in [Handlers -> Request] BY DEF Inv, TypeOK, ReceiverTypeOK
<1>3. request' = [request EXCEPT ![h] = new] BY <1>1 DEF GoOn
<1>4. request'[h] = new /\ \A g \in Handlers : g # h => request'[g] = request[g]
  BY <1>2, <1>3
<1>5. new.at = at /\ new.event = event /\ new.reply # "created"
  BY <1>1, NoneIsNoReply DEF Replies
<1>6. KindsInv' BY <1>4, <1>5 DEF KindsInv, EventsInv, Pending
<1>7. ASSUME NEW g \in Handlers,
             request'[g].reply = "created", request'[g].event.id # None
      PROVE  \E s \in Started' : Records(spans'[s], request'[g].event)
  <2>1. g # h /\ request'[g] = request[g] BY <1>4, <1>5, <1>7
  <2>2. PICK e : e = request[g].event OBVIOUS
  <2>3. e \in Events
    BY <1>2, <1>7, <2>1, <2>2 DEF EventsInv, KindsInv, Request
  <2>4. IsRecorded(e)
    BY <1>7, <2>1, <2>2 DEF EventsInv, AcknowledgedIsRecorded, IsRecorded, Records
  <2>5. IsRecorded(e)' BY <1>0, <2>3, <2>4, RecordedStays
  <2> QED BY <2>1, <2>2, <2>5 DEF IsRecorded
<1>8. AcknowledgedIsRecorded'
  BY <1>7 DEF AcknowledgedIsRecorded, IsRecorded, Records
<1> QED BY <1>0, <1>6, <1>8 DEF EventsInv

\* When neither the documents nor the requests say anything new, the events are kept.
LEMMA SilenceKeepsEvents ==
    ASSUME Inv, EventsInv, NoEventRecorded, UNCHANGED request
    PROVE  EventsInv'
<1>0. RecordedInv' /\ EventsStay /\ Started' = Started
  BY NoEventKeepsRecorded DEF EventsInv
<1>2. request \in [Handlers -> Request] BY DEF Inv, TypeOK, ReceiverTypeOK
<1>6. KindsInv' BY DEF KindsInv, EventsInv
<1>7. ASSUME NEW g \in Handlers,
             request'[g].reply = "created", request'[g].event.id # None
      PROVE  \E s \in Started' : Records(spans'[s], request'[g].event)
  <2>1. PICK e : e = request[g].event OBVIOUS
  <2>2. e \in Events
    BY <1>2, <1>7, <2>1 DEF EventsInv, KindsInv, Request
  <2>3. IsRecorded(e)
    BY <1>7, <2>1 DEF EventsInv, AcknowledgedIsRecorded, IsRecorded, Records
  <2>4. IsRecorded(e)' BY <1>0, <2>2, <2>3, RecordedStays
  <2> QED BY <2>1, <2>4 DEF IsRecorded
<1>8. AcknowledgedIsRecorded'
  BY <1>7 DEF AcknowledgedIsRecorded, IsRecorded, Records
<1> QED BY <1>0, <1>6, <1>8 DEF EventsInv

\* A step that changes no document records no event.
LEMMA SameSpansRecordNoEvent ==
    ASSUME Inv, UNCHANGED spans
    PROVE  NoEventRecorded
  BY DEF NoEventRecorded, SameEvents, Started

\* Every step of a request keeps the events.
LEMMA RequestKeepsEvents ==
    ASSUME Inv, UniqueIds, EventsInv, NEW h \in Handlers, ReceiverStep(h)
    PROVE  EventsInv'
<1> DEFINE event == request[h].event
<1>1. /\ event \in Events \cup {None}
      /\ request[h].at # "idle" => event \in Events
      /\ request[h].at = "duplicateStart" => event.kind = "start"
      /\ request[h].at \in Pending \ {"duplicateStart"} => event.kind = "stop"
      /\ RecordedInv
  BY DEF Inv, TypeOK, ReceiverTypeOK, RequestsInv, Request, EventsInv, KindsInv
<1>2. /\ "duplicateStart" \in Pending /\ "missingSpan" \in Pending \ {"duplicateStart"}
      /\ "endSpan" \in Pending \ {"duplicateStart"}
      /\ "duplicateEnd" \in Pending \ {"duplicateStart"}
  BY DEF Pending
<1>3. ASSUME UNCHANGED spans,
             NEW e \in Events \cup {None}, NEW reply, Answer(h, e, reply),
             reply = "created" => e \in Events /\ IsRecorded(e)
      PROVE  EventsInv'
  <2>1. RecordedInv' /\ EventsStay /\ Started' = Started
    BY <1>1, <1>3, SameSpansRecordNoEvent, NoEventKeepsRecorded
  <2>2. reply = "created" => e \in Events /\ IsRecorded(e)'
    BY <1>3, <2>1, RecordedStays
  <2> QED BY <1>3, <2>1, <2>2, AnswerKeepsEvents
<1>4. ASSUME NEW e \in Events, RefuseOutOfSlack(h, e)
      PROVE  EventsInv'
  <2>1. PICK reply : reply = "outOfSlack" OBVIOUS
  <2>2. reply # "created" /\ Answer(h, e, reply) /\ UNCHANGED spans
    BY <1>4, <2>1 DEF RefuseOutOfSlack, storeVars
  <2> QED BY <1>3, <2>2
<1>5. ASSUME NEW e \in Events, HandleStart(h, e)
      PROVE  EventsInv'
  <2>1. e.kind = "start" BY <1>5 DEF HandleStart, Arrives
  <2>2. CASE StartSpan(e.target, e.time, e.id, TRUE) /\ Answer(h, e, "created")
    <3> PICK s \in SpanIds :
          /\ spans[s] = None
          /\ spans' = [spans EXCEPT ![s] = NewSpan(e.target, e.time, e.id)]
      BY <2>2 DEF StartSpan
    <3>1. RecordedInv' /\ EventsStay /\ Started \subseteq Started'
          /\ s \in Started' /\ Records(spans'[s], e)
      BY <1>1, <2>1, StartIsRecorded
    <3>2. IsRecorded(e)' BY <3>1 DEF IsRecorded
    <3> QED BY <2>2, <3>1, <3>2, AnswerKeepsEvents
  <2>3. CASE StartSpan(e.target, e.time, e.id, FALSE) /\ GoOn(h, e, "duplicateStart")
    <3>1. NoEventRecorded BY <2>3, SameSpansRecordNoEvent DEF StartSpan
    <3> QED BY <1>2, <2>1, <2>3, <3>1, GoOnKeepsEvents
  <2> QED BY <1>5, <2>2, <2>3 DEF HandleStart
<1>6. ASSUME NEW e \in Events, HandleStop(h, e)
      PROVE  EventsInv'
  <2>1. e.kind = "stop" /\ UNCHANGED spans BY <1>6 DEF HandleStop, Arrives, storeVars
  <2>2. \/ Answer(h, e, "outOfOrder")
        \/ \E at \in {"missingSpan", "endSpan"} : GoOn(h, e, at)
    BY <1>6 DEF HandleStop
  <2>3. CASE Answer(h, e, "outOfOrder")
    <3>1. PICK reply : reply = "outOfOrder" OBVIOUS
    <3> QED BY <1>3, <2>1, <2>3, <3>1
  <2>4. ASSUME NEW at \in {"missingSpan", "endSpan"}, GoOn(h, e, at)
        PROVE  EventsInv'
    <3>1. at \in Pending /\ at # "duplicateStart" BY <1>2
    <3>2. NoEventRecorded BY <2>1, SameSpansRecordNoEvent
    <3> QED BY <2>1, <2>4, <3>1, <3>2, GoOnKeepsEvents
  <2> QED BY <2>2, <2>3, <2>4
<1>7. ASSUME request[h].at \in Pending, NEW found \in BOOLEAN,
             found => IsRecorded(event), UNCHANGED spans,
             NEW other, other # "created",
             Answer(h, event, IF found THEN "created" ELSE other)
      PROVE  EventsInv'
  <2>1. PICK reply : reply = IF found THEN "created" ELSE other OBVIOUS
  <2>2. event \in Events BY <1>1, <1>7 DEF Pending
  <2>3. reply = "created" => IsRecorded(event) BY <1>7, <2>1
  <2> QED BY <1>3, <1>7, <2>1, <2>2, <2>3
<1>8. CASE CheckDuplicateStart(h)
  <2>1. event \in Events /\ event.kind = "start" BY <1>1, <1>8 DEF CheckDuplicateStart
  <2>2. PICK found \in BOOLEAN : found = ExistsSpanWithStartDedupID(event.id)
    BY DEF ExistsSpanWithStartDedupID
  <2>3. found => IsRecorded(event) BY <1>1, <2>1, <2>2, FoundIsRecorded
  <2>4. Answer(h, event, IF found THEN "created" ELSE "conflict") /\ UNCHANGED spans
        /\ request[h].at \in Pending
    BY <1>2, <1>8, <2>2 DEF CheckDuplicateStart, storeVars
  <2>5. PICK other : other = "conflict" OBVIOUS
  <2> QED BY <1>7, <2>3, <2>4, <2>5
<1>9. CASE CheckMissingSpan(h)
  <2>1. event \in Events /\ event.kind = "stop" BY <1>1, <1>2, <1>9 DEF CheckMissingSpan
  <2>2. PICK found \in BOOLEAN : found = ExistsSpanWithEndDedupID(event.id)
    BY DEF ExistsSpanWithEndDedupID
  <2>3. found => IsRecorded(event) BY <1>1, <2>1, <2>2, FoundIsRecorded
  <2>4. Answer(h, event, IF found THEN "created" ELSE "missing") /\ UNCHANGED spans
        /\ request[h].at \in Pending
    BY <1>2, <1>9, <2>2 DEF CheckMissingSpan, storeVars
  <2>5. PICK other : other = "missing" OBVIOUS
  <2> QED BY <1>7, <2>3, <2>4, <2>5
<1>10. CASE CheckDuplicateEnd(h)
  <2>1. event \in Events /\ event.kind = "stop" BY <1>1, <1>2, <1>10 DEF CheckDuplicateEnd
  <2>2. PICK found \in BOOLEAN : found = ExistsSpanWithEndDedupID(event.id)
    BY DEF ExistsSpanWithEndDedupID
  <2>3. found => IsRecorded(event) BY <1>1, <2>1, <2>2, FoundIsRecorded
  <2>4. Answer(h, event, IF found THEN "created" ELSE "conflict") /\ UNCHANGED spans
        /\ request[h].at \in Pending
    BY <1>2, <1>10, <2>2 DEF CheckDuplicateEnd, storeVars
  <2>5. PICK other : other = "conflict" OBVIOUS
  <2> QED BY <1>7, <2>3, <2>4, <2>5
<1>11. CASE EndFoundSpan(h)
  <2>1. event \in Events /\ event.kind = "stop" BY <1>1, <1>2, <1>11 DEF EndFoundSpan
  <2>2. CASE EndSpan(event.target, event.time, event.id, TRUE) /\ Answer(h, event, "created")
    <3> PICK d \in Endable(event.target) :
          spans' = [spans EXCEPT ![d] = Ended(@, event.time, event.id)]
      BY <2>2 DEF EndSpan
    <3>1. d \in Started /\ spans[d].end = None /\ spans[d].target = event.target
      BY DEF Endable, SpansByTarget, Docs, Started
    <3>2. RecordedInv' /\ EventsStay /\ Started' = Started /\ Records(spans'[d], event)
      BY <1>1, <2>1, <3>1, StopIsRecorded
    <3>3. PICK e : e = event OBVIOUS
    <3>4. IsRecorded(e)' BY <3>1, <3>2, <3>3 DEF IsRecorded
    <3>5. PICK reply : reply = "created" OBVIOUS
    <3> QED BY <2>1, <2>2, <3>2, <3>3, <3>4, <3>5, AnswerKeepsEvents
  <2>3. CASE EndSpan(event.target, event.time, event.id, FALSE) /\ GoOn(h, event, "duplicateEnd")
    <3>1. NoEventRecorded BY <2>3, SameSpansRecordNoEvent DEF EndSpan
    <3>2. PICK e : e = event OBVIOUS
    <3> QED BY <1>2, <2>1, <2>3, <3>1, <3>2, GoOnKeepsEvents
  <2> QED BY <1>11, <2>2, <2>3 DEF EndFoundSpan
<1>12. CASE FailRequest(h)
  <2>1. PICK reply : reply = None OBVIOUS
  <2>2. Answer(h, None, reply) /\ UNCHANGED spans /\ reply # "created"
    BY <1>12, <2>1, NoneIsNoReply DEF Replies, FailRequest, NoRequest, Answer, storeVars
  <2> QED BY <1>3, <2>2
<1> QED BY <1>4, <1>5, <1>6, <1>8, <1>9, <1>10, <1>11, <1>12 DEF ReceiverStep

\* The ids and the answers: a part of the invariant of its own.
LEMMA EventsInvHolds ==
    ASSUME UniqueIds
    PROVE  Spec => []EventsInv
<1>1. Init => EventsInv
  BY NoneIsNoReply
     DEF Replies, Init, StoreInit, ReceiverInit, NoRequest, Pending, EventsInv, KindsInv,
         RecordedInv, AcknowledgedIsRecorded, Started
<1>2. Inv /\ EventsInv /\ [Next]_vars => EventsInv'
  <2> SUFFICES ASSUME Inv, EventsInv, [Next]_vars
               PROVE  EventsInv'
    OBVIOUS
  <2>1. CASE UNCHANGED vars
    BY <2>1, SameSpansRecordNoEvent, SilenceKeepsEvents DEF vars, storeVars
  <2>2. CASE Tick
    BY <2>2, SameSpansRecordNoEvent, SilenceKeepsEvents DEF Tick
  <2>3. ASSUME NEW h \in Handlers, ReceiverStep(h)
        PROVE  EventsInv'
    BY <2>3, RequestKeepsEvents
  <2>4. ASSUME NEW w \in Workers, WorkerStep(w), UNCHANGED request
        PROVE  EventsInv'
    BY <2>4, WorkerRecordsNoEvent, SilenceKeepsEvents
  <2> QED BY <2>1, <2>2, <2>3, <2>4 DEF Next
<1> QED BY <1>1, <1>2, InvariantHolds, PTL DEF Spec

\* What was answered with "created" is in the store, with the time the client gave it,
\* whatever requests and Workers run beside the one that answers and however often the
\* event was sent before.
THEOREM AcknowledgedAreRecorded ==
    ASSUME UniqueIds
    PROVE  Spec => []AcknowledgedIsRecorded
<1>1. EventsInv => AcknowledgedIsRecorded BY DEF EventsInv
<1> QED BY <1>1, EventsInvHolds, PTL

\* Time goes on by ticks, when no request is in progress that may not be slow.
LEMMA NowGrows ==
    ASSUME [Next]_vars
    PROVE  \/ now' = now
           \/ /\ now' = now + 1 /\ UNCHANGED <<spans, request>>
              /\ SlowRequests \/ \A h \in Handlers : request[h].at = "idle"
<1>1. CASE UNCHANGED vars BY <1>1 DEF vars, storeVars
<1>2. CASE Tick BY <1>2 DEF Tick
<1>3. ASSUME NEW h \in Handlers, ReceiverStep(h) PROVE now' = now
  BY <1>3
     DEF ReceiverStep, RefuseOutOfSlack, HandleStart, HandleStop, StartSpan, EndSpan,
         CheckDuplicateStart, CheckMissingSpan, EndFoundSpan, CheckDuplicateEnd,
         FailRequest, storeVars
<1>4. ASSUME NEW w \in Workers, WorkerStep(w) PROVE now' = now
  BY <1>4
     DEF WorkerStep, Poll, PlanInterval, PostAccepted, PostAnswerLost, PostRefused,
         PostFailed, ProcessInterval, FindForCleanup, Cleanup, Crash, DeleteSpansByIDs,
         UpdateSpanPlannedInterval, UpdateSpanProcessedInterval, storeVars
<1> QED BY <1>1, <1>2, <1>3, <1>4 DEF Next

\* What is deleted was to be deleted, and what is to be deleted has been found
\* complete and old.
LEMMA SweptIsFound ==
    ASSUME Inv, [Next]_vars, NEW s \in deleted' \cup UNION {sweep'[w] : w \in Workers}
    PROVE  \/ s \in deleted \cup UNION {sweep[w] : w \in Workers}
           \/ s \in FindCompleteSpans(now - CleanupAge)
<1>1. sweep \in [Workers -> SUBSET SpanIds] BY DEF Inv, TypeOK, WorkerTypeOK
<1>2. CASE UNCHANGED <<deleted, sweep>> BY <1>2
<1>3. ASSUME NEW w \in Workers, NEW set,
             set = {} \/ set \subseteq FindCompleteSpans(now - CleanupAge),
             deleted' \subseteq deleted \cup sweep[w],
             sweep' = [sweep EXCEPT ![w] = set]
      PROVE  \/ s \in deleted \cup UNION {sweep[x] : x \in Workers}
             \/ s \in FindCompleteSpans(now - CleanupAge)
  <2>1. CASE s \in deleted' BY <1>3, <2>1
  <2>2. ASSUME NEW x \in Workers, s \in sweep'[x]
        PROVE  s \in sweep[x] \/ s \in FindCompleteSpans(now - CleanupAge)
    BY <1>1, <1>3, <2>2
  <2> QED BY <2>1, <2>2
<1>4. ASSUME NEW h \in Handlers, ReceiverStep(h), UNCHANGED workerVars
      PROVE  UNCHANGED <<deleted, sweep>>
  BY <1>4
     DEF ReceiverStep, RefuseOutOfSlack, HandleStart, HandleStop, StartSpan, EndSpan,
         CheckDuplicateStart, CheckMissingSpan, EndFoundSpan, CheckDuplicateEnd,
         FailRequest, storeVars, workerVars
<1>5. ASSUME NEW w \in Workers, FindForCleanup(w)
      PROVE  \/ s \in deleted \cup UNION {sweep[x] : x \in Workers}
             \/ s \in FindCompleteSpans(now - CleanupAge)
  <2> PICK batch \in Batches(FindCompleteSpans(now - CleanupAge), CleanupBatch) :
        sweep' = [sweep EXCEPT ![w] = batch]
    BY <1>5 DEF FindForCleanup
  <2>1. batch \subseteq FindCompleteSpans(now - CleanupAge) BY DEF Batches
  <2>2. deleted' = deleted BY <1>5 DEF FindForCleanup, storeVars
  <2> QED BY <1>3, <2>1, <2>2
<1>6. ASSUME NEW w \in Workers, Cleanup(w)
      PROVE  \/ s \in deleted \cup UNION {sweep[x] : x \in Workers}
             \/ s \in FindCompleteSpans(now - CleanupAge)
  BY <1>3, <1>6 DEF Cleanup, DeleteSpansByIDs
<1>7. ASSUME NEW w \in Workers, Crash(w)
      PROVE  \/ s \in deleted \cup UNION {sweep[x] : x \in Workers}
             \/ s \in FindCompleteSpans(now - CleanupAge)
  BY <1>3, <1>7 DEF Crash, storeVars
<1>8. ASSUME NEW w \in Workers,
             Poll(w) \/ PlanInterval(w) \/ PostAccepted(w) \/ PostAnswerLost(w)
                \/ PostRefused(w) \/ PostFailed(w) \/ ProcessInterval(w)
      PROVE  UNCHANGED <<deleted, sweep>>
  BY <1>8
     DEF Poll, PlanInterval, PostAccepted, PostAnswerLost, PostRefused,
         PostFailed, ProcessInterval, UpdateSpanPlannedInterval,
         UpdateSpanProcessedInterval, storeVars
<1>9. CASE UNCHANGED vars \/ Tick BY <1>2, <1>9 DEF vars, storeVars, Tick, workerVars
<1> QED BY <1>2, <1>4, <1>5, <1>6, <1>7, <1>8, <1>9 DEF Next, WorkerStep

-----------------------------------------------------------------------------
\* What is about to be deleted, or has been, ended longer ago than the retention,
\* whatever is still to come.

\* What clean-up has found stays settled, and ages.
LEMMA SettledStaysSettled ==
    ASSUME Inv, SettledLongAgo, [Next]_vars, NEW s \in Started,
           spans[s].complete, spans[s].last < now - CleanupAge
    PROVE  s \in Started' /\ spans'[s].complete /\ spans'[s].last < now' - CleanupAge
<1>1. s \in SpanIds /\ spans'[s] = spans[s]
  BY StartedStays, StartedIsSpan DEF Inv
<1>2. now \in Int /\ now' \in Int /\ now <= now' /\ CleanupAge \in Int
  <2>1. now \in Int /\ CleanupAge \in Int
    BY TimeIsInt, WorkerAssumption DEF Inv, TypeOK, StoreTypeOK
  <2>2. now' = now \/ now' = now + 1
    BY NowGrows
  <2> QED BY <2>1, <2>2
<1>3. spans[s].last \in Int
  BY StartedIsSpan, SpanFields, TimeIsInt DEF Inv
<1> QED BY <1>1, <1>2, <1>3 DEF Started

\* Clean-up reads the documents that are complete and old, and deletes those.
LEMMA CleanupKeepsSettled ==
    ASSUME Inv, SettledLongAgo, [Next]_vars
    PROVE  SettledLongAgo'
<1> SUFFICES ASSUME NEW s \in deleted' \cup UNION {sweep'[w] : w \in Workers}
             PROVE  /\ s \in Started' /\ spans'[s].complete
                    /\ spans'[s].last < now' - CleanupAge
  BY DEF SettledLongAgo
<1>1. \/ s \in deleted \cup UNION {sweep[w] : w \in Workers}
      \/ s \in FindCompleteSpans(now - CleanupAge)
  BY SweptIsFound
<1>2. s \in Started /\ spans[s].complete /\ spans[s].last < now - CleanupAge
  BY <1>1 DEF SettledLongAgo, FindCompleteSpans, Docs, Started
<1> QED BY <1>2, SettledStaysSettled

\* Nothing comes back that was deleted.
LEMMA DeletedStays ==
    ASSUME [Next]_vars
    PROVE  deleted \subseteq deleted'
<1>1. ASSUME NEW h \in Handlers, ReceiverStep(h) PROVE deleted' = deleted
  BY <1>1
     DEF ReceiverStep, RefuseOutOfSlack, HandleStart, HandleStop, StartSpan, EndSpan,
         CheckDuplicateStart, CheckMissingSpan, EndFoundSpan, CheckDuplicateEnd,
         FailRequest, storeVars
<1>2. ASSUME NEW w \in Workers, WorkerStep(w) PROVE deleted \subseteq deleted'
  BY <1>2
     DEF WorkerStep, Poll, PlanInterval, PostAccepted, PostAnswerLost, PostRefused,
         PostFailed, ProcessInterval, FindForCleanup, Cleanup, Crash, DeleteSpansByIDs,
         UpdateSpanPlannedInterval, UpdateSpanProcessedInterval, storeVars
<1>3. CASE Tick \/ UNCHANGED vars BY <1>3 DEF Tick, vars, storeVars
<1> QED BY <1>1, <1>2, <1>3 DEF Next

\* A step that records no event brings no ids into the collection.
LEMMA NoEventKeepsUnique ==
    ASSUME UniqueInv, NoEventRecorded, deleted \subseteq deleted'
    PROVE  UniqueInv'
<1>1. \A s \in Docs' : s \in Docs /\ s \in Started
  BY DEF NoEventRecorded, Docs, Started
<1>2. \A s \in Docs' : spans'[s].startId = spans[s].startId /\ spans'[s].endId = spans[s].endId
  BY <1>1 DEF NoEventRecorded, SameEvents
<1> QED BY <1>1, <1>2 DEF UniqueInv

\* A usage is started only when no document of the collection has the id of its start.
LEMMA StartKeepsUnique ==
    ASSUME Inv, UniqueInv, deleted \subseteq deleted', NEW event \in Events,
           StartSpan(event.target, event.time, event.id, TRUE)
    PROVE  UniqueInv'
<1>1. PICK id : id = event.id OBVIOUS
<1>0. PICK s \in SpanIds :
        /\ spans[s] = None
        /\ spans' = [spans EXCEPT ![s] = NewSpan(event.target, event.time, event.id)]
  BY DEF StartSpan
<1>new. PICK new : new = NewSpan(event.target, event.time, event.id) OBVIOUS
<1>2. spans[s] = None /\ spans' = [spans EXCEPT ![s] = new] BY <1>0, <1>new
<1>3. new.startId = id /\ new.endId = None
  BY <1>1, <1>new DEF NewSpan
<1>4. spans'[s] = new /\ \A r \in SpanIds : r # s => spans'[r] = spans[r]
  BY <1>2 DEF Inv, TypeOK, StoreTypeOK
<1>5. id # None => \A r \in Docs : spans[r].startId # id
  BY <1>1 DEF StartSpan, StartKeyTaken, ExistsSpanWithStartDedupID
<1>6. \A r \in Docs' : r # s => r \in Docs /\ spans'[r] = spans[r]
  BY <1>4 DEF Docs
<1> QED BY <1>3, <1>4, <1>5, <1>6 DEF UniqueInv

\* A usage is stopped only when no document of the collection has the id of its stop.
LEMMA StopKeepsUnique ==
    ASSUME Inv, UniqueInv, deleted \subseteq deleted', NEW event \in Events,
           EndSpan(event.target, event.time, event.id, TRUE)
    PROVE  UniqueInv'
<1>1. PICK id : id = event.id OBVIOUS
<1>0. PICK s \in Endable(event.target) :
        spans' = [spans EXCEPT ![s] = Ended(spans[s], event.time, event.id)]
  BY DEF EndSpan
<1>old. PICK old : old = spans[s] OBVIOUS
<1>new. PICK new : new = Ended(spans[s], event.time, event.id) OBVIOUS
<1>2. /\ s \in Endable(event.target) /\ old = spans[s]
      /\ new = Ended(spans[s], event.time, event.id) /\ spans' = [spans EXCEPT ![s] = new]
  BY <1>0, <1>old, <1>new
<1>3. s \in Docs /\ s \in SpanIds /\ old \in Span
  BY <1>2, StartedIsSpan DEF Endable, SpansByTarget, Docs, Started, Inv
<1>4. new.startId = old.startId /\ new.endId = id
  BY <1>1, <1>2, <1>3 DEF Ended, Span
<1>5. spans'[s] = new /\ \A r \in SpanIds : r # s => spans'[r] = spans[r]
  BY <1>2, <1>3 DEF Inv, TypeOK, StoreTypeOK
<1>6. id # None => \A r \in Docs : spans[r].endId # id
  BY <1>1 DEF EndSpan, ExistsSpanWithEndDedupID
<1>7. \A r \in Docs' : r # s => r \in Docs /\ spans'[r] = spans[r]
  BY <1>5 DEF Docs
<1>8. \A r \in Docs : r # s => (spans[r].startId = old.startId => spans[r].startId = None)
  BY <1>2, <1>3 DEF UniqueInv
<1> QED BY <1>4, <1>5, <1>6, <1>7, <1>8 DEF UniqueInv

\* Every step keeps the ids of the collection unique.
LEMMA StepKeepsUnique ==
    ASSUME Inv, UniqueInv, [Next]_vars
    PROVE  UniqueInv'
<1>1. deleted \subseteq deleted' BY DeletedStays
<1>2. CASE UNCHANGED spans
  BY <1>1, <1>2, SameSpansRecordNoEvent, NoEventKeepsUnique
<1>3. ASSUME NEW w \in Workers, WorkerStep(w)
      PROVE  UniqueInv'
  BY <1>1, <1>3, WorkerRecordsNoEvent, NoEventKeepsUnique
<1>4. ASSUME NEW h \in Handlers, ReceiverStep(h)
      PROVE  UniqueInv'
  <2>1. ASSUME NEW event \in Events, HandleStart(h, event)
        PROVE  UniqueInv'
    <3>1. CASE StartSpan(event.target, event.time, event.id, TRUE)
      BY <1>1, <3>1, StartKeepsUnique
    <3>2. CASE StartSpan(event.target, event.time, event.id, FALSE)
      BY <1>2, <3>2 DEF StartSpan
    <3> QED BY <2>1, <3>1, <3>2 DEF HandleStart
  <2>2. CASE EndFoundSpan(h)
    <3>1. PICK event : event = request[h].event OBVIOUS
    <3>2. event \in Events
      BY <2>2, <3>1 DEF EndFoundSpan, Inv, TypeOK, ReceiverTypeOK, RequestsInv, Request
    <3>3. CASE EndSpan(event.target, event.time, event.id, TRUE)
      BY <1>1, <3>2, <3>3, StopKeepsUnique
    <3>4. CASE EndSpan(event.target, event.time, event.id, FALSE)
      BY <1>2, <3>4 DEF EndSpan
    <3> QED BY <2>2, <3>1, <3>3, <3>4 DEF EndFoundSpan
  <2>3. CASE \/ \E event \in Events : RefuseOutOfSlack(h, event) \/ HandleStop(h, event)
             \/ CheckDuplicateStart(h) \/ CheckMissingSpan(h) \/ CheckDuplicateEnd(h)
             \/ FailRequest(h)
    <3>1. UNCHANGED spans
      BY <2>3
         DEF RefuseOutOfSlack, HandleStop, CheckDuplicateStart, CheckMissingSpan,
             CheckDuplicateEnd, FailRequest, storeVars
    <3> QED BY <1>2, <3>1
  <2> QED BY <1>4, <2>1, <2>2, <2>3 DEF ReceiverStep
<1>5. CASE Tick \/ UNCHANGED vars BY <1>2, <1>5 DEF Tick, vars, storeVars
<1> QED BY <1>3, <1>4, <1>5 DEF Next

\* An event that was applied is applied again, however late it is retried and whatever
\* requests, Workers and clean-up run beside it, only when the usage that recorded it has
\* been cleaned up, and only after the retention: for any slack and any retention.
THEOREM ReappliedAreForgotten == Spec => []AppliedAgainOnlyLate
<1>1. Init => RetriesInv
  BY DEF Init, StoreInit, WorkerInit, RetriesInv, SettledLongAgo, UniqueInv, Docs
<1>2. Inv /\ RetriesInv /\ [Next]_vars => RetriesInv'
  BY CleanupKeepsSettled, StepKeepsUnique DEF RetriesInv
<1>3. Inv /\ RetriesInv => AppliedAgainOnlyLate
  <2> SUFFICES ASSUME Inv, SettledLongAgo, UniqueInv PROVE AppliedAgainOnlyLate
    BY DEF RetriesInv
  <2>1. ASSUME NEW s \in deleted PROVE Forgotten(s)
    <3>1. s \in Started /\ spans[s].complete /\ spans[s].last < now - CleanupAge
      BY <2>1 DEF SettledLongAgo
    <3>2. spans[s].last = spans[s].end
      BY <3>1 DEF Inv, SpansInv, SpanInv
    <3> QED BY <3>1, <3>2 DEF Forgotten
  <2>2. \A s \in Started : s \in deleted \/ s \in Docs
    BY DEF Started, Docs
  <2> QED BY <2>1, <2>2 DEF UniqueInv, AppliedAgainOnlyLate
<1> QED BY <1>1, <1>2, <1>3, InvariantHolds, PTL DEF Spec

=============================================================================
