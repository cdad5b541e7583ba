--------------------------- MODULE BridgeTheorems ---------------------------
(***************************************************************************)
(* Theorems about a bridge and the renewer beside it, for any number of    *)
(* resources, plans, events, pages, faults and ticks.                      *)
(***************************************************************************)
EXTENDS BridgeInvariant, SumTheorems, SequenceTheorems, TLAPS

\* A set of naturals with a bound has a greatest element.
LEMMA HasGreatest ==
    ASSUME NEW n \in Nat, NEW S \in SUBSET (0 .. n), S # {}
    PROVE  \E m \in S : \A k \in S : k <= m
<1> DEFINE D == {x \in 0 .. n : n - x \in S}
<1>1. \A k \in S : k \in 0 .. n /\ n - k \in D
  <2> TAKE k \in S
  <2>1. k \in 0 .. n OBVIOUS
  <2>2. n - k \in 0 .. n /\ n - (n - k) = k BY <2>1
  <2> QED BY <2>1, <2>2
<1>2. D \in SUBSET Nat /\ D # {}
  <2>1. \A d \in D : d \in Nat OBVIOUS
  <2>2. D # {} BY <1>1
  <2> QED BY <2>1, <2>2
<1>3. PICK d \in D : \A k \in D : d <= k BY <1>2, HasLeast
<1>4. n - d \in S /\ d \in 0 .. n OBVIOUS
<1> HIDE DEF D
<1>5. ASSUME NEW k \in S PROVE k <= n - d
  <2>1. d <= n - k BY <1>1, <1>3
  <2> QED BY <1>1, <1>4, <2>1
<1> QED BY <1>4, <1>5

\* Every place of a list of events is taken.
LEMMA PlaceIsTaken ==
    ASSUME NEW n \in Nat, NEW list \in SUBSET (1 .. n), NEW p \in Nat,
           p < Cardinality(list)
    PROVE  \E m \in list : Place(m, list) = p
<1> DEFINE Before(m) == {j \in list : j < m}
<1>0. /\ \A m \in list : m \in Nat /\ m \in 0 .. n
      /\ \A m \in list : m \notin Before(m)
  OBVIOUS
<1>1. IsFiniteSet(list)
  <2>1. 1 \in Int /\ n \in Int OBVIOUS
  <2>2. IsFiniteSet(1 .. n) BY <2>1, FS_Interval
  <2> QED BY <2>2, FS_Subset
<1>2. ASSUME NEW m \in list
      PROVE  /\ IsFiniteSet(Before(m)) /\ Cardinality(Before(m)) \in Nat
             /\ Before(m) \in SUBSET (0 .. n)
             /\ Cardinality(Before(m) \cup {m}) = Cardinality(Before(m)) + 1
  <2>1. Before(m) \in SUBSET list OBVIOUS
  <2>2. IsFiniteSet(Before(m)) BY <1>1, <2>1, FS_Subset
  <2>3. m \notin Before(m) BY <1>0
  <2>4. Before(m) \in SUBSET (0 .. n) BY <1>0, <2>1
  <2>5. Cardinality(Before(m)) \in Nat BY <2>2, FS_CardinalityType
  <2>6. Cardinality(Before(m) \cup {m}) = Cardinality(Before(m)) + 1
    BY <2>2, <2>3, FS_AddElement
  <2> HIDE DEF Before
  <2> QED BY <2>2, <2>4, <2>5, <2>6
<1> DEFINE Late == {m \in list : Cardinality(Before(m)) >= p}
<1>4. Late # {}
  <2>1. list # {} BY FS_EmptySet
  <2>2. list \in SUBSET (0 .. n) BY <1>0
  <2>3. PICK m \in list : \A k \in list : k <= m BY <2>1, <2>2, HasGreatest
  <2>4. list = Before(m) \cup {m}
    <3>1. \A k \in list : k < m \/ k = m BY <1>0, <2>3
    <3> QED BY <3>1
  <2>5. Cardinality(list) = Cardinality(Before(m)) + 1 BY <1>2, <2>4
  <2>6. Cardinality(Before(m)) \in Nat BY <1>2
  <2>7. Cardinality(Before(m)) >= p BY <2>5, <2>6
  <2> QED BY <2>7
<1>5. Late \in SUBSET Nat BY <1>0
<1>6. PICK y \in Late : \A k \in Late : y <= k
  BY <1>4, <1>5, HasLeast
<1>7. y \in list /\ Cardinality(Before(y)) >= p /\ Cardinality(Before(y)) \in Nat
  BY <1>2
<1>8. Cardinality(Before(y)) = p
  <2> SUFFICES ASSUME Cardinality(Before(y)) > p PROVE FALSE
    BY <1>7
  <2>1. Before(y) # {} BY FS_EmptySet
  <2>2. PICK x \in Before(y) : \A k \in Before(y) : k <= x
    BY <1>2, <1>7, <2>1, HasGreatest
  <2>3. x \in list /\ x < y /\ x \in Nat /\ y \in Nat BY <1>0, <1>7
  <2>4. Before(y) = Before(x) \cup {x}
    <3>1. \A k \in Before(y) : k < x \/ k = x BY <1>0, <2>2
    <3>2. \A k \in list : k < x => k < y BY <1>0, <2>3
    <3> QED BY <2>3, <3>1, <3>2
  <2>5. Cardinality(Before(y)) = Cardinality(Before(x)) + 1 BY <1>2, <2>3, <2>4
  <2>6. Cardinality(Before(x)) \in Nat BY <1>2, <2>3
  <2>7. x \in Late BY <1>7, <2>3, <2>5, <2>6
  <2> QED BY <1>6, <2>3, <2>7
<1> QED BY <1>7, <1>8 DEF Place

-----------------------------------------------------------------------------
(***************************************************************************)
(* Types.                                                                  *)
(***************************************************************************)
LEMMA Products == \A a, b \in Nat : a * b \in Nat
OBVIOUS

\* An event is dated a natural time.
LEMMA TimeIsNatural ==
    ASSUME NEW i, i \in DOMAIN events, events \in Seq(Event)
    PROVE  /\ events[i] \in Event /\ events[i].tick \in Nat
           /\ TimeOf(i) \in Nat /\ TimeOf(i) + 1 \in Nat
<1>1. i \in 1 .. Len(events) BY LenProperties
<1>2. events[i] \in Event BY <1>1, ElementOfSeq
<1>3. events[i].tick \in Nat BY <1>2 DEF Event
<1>4. events[i].tick * Gap \in Nat BY <1>3, Products, CarryOverAssumption
<1> QED BY <1>2, <1>3, <1>4 DEF TimeOf

\* What the bridge or the renewer writes is a document of its event, under the
\* month of its time.
CarryOK == /\ carry \in [Key -> Doc \cup {NoDoc}]
           /\ \A k \in Key : carry[k] # NoDoc => /\ carry[k].guid \in DOMAIN events
                                                 /\ MonthOf(carry[k].time) = k[3]

\* What the bridge or the renewer writes of an event leaves every document under
\* the month of its time.
LEMMA DocIsWritten ==
    ASSUME CarryOK, events \in Seq(Event), NEW usage \in Usages,
           NEW guid \in DOMAIN events, NEW doc,
           doc = [guid |-> guid, state |-> usage.state, time |-> usage.time],
           Put(BuildKey(usage), doc), events' = events
    PROVE  CarryOK'
<1>1. guid \in Nat BY LenProperties
<1>2. doc \in Doc BY <1>1 DEF Doc, Usages, States
<1>3. carry' \in [Key -> Doc \cup {NoDoc}]
  BY <1>2 DEF Put, CarryOK
<1>4. \A k \in Key : carry'[k] = IF k = BuildKey(usage) THEN doc ELSE carry[k]
  BY DEF Put, CarryOK
<1>5. BuildKey(usage)[3] = MonthOf(doc.time) /\ doc.guid = guid
  BY DEF BuildKey
<1>6. ASSUME NEW k \in Key, carry'[k] # NoDoc
      PROVE  carry'[k].guid \in DOMAIN events' /\ MonthOf(carry'[k].time) = k[3]
  <2>1. CASE k = BuildKey(usage) BY <1>4, <1>5, <2>1
  <2>2. CASE k # BuildKey(usage) BY <1>4, <1>6, <2>2 DEF CarryOK
  <2> QED BY <2>1, <2>2
<1> QED BY <1>3, <1>6 DEF CarryOK, MonthOf, MonthLength

\* The carry-over database answers a document or none.
LEMMA StoredIsDoc ==
    ASSUME carry \in [Key -> Doc \cup {NoDoc}], NEW key
    PROVE  Stored(key) \in Doc \cup {NoDoc}
BY DEF Stored

\* A usage that is moved is a usage.
LEMMA AdjustedIsUsage ==
    ASSUME carry \in [Key -> Doc \cup {NoDoc}], NEW usage \in Usages, NEW guid
    PROVE  AdjustTimestamp(usage, guid) \in Usages
<1> DEFINE stored == Stored(BuildKey(usage))
           later == stored.time + 1
<1>1. CASE stored # NoDoc /\ stored.guid # guid /\ stored.time >= usage.time
  <2>1. stored \in Doc BY <1>1, StoredIsDoc
  <2>2. later \in Nat BY <2>1 DEF Doc
  <2>3. AdjustTimestamp(usage, guid) = [usage EXCEPT !.time = later]
    BY <1>1 DEF AdjustTimestamp
  <2> HIDE DEF later
  <2> QED BY <2>2, <2>3 DEF Usages
<1>2. CASE ~ (stored # NoDoc /\ stored.guid # guid /\ stored.time >= usage.time)
  BY <1>2 DEF AdjustTimestamp
<1> QED BY <1>1, <1>2

\* The usages that an event is mapped to.
LEMMA MappedIsUsage ==
    ASSUME events \in Seq(Event), NEW i, i \in DOMAIN events, NEW plan \in Plans,
           NEW state \in States, NEW time \in Nat
    PROVE  Usage(i, plan, state, time) \in Usages
<1>1. events[i].res \in Resources BY TimeIsNatural DEF Event
<1> QED BY <1>1 DEF Usage, Usages, States

\* The plans that precede a change are plans.
LEMMA PrecedingIsPlan == \A res : Preceding(res) \subseteq Plans
BY DEF Preceding, Key

TypesInv == TypeOK /\ BridgeTypeOK /\ RenewerInv
PollInv == ListInv /\ NothingSkipped /\ PageInv /\ ReachInv

\* A step that leaves the events alone keeps the types, if what it writes has its
\* type.
LEMMA BridgeTypes ==
    ASSUME TypesInv, UNCHANGED <<now, events, purged, renewer>>, CarryOK',
           cached' \in {0} \cup DOMAIN events, saved' \in {NoDoc, 0} \cup DOMAIN events,
           bridge' \in Poll, reader' \in PageReader,
           bridge'.at \in Reporting => bridge'.todo # <<>>,
           bridge'.at \in Processing \cup {"saving"} => bridge'.event \in DOMAIN events
    PROVE  TypesInv'
<1>1. RenewerInv'
  BY DEF TypesInv, RenewerInv, Renewing, DocRef, Key
<1>2. BridgeTypeOK'
  BY DEF TypesInv, BridgeTypeOK, CarryOK, Poll, PageReader
<1>3. bridge'.todo \in Seq(Usages) BY DEF Poll
<1>4. \A i \in DOMAIN bridge'.todo : bridge'.todo[i] \in Usages
  BY <1>3, LenProperties, ElementOfSeq
<1>5. TypeOK'
  BY <1>4 DEF TypesInv, TypeOK, CarryOK, MonthOf, MonthLength, Usages
<1> QED BY <1>1, <1>2, <1>5 DEF TypesInv

\* What the types say of the parts that the steps read.
LEMMA TypesMean ==
    ASSUME TypesInv
    PROVE  /\ CarryOK /\ events \in Seq(Event) /\ Len(events) \in Nat
           /\ DOMAIN events = 1 .. Len(events) /\ purged \in 0 .. Len(events)
           /\ now \in Nat
           /\ \A i \in DOMAIN events : events[i].tick \in Nat
           /\ cached \in {0} \cup DOMAIN events
           /\ saved \in {NoDoc, 0} \cup DOMAIN events
           /\ bridge \in Poll /\ reader \in PageReader
           /\ bridge.at \in Reporting =>
                 /\ bridge.todo # <<>> /\ Head(bridge.todo) \in Usages
                 /\ Tail(bridge.todo) \in Seq(Usages)
                 /\ Len(bridge.todo) > 1 => Tail(bridge.todo) # <<>>
           /\ bridge.at \in Processing \cup {"saving"} => bridge.event \in DOMAIN events
<1>1. CarryOK BY DEF TypesInv, TypeOK, BridgeTypeOK, CarryOK
<1>2. events \in Seq(Event) BY DEF TypesInv, BridgeTypeOK
<1>3. Len(events) \in Nat /\ DOMAIN events = 1 .. Len(events)
  BY <1>2, LenProperties
<1>4. \A i \in DOMAIN events : events[i].tick \in Nat
  BY <1>2, TimeIsNatural
<1>5. bridge.todo \in Seq(Usages) BY DEF TypesInv, BridgeTypeOK, Poll
<1>6. bridge.todo # <<>> =>
          /\ Head(bridge.todo) \in Usages /\ Tail(bridge.todo) \in Seq(Usages)
          /\ Len(bridge.todo) > 1 => Tail(bridge.todo) # <<>>
  <2> SUFFICES ASSUME bridge.todo # <<>>
               PROVE  /\ Head(bridge.todo) \in Usages /\ Tail(bridge.todo) \in Seq(Usages)
                      /\ Len(bridge.todo) > 1 => Tail(bridge.todo) # <<>>
    OBVIOUS
  <2>1. /\ Head(bridge.todo) \in Usages /\ Tail(bridge.todo) \in Seq(Usages)
        /\ Len(Tail(bridge.todo)) = Len(bridge.todo) - 1
    BY <1>5, HeadTailProperties
  <2>2. Len(bridge.todo) \in Nat BY <1>5, LenProperties
  <2>3. \A n \in Nat : \A m : m = n - 1 /\ n > 1 => m # 0
    OBVIOUS
  <2>4. Len(bridge.todo) > 1 => Len(Tail(bridge.todo)) # 0
    BY ONLY <2>1, <2>2, <2>3
  <2>5. Len(<<>>) = 0 OBVIOUS
  <2> QED BY <2>1, <2>4, <2>5
<1>7. now \in Nat BY CarryOverAssumption DEF TypesInv, TypeOK
<1> QED BY <1>1, <1>2, <1>3, <1>4, <1>6, <1>7 DEF TypesInv, TypeOK, BridgeTypeOK

\* A poll that ends, and its reader.
LEMMA PolledIsPoll ==
    /\ Polled \in Poll /\ Polled.at = "idle" /\ NoReader \in PageReader
BY DEF Polled, Poll, NoReader, PageReader

\* A poll that takes a step is the same elsewhere.
LEMMA PollAt ==
    ASSUME NEW b \in Poll, NEW at \in Processing \cup {"idle", "reading", "saving", "clearing"},
           NEW s, s = [b EXCEPT !.at = at]
    PROVE  s \in Poll /\ s.at = at /\ s.event = b.event /\ s.todo = b.todo /\ s.doc = b.doc
BY DEF Poll
-----------------------------------------------------------------------------
(***************************************************************************)
(* The polls.                                                              *)
(***************************************************************************)
\* What all but the reader and the settled events of a step leave alone.
Quiet == UNCHANGED <<now, events, purged, overlooked>>

\* The event is still being processed.
LEMMA StillProcessing ==
    ASSUME PollInv, Quiet, UNCHANGED <<cached, saved, reader, settled>>,
           bridge.at \in Processing, bridge'.at \in Processing,
           bridge'.event = bridge.event
    PROVE  PollInv'
<1> USE DEF PollInv, Quiet
<1>1. ListInv' BY DEF ListInv, Covered
<1>2. NothingSkipped' BY DEF NothingSkipped, Covered
<1>3. Behind' = Behind BY DEF Behind, Pending
<1>4. PageInv' BY <1>3 DEF PageInv
<1>5. ReachInv' BY <1>3 DEF ReachInv, Base, Reach, IsOldEnough
<1> QED BY <1>1, <1>2, <1>4, <1>5

\* The event has been processed, and all before it have been passed.
LEMMA EventIsSettled ==
    ASSUME PollInv, TypesInv, Quiet, UNCHANGED <<saved, reader>>,
           bridge.at \in Processing, ToSaving(bridge.event)
    PROVE  PollInv' /\ bridge'.at = "saving" /\ bridge'.event = bridge.event
           /\ bridge' \in Poll
<1> USE DEF PollInv, Quiet
<1>1. cached' = bridge.event /\ settled' = settled \cup {bridge.event}
  BY DEF ToSaving
<1>2. bridge.event \in 1 .. Len(events) /\ Len(events) \in Nat
  BY TypesMean
<1>3. bridge' \in Poll /\ bridge'.at = "saving" /\ bridge'.event = bridge.event
  <2>1. bridge' = [at |-> "saving", event |-> bridge.event, todo |-> <<>>, doc |-> NoDoc]
    BY DEF ToSaving, Polled
  <2>2. bridge.event \in Nat BY <1>2
  <2>3. <<>> \in Seq(Usages) OBVIOUS
  <2> QED BY <2>1, <2>2, <2>3 DEF Poll
<1>4. ListInv' BY <1>1 DEF ListInv, Covered
<1>5. NothingSkipped'
  <2>1. 1 .. bridge.event \subseteq settled' \cup overlooked
    BY <1>1, <1>2 DEF PageInv
  <2> QED BY <1>1, <2>1 DEF NothingSkipped, Covered
<1>6. Behind \subseteq Behind'
  BY <1>1, <1>3 DEF Behind, Pending
<1>7. PageInv' BY <1>3, <1>6 DEF PageInv, Processing, Reporting
<1>8. ReachInv' BY <1>3, <1>6 DEF ReachInv, Base, Reach, IsOldEnough
<1> QED BY <1>3, <1>4, <1>5, <1>7, <1>8

\* The poll ends, or clears the progress.
LEMMA PollIsOver ==
    ASSUME PollInv, Quiet, UNCHANGED settled,
           bridge'.at \in {"idle", "clearing"},
           Covered(cached'), saved' # NoDoc => Covered(saved')
    PROVE  PollInv'
<1> USE DEF PollInv, Quiet
<1>1. ListInv' BY DEF ListInv, Covered
<1>2. NothingSkipped' BY DEF NothingSkipped, Covered
<1>3. PageInv' /\ ReachInv' BY DEF PageInv, ReachInv, Processing, Reporting
<1> QED BY <1>1, <1>2, <1>3

\* A poll ends: the cached and the saved progress are still behind what has been
\* passed.
LEMMA PollEnds ==
    ASSUME TypesInv, PollInv, EndPoll, Quiet, UNCHANGED <<settled, renewer>>, CarryOK',
           cached' \in {0} \cup DOMAIN events, saved' \in {NoDoc, 0} \cup DOMAIN events,
           Covered(cached'), saved' # NoDoc => Covered(saved')
    PROVE  TypesInv' /\ PollInv'
<1>1. bridge' = Polled /\ reader' = NoReader BY DEF EndPoll
<1>2. bridge' \in Poll /\ reader' \in PageReader /\ bridge'.at = "idle"
  BY <1>1, PolledIsPoll
<1>3. bridge'.at \notin Processing \cup {"saving"} BY <1>2 DEF Processing, Reporting
<1>4. TypesInv' BY <1>2, <1>3, BridgeTypes DEF Quiet, Processing
<1> QED BY <1>2, <1>4, PollIsOver

\* The progress has been saved.
LEMMA ProgressIsSaved ==
    ASSUME PollInv, Quiet, UNCHANGED <<cached, settled, reader>>, saved' = cached,
           bridge.at = "saving", bridge'.at = "reading"
    PROVE  PollInv'
<1> USE DEF PollInv, Quiet
<1>1. ListInv' BY DEF ListInv, Covered
<1>2. NothingSkipped' BY DEF NothingSkipped, Covered
<1>3. Behind' = Behind BY DEF Behind, Pending, Processing, Reporting
<1>4. PageInv' BY <1>3 DEF PageInv, Processing, Reporting
<1>5. ReachInv' BY <1>3 DEF ReachInv, Base, Reach, IsOldEnough
<1> QED BY <1>1, <1>2, <1>4, <1>5

\* The events are in the order of their time: when one is old enough, so are
\* all before it, and none of them is late.
LEMMA OlderIsOldEnough ==
    ASSUME TypesInv, ListInv, NEW i \in DOMAIN events, IsOldEnough(i),
           NEW j \in DOMAIN events, j <= i
    PROVE  IsOldEnough(j) /\ ~ MayBeLate(j)
<1>1. events[i].tick \in Nat /\ events[j].tick \in Nat /\ now \in Nat
  BY TypesMean
<1>2. events[j].tick <= events[i].tick BY DEF ListInv
<1> QED BY <1>1, <1>2, EventBridgeAssumption DEF IsOldEnough, MayBeLate

\* The reach of a reader grows by a page with every page.
LEMMA ReachIsNatural ==
    ASSUME TypesInv, NEW r \in PageReader, r.next > 0
    PROVE  /\ Base(r) \in Nat /\ Reach(r) \in Nat /\ Base(r) <= Reach(r)
           /\ purged <= Base(r) /\ r.after <= Base(r)
           /\ (r.next - 1) * PageSize \in Nat /\ PageSize \in Nat /\ PageSize > 0
           /\ r.next * PageSize \in Nat
           /\ r.next * PageSize = (r.next - 1) * PageSize + PageSize
<1>1. PageSize \in Nat /\ PageSize > 0 BY EventBridgeAssumption
<1>2. purged \in Nat /\ r.after \in Nat /\ r.next \in Nat /\ r.next - 1 \in Nat
  BY TypesMean DEF PageReader
<1>3. (r.next - 1) * PageSize \in Nat /\ r.next * PageSize \in Nat
  BY <1>1, <1>2, Products
<1>4. r.next * PageSize = (r.next - 1) * PageSize + PageSize
  BY <1>1, <1>2
<1>5. Base(r) \in Nat /\ purged <= Base(r) /\ r.after <= Base(r)
  BY <1>2 DEF Base
<1> QED BY <1>1, <1>3, <1>4, <1>5 DEF Reach

\* An event of a page is taken.
LEMMA ItemIsTaken ==
    ASSUME TypesInv, PollInv, UNCHANGED <<now, events, purged, cached, saved, settled>>,
           NEW from \in PageReader, NEW i, IsNext(i, from.page), Consume(i, from),
           IsOldEnough(i), overlooked \subseteq overlooked',
           from.page \subseteq DOMAIN events,
           \A k \in from.page :
              1 .. k - 1 \subseteq settled \cup overlooked \cup from.page \cup from.unlisted,
           \A j \in from.unlisted : j < i => j \in settled \cup overlooked',
           from.next > 0 => \E m \in from.page : Reach(from) <= m
    PROVE  /\ PollInv' /\ bridge' \in Poll /\ reader' \in PageReader
           /\ bridge'.at = "mapping" /\ bridge'.event \in DOMAIN events
<1> DEFINE page == from.page \ {i}
           unlisted == {j \in from.unlisted : j > i}
<1>1. /\ reader' = [from EXCEPT !.page = page, !.unlisted = unlisted]
      /\ bridge' = [bridge EXCEPT !.at = "mapping", !.event = i]
  BY DEF Consume
<1>2. i \in from.page /\ i \in DOMAIN events /\ i \in 1 .. Len(events) /\ i \in Nat
      /\ Len(events) \in Nat
  BY TypesMean DEF IsNext
<1>3. page \in SUBSET Nat /\ unlisted \in SUBSET Nat BY DEF PageReader
<1>4. /\ reader' \in PageReader /\ reader'.page = page /\ reader'.unlisted = unlisted
      /\ reader'.after = from.after /\ reader'.next = from.next
  <2> HIDE DEF page, unlisted
  <2> QED BY <1>1, <1>3 DEF PageReader
<1>5. bridge' \in Poll /\ bridge'.at = "mapping" /\ bridge'.event = i
  <2>1. bridge \in Poll BY TypesMean
  <2> QED BY <1>1, <1>2, <2>1 DEF Poll, Processing
<1>6. ListInv' BY DEF PollInv, ListInv, Covered
<1>7. NothingSkipped' BY DEF PollInv, NothingSkipped, Covered
<1>8. Behind' = settled \cup overlooked' \cup {i}
  BY <1>5 DEF Behind, Pending, Processing
<1>9. \A k \in from.page : k \in Nat /\ i <= k BY DEF IsNext, PageReader
<1>10. 1 .. i - 1 \subseteq settled \cup overlooked'
  <2> SUFFICES ASSUME NEW j \in 1 .. i - 1 PROVE j \in settled \cup overlooked'
    OBVIOUS
  <2>1. j < i /\ j \in Nat BY <1>2
  <2>2. j \notin from.page BY <1>2, <1>9, <2>1
  <2>3. j \in settled \cup overlooked \cup from.page \cup from.unlisted BY <1>2
  <2> QED BY <2>1, <2>2, <2>3
<1>11. ASSUME NEW k \in page
       PROVE  1 .. k - 1 \subseteq Behind' \cup page \cup unlisted
  <2> SUFFICES ASSUME NEW j \in 1 .. k - 1 PROVE j \in Behind' \cup page \cup unlisted
    OBVIOUS
  <2>1. j \in settled \cup overlooked \cup from.page \cup from.unlisted OBVIOUS
  <2>2. j \in Nat /\ k \in Nat BY <1>3
  <2>3. CASE j = i BY <2>3, <1>8
  <2>4. CASE j < i
    <3>1. j \in 1 .. i - 1 BY <2>2, <2>4, <1>2
    <3> QED BY <3>1, <1>10, <1>8
  <2>5. CASE j > i BY <2>1, <2>5, <1>8
  <2> QED BY <2>2, <2>3, <2>4, <2>5, <1>2
<1>12. PageInv'
  <2>1. reader'.page \subseteq DOMAIN events' BY <1>4
  <2>2. bridge'.at \in Processing /\ 1 .. bridge'.event - 1 \subseteq settled' \cup overlooked'
    BY <1>5, <1>10 DEF Processing
  <2>3. \A k \in reader'.page :
           1 .. k - 1 \subseteq Behind' \cup reader'.page \cup reader'.unlisted
    BY <1>4, <1>11
  <2> HIDE DEF page, unlisted
  <2> QED BY <2>1, <2>2, <2>3 DEF PageInv
<1>13. Base(reader)' = Base(from) /\ Reach(reader)' = Reach(from)
  BY <1>4 DEF Base, Reach
<1>14. ASSUME from.next > 0
       PROVE  /\ page # {} => \E m \in page : Reach(from) <= m
              /\ page = {} => /\ Base(from) <= Reach(from) /\ Reach(from) <= i
                               /\ Reach(from) \in Nat
  <2>1. PICK m \in from.page : Reach(from) <= m BY <1>14
  <2>2. Reach(from) \in Nat /\ Base(from) <= Reach(from) BY <1>14, ReachIsNatural
  <2>3. CASE m = i
    <3>1. \A k \in page : Reach(from) <= k
      BY <1>2, <1>9, <2>1, <2>2, <2>3
    <3> QED BY <2>1, <2>2, <2>3, <3>1
  <2>4. CASE m # i BY <2>1, <2>4, <2>2
  <2> QED BY <2>3, <2>4
<1>15. ASSUME from.next > 0, page = {}
       PROVE  /\ Base(from) <= Reach(from) /\ Reach(from) <= Len(events)
              /\ 1 .. Reach(from) \subseteq Behind'
              /\ \A k \in 1 .. Reach(from) : IsOldEnough(k)
  <2>1. Base(from) <= Reach(from) /\ Reach(from) <= i /\ Reach(from) \in Nat
    BY <1>14, <1>15
  <2>2. Reach(from) <= Len(events) BY <1>2, <2>1
  <2>3. \A k \in 1 .. Reach(from) : k = i \/ k \in 1 .. i - 1 BY <1>2, <2>1
  <2>4. 1 .. Reach(from) \subseteq Behind' BY <1>8, <1>10, <2>3
  <2>5. \A k \in 1 .. Reach(from) : k \in DOMAIN events /\ k <= i
    BY <1>2, <2>1, TypesMean
  <2>6. \A k \in 1 .. Reach(from) : IsOldEnough(k)
    BY <1>2, <2>5, OlderIsOldEnough DEF PollInv
  <2> QED BY <2>1, <2>2, <2>4, <2>6
<1>16. ReachInv'
  <2>1. \A k : IsOldEnough(k)' <=> IsOldEnough(k) BY DEF IsOldEnough
  <2> HIDE DEF page, unlisted
  <2> QED BY <1>4, <1>5, <1>13, <1>14, <1>15, <2>1 DEF ReachInv, Processing
<1> QED BY <1>2, <1>4, <1>5, <1>6, <1>7, <1>12, <1>16 DEF PollInv

\* The first event of a page that has been read before is taken.
LEMMA NextItemTaken ==
    ASSUME TypesInv, PollInv, NextItem, UNCHANGED renewer
    PROVE  TypesInv' /\ PollInv'
<1> USE DEF NextItem
<1>1. PICK i \in reader.page :
        LET passed == {j \in reader.unlisted \ settled : j < i /\ IsOldEnough(i)}
        IN  /\ IsNext(i, reader.page)
            /\ Consume(i, reader)
            /\ overlooked' = overlooked \cup passed
  OBVIOUS
<1>2. UNCHANGED <<now, carry, events, purged, cached, saved, settled>>
  BY DEF carryVars, controllerVars, progressVars
<1>3. reader \in PageReader /\ CarryOK' /\ bridge \in Poll
      /\ cached' \in {0} \cup DOMAIN events /\ saved' \in {NoDoc, 0} \cup DOMAIN events
      /\ purged \in 0 .. Len(events)
  BY <1>2, TypesMean DEF CarryOK, MonthOf, MonthLength
<1>4. CASE IsOldEnough(i)
  <2>1. Behind = settled \cup overlooked BY DEF Behind, Pending, Processing, Reporting
  <2>2. /\ reader.page \subseteq DOMAIN events
        /\ \A k \in reader.page :
              1 .. k - 1 \subseteq settled \cup overlooked \cup reader.page \cup reader.unlisted
    BY <2>1 DEF PollInv, PageInv
  <2>3. overlooked \subseteq overlooked' BY <1>1
  <2>4. \A j \in reader.unlisted : j < i => j \in settled \cup overlooked'
    BY <1>1, <1>4
  <2>5. reader.next > 0 => \E m \in reader.page : Reach(reader) <= m
    BY <1>1 DEF PollInv, ReachInv
  <2>6. /\ PollInv' /\ bridge' \in Poll /\ reader' \in PageReader
        /\ bridge'.at = "mapping" /\ bridge'.event \in DOMAIN events
    BY <1>1, <1>2, <1>3, <1>4, <2>2, <2>3, <2>4, <2>5, ItemIsTaken
  <2>7. "mapping" \notin Reporting BY DEF Reporting
  <2>8. TypesInv' BY <1>2, <1>3, <2>6, <2>7, BridgeTypes
  <2> QED BY <2>6, <2>8
<1>5. CASE ~ IsOldEnough(i)
  <2>1. EndPoll /\ overlooked' = overlooked BY <1>1, <1>5 DEF Consume
  <2>2. Covered(cached') /\ (saved' # NoDoc => Covered(saved'))
    BY <1>2 DEF PollInv, NothingSkipped
  <2> QED BY <1>2, <1>3, <2>1, <2>2, PollEnds DEF Quiet
<1> QED BY <1>4, <1>5

\* What a reader may rely on when it reads a page: the pages before reach at
\* least as far as if no event had been late, and all events they reach have
\* been passed and are old enough to be listed.
LEMMA PageStarts ==
    ASSUME TypesInv, PollInv, AtPage
    PROVE  /\ Reader \in PageReader
           /\ Base(Reader) <= Reach(Reader) /\ Reach(Reader) <= Len(events)
           /\ 1 .. Reach(Reader) \subseteq settled \cup overlooked
           /\ \A i \in 1 .. Reach(Reader) : i > Base(Reader) => IsOldEnough(i)
<1> USE DEF AtPage, PollInv
<1>1. /\ cached \in 0 .. Len(events) /\ purged \in 0 .. Len(events)
      /\ Len(events) \in Nat /\ reader \in PageReader
  BY TypesMean
<1>2. CASE bridge.at = "idle"
  <2>1. Reader = [after |-> cached, next |-> 1, page |-> {}, unlisted |-> {}]
    BY <1>2 DEF Reader, NoReader
  <2>2. Reader \in PageReader BY <1>1, <2>1 DEF PageReader
  <2>3. Base(Reader) \in {cached, purged} BY <2>1 DEF Base
  <2>4. (1 - 1) * PageSize = 0 BY EventBridgeAssumption
  <2>5. Base(Reader) \in Nat BY <1>1, <2>3
  <2>6. Reach(Reader) = Base(Reader) BY <2>1, <2>4, <2>5 DEF Reach
  <2>7. 1 .. Base(Reader) \subseteq settled \cup overlooked
    BY <2>3 DEF NothingSkipped, ListInv, Covered
  <2> QED BY <1>1, <2>2, <2>3, <2>5, <2>6, <2>7
<1>3. CASE bridge.at = "reading"
  <2>1. Reader = reader BY <1>3 DEF Reader
  <2>2. Behind = settled \cup overlooked
    BY <1>3 DEF Behind, Pending, Processing, Reporting
  <2> QED BY <1>1, <1>3, <2>1, <2>2 DEF ReachInv
<1> QED BY <1>2, <1>3

\* The places of two events in a list are in their order.
LEMMA PlacesAreOrdered ==
    ASSUME NEW n \in Nat, NEW list \in SUBSET (1 .. n), NEW i \in Nat, NEW j \in Nat,
           j <= i
    PROVE  /\ Place(j, list) \in Nat /\ Place(i, list) \in Nat
           /\ Place(j, list) <= Place(i, list)
<1> DEFINE Before(m) == {k \in list : k < m}
<1>1. IsFiniteSet(list)
  <2>1. 1 \in Int /\ n \in Int OBVIOUS
  <2>2. IsFiniteSet(1 .. n) BY <2>1, FS_Interval
  <2> QED BY <2>2, FS_Subset
<1>2. Before(j) \subseteq Before(i)
  <2>1. \A k \in list : k \in Nat OBVIOUS
  <2>2. \A k \in list : k < j => k < i BY <2>1
  <2> QED BY <2>2
<1>3. Before(i) \subseteq list OBVIOUS
<1>4. IsFiniteSet(Before(i)) BY <1>1, <1>3, FS_Subset
<1>5. IsFiniteSet(Before(j)) /\ Cardinality(Before(j)) <= Cardinality(Before(i))
  BY <1>2, <1>4, FS_Subset
<1>6. Cardinality(Before(j)) \in Nat /\ Cardinality(Before(i)) \in Nat
  BY <1>4, <1>5, FS_CardinalityType
<1> QED BY <1>5, <1>6 DEF Place

\* The place of an event that has at least the numbers of an interval listed
\* before it ...
LEMMA PlaceIsAtLeast ==
    ASSUME NEW n \in Nat, NEW list \in SUBSET (1 .. n), NEW a \in Nat, NEW b \in Nat,
           a <= b, a + 1 .. b \subseteq list, NEW j \in Nat, b < j
    PROVE  b - a <= Place(j, list)
<1> DEFINE Before == {k \in list : k < j}
<1>1. IsFiniteSet(Before)
  <2>1. 1 \in Int /\ n \in Int OBVIOUS
  <2>2. IsFiniteSet(1 .. n) BY <2>1, FS_Interval
  <2>3. Before \subseteq 1 .. n OBVIOUS
  <2> QED BY <2>2, <2>3, FS_Subset
<1>2. a + 1 .. b \subseteq Before OBVIOUS
<1>3. Cardinality(a + 1 .. b) = b - a
  <2>1. a + 1 \in Int /\ b \in Int OBVIOUS
  <2>2. Cardinality(a + 1 .. b) = IF a + 1 > b THEN 0 ELSE b - (a + 1) + 1
    BY <2>1, FS_Interval
  <2> QED BY <2>2
<1>4. Cardinality(a + 1 .. b) <= Cardinality(Before) BY <1>1, <1>2, FS_Subset
<1> HIDE DEF Before
<1>5. b - a <= Cardinality(Before) BY <1>3, <1>4
<1> QED BY <1>5 DEF Place, Before

\* ... and of one that has at most the numbers between.
LEMMA PlaceIsAtMost ==
    ASSUME NEW list, NEW a \in Nat, \A k \in list : k \in Nat /\ k > a,
           NEW m \in Nat, m > a
    PROVE  a + Place(m, list) < m
<1> DEFINE Before == {k \in list : k < m}
<1>1. Before \subseteq a + 1 .. m - 1 OBVIOUS
<1>2. IsFiniteSet(a + 1 .. m - 1) /\ Cardinality(a + 1 .. m - 1) = m - 1 - a
  <2>1. a + 1 \in Int /\ m - 1 \in Int OBVIOUS
  <2>2. Cardinality(a + 1 .. m - 1) = IF a + 1 > m - 1 THEN 0 ELSE m - 1 - (a + 1) + 1
    BY <2>1, FS_Interval
  <2>3. IsFiniteSet(a + 1 .. m - 1) BY <2>1, FS_Interval
  <2> QED BY <2>2, <2>3
<1>3. IsFiniteSet(Before) /\ Cardinality(Before) <= Cardinality(a + 1 .. m - 1)
  BY <1>1, <1>2, FS_Subset
<1>4. Cardinality(Before) \in Nat BY <1>3, FS_CardinalityType
<1> HIDE DEF Before
<1>5. a + Cardinality(Before) < m BY <1>2, <1>3, <1>4
<1> QED BY <1>5 DEF Place, Before

\* A page of a list.
LEMMA PageIsRead ==
    ASSUME TypesInv, PollInv, AtPage,
           NEW late \in SUBSET {i \in Asked(Reader.after) : MayBeLate(i)},
           NEW list, list = Asked(Reader.after) \ late,
           NEW page, page = PageOf(list, Reader.next)
    PROVE  /\ page \subseteq DOMAIN events
           /\ \A i \in page :
                 1 .. i - 1 \subseteq settled \cup overlooked \cup page \cup late
           /\ Reader.next * PageSize < Cardinality(list) =>
                 \E m \in page : Base(Reader) + Reader.next * PageSize <= m
<1> DEFINE base == Base(Reader)
           reach == Reach(Reader)
           full == Reader.next * PageSize
           before == (Reader.next - 1) * PageSize
<1>1. /\ Reader \in PageReader /\ base <= reach /\ reach <= Len(events)
      /\ 1 .. reach \subseteq settled \cup overlooked
      /\ \A i \in 1 .. reach : i > base => IsOldEnough(i)
  BY PageStarts
<1>2. Len(events) \in Nat /\ DOMAIN events = 1 .. Len(events) BY TypesMean
<1>3. /\ base \in Nat /\ reach \in Nat /\ before \in Nat /\ full \in Nat
      /\ PageSize \in Nat /\ PageSize > 0
      /\ full = before + PageSize /\ reach = base + before
  <2>1. Reader.next > 0 BY DEF AtPage
  <2>2. reach = base + before BY DEF Reach
  <2> HIDE DEF base, reach, full, before
  <2>3. /\ base \in Nat /\ reach \in Nat /\ before \in Nat /\ full \in Nat
        /\ PageSize \in Nat /\ PageSize > 0 /\ full = before + PageSize
    BY <1>1, <2>1, ReachIsNatural DEF base, reach, full, before
  <2> QED BY <2>2, <2>3
<1>4. \A i : i \in Asked(Reader.after) <=> i \in 1 .. Len(events) /\ i > base
  <2>1. Reader.after \in Nat /\ purged \in Nat BY <1>1, TypesMean DEF PageReader
  <2> QED BY <1>2, <2>1 DEF Asked, Base
<1>5. list \in SUBSET (1 .. Len(events)) BY <1>4
<1>6. \A i \in list : i \in Nat /\ i > base BY <1>4
<1>7. \A i : i \in page <=> /\ i \in list
                           /\ Place(i, list) \in before .. full - 1
  BY DEF PageOf
<1>8. base + 1 .. reach \subseteq list
  <2> SUFFICES ASSUME NEW i \in base + 1 .. reach PROVE i \in list
    OBVIOUS
  <2>1. i \in 1 .. reach /\ i > base /\ i \in DOMAIN events BY <1>1, <1>2, <1>3
  <2>2. i \in Asked(Reader.after) BY <1>2, <1>4, <2>1
  <2>3. IsOldEnough(i) /\ i <= i BY <1>1, <1>3, <2>1
  <2>4. ~ MayBeLate(i) BY <2>1, <2>3, OlderIsOldEnough DEF PollInv
  <2> QED BY <2>2, <2>4
<1>9. page \subseteq DOMAIN events BY <1>2, <1>5, <1>7
<1> HIDE DEF base, reach, full, before
<1>10. ASSUME NEW i \in page
       PROVE  1 .. i - 1 \subseteq settled \cup overlooked \cup page \cup late
  <2> SUFFICES ASSUME NEW j \in 1 .. i - 1
               PROVE  j \in settled \cup overlooked \cup page \cup late
    OBVIOUS
  <2>0. i \in list /\ i \in 1 .. Len(events) /\ Place(i, list) \in before .. full - 1
    BY <1>5, <1>7
  <2>1. i \in Nat /\ i <= Len(events) /\ j \in Nat /\ j < i /\ j <= i /\ j >= 1
    BY <1>2, <2>0
  <2>2. CASE j <= reach BY <1>1, <1>3, <2>1, <2>2 DEF reach
  <2>3. CASE j > reach /\ j \notin late
    <3>1. j \in list
      <4>1. j \in 1 .. Len(events) /\ j > base BY <1>1, <1>2, <1>3, <2>1, <2>3 DEF base, reach
      <4> QED BY <1>4, <2>3, <4>1
    <3>2. /\ Place(j, list) \in Nat /\ Place(i, list) \in Nat
          /\ Place(j, list) <= Place(i, list)
      BY <1>2, <1>5, <2>1, PlacesAreOrdered
    <3>3. reach - base <= Place(j, list)
      BY <1>1, <1>2, <1>3, <1>5, <1>8, <2>1, <2>3, PlaceIsAtLeast DEF base, reach
    <3>4. Place(j, list) \in before .. full - 1
      BY <1>3, <2>0, <3>2, <3>3
    <3> QED BY <1>7, <3>1, <3>4
  <2> QED BY <1>3, <2>1, <2>2, <2>3
<1>11. ASSUME full < Cardinality(list)
       PROVE  \E m \in page : base + full <= m
  <2>1. full - 1 \in Nat /\ full - 1 \in before .. full - 1 BY <1>3
  <2>2. IsFiniteSet(list)
    <3>1. 1 \in Int /\ Len(events) \in Int BY <1>2
    <3>2. IsFiniteSet(1 .. Len(events)) BY <3>1, FS_Interval
    <3> QED BY <1>5, <3>2, FS_Subset
  <2>3. Cardinality(list) \in Nat BY <2>2, FS_CardinalityType
  <2>4. full - 1 < Cardinality(list) BY <1>3, <1>11, <2>3
  <2>5. PICK m \in list : Place(m, list) = full - 1
    BY <1>2, <1>5, <2>1, <2>4, PlaceIsTaken
  <2>6. m \in page BY <1>7, <2>1, <2>5
  <2>7. m \in Nat /\ m > base BY <1>6
  <2>8. base + Place(m, list) < m BY <1>3, <1>6, <2>7, PlaceIsAtMost
  <2>9. base + full <= m BY <1>3, <2>5, <2>7, <2>8
  <2> QED BY <2>6, <2>9
<1> QED BY <1>9, <1>10, <1>11 DEF base, full

\* A page is read and its first event is taken, unless the poll ends.
LEMMA PageTaken ==
    ASSUME TypesInv, PollInv, ReadPage, UNCHANGED renewer
    PROVE  TypesInv' /\ PollInv'
<1>0. AtPage BY DEF ReadPage
<1>1. PICK late \in SUBSET {i \in Asked(Reader.after) : MayBeLate(i)} :
        LET list == Asked(Reader.after) \ late
            page == PageOf(list, Reader.next)
            more == Reader.next * PageSize < Cardinality(list)
            read == [Reader EXCEPT
                        !.page = page,
                        !.unlisted = {j \in late : \E i \in page : j < i},
                        !.next = IF more THEN @ + 1 ELSE 0]
        IN  \/ page = {} /\ EndPoll
            \/ \E i \in page : IsNext(i, page) /\ Consume(i, read)
  BY DEF ReadPage
<1> DEFINE list == Asked(Reader.after) \ late
           page == PageOf(list, Reader.next)
           more == Reader.next * PageSize < Cardinality(list)
           unlisted == {j \in late : \E i \in page : j < i}
           next == IF more THEN Reader.next + 1 ELSE 0
           read == [Reader EXCEPT !.page = page, !.unlisted = unlisted, !.next = next]
<1>2. UNCHANGED <<now, carry, events, purged, cached, saved, settled, overlooked>>
  BY DEF ReadPage, carryVars, controllerVars, progressVars, historyVars
<1>3. CarryOK' /\ bridge \in Poll
      /\ cached' \in {0} \cup DOMAIN events /\ saved' \in {NoDoc, 0} \cup DOMAIN events
  BY <1>2, TypesMean DEF CarryOK, MonthOf, MonthLength
<1>4. Covered(cached') /\ (saved' # NoDoc => Covered(saved'))
  BY <1>2 DEF PollInv, NothingSkipped
<1>5. EndPoll => TypesInv' /\ PollInv'
  BY <1>2, <1>3, <1>4, PollEnds DEF Quiet
<1>6. \/ page = {} /\ EndPoll
      \/ \E i \in page : IsNext(i, page) /\ Consume(i, read)
  <2>1. read = [Reader EXCEPT !.page = page, !.unlisted = unlisted,
                              !.next = IF more THEN @ + 1 ELSE 0]
    OBVIOUS
  <2> HIDE DEF list
  <2> QED BY <1>1, <2>1 DEF list
<1>7. /\ page \subseteq DOMAIN events
      /\ \A i \in page : 1 .. i - 1 \subseteq settled \cup overlooked \cup page \cup late
      /\ more => \E m \in page : Base(Reader) + Reader.next * PageSize <= m
  BY <1>0, PageIsRead
<1>8. /\ late \subseteq DOMAIN events /\ DOMAIN events \subseteq Nat
      /\ \A j \in late : MayBeLate(j)
  <2>1. DOMAIN events = 1 .. Len(events) /\ Len(events) \in Nat BY TypesMean
  <2>2. DOMAIN events \subseteq Nat BY <2>1
  <2>3. \A j \in late : j \in Asked(Reader.after) /\ MayBeLate(j) OBVIOUS
  <2>4. Asked(Reader.after) \subseteq DOMAIN events BY DEF Asked
  <2> QED BY <2>2, <2>3, <2>4
<1>9. Reader \in PageReader /\ Reader.next \in Nat /\ Reader.next > 0
  BY <1>0, PageStarts DEF PageReader, AtPage
<1>10. page \in SUBSET Nat /\ unlisted \in SUBSET Nat /\ next \in Nat
  <2>1. page \in SUBSET Nat /\ unlisted \in SUBSET Nat BY <1>7, <1>8
  <2>2. Reader.next + 1 \in Nat BY <1>9
  <2> HIDE DEF page, unlisted, more
  <2>3. next \in Nat BY <2>2
  <2> QED BY <2>1, <2>3
<1>11. next > 0 => more /\ next = Reader.next + 1 /\ next - 1 = Reader.next
  <2> HIDE DEF more
  <2> QED BY <1>9
<1>12. \A j \in unlisted : j \in late OBVIOUS
<1>13. \A i \in page : \A j \in late : j < i => j \in unlisted OBVIOUS
<1>14. \A i \in page : i \in Nat BY <1>10
<1> HIDE DEF page, unlisted, next, more
<1>15. read \in PageReader /\ read.page = page /\ read.unlisted = unlisted
       /\ read.next = next /\ read.after = Reader.after
  BY <1>9, <1>10 DEF PageReader
<1> HIDE DEF read
<1>16. ASSUME NEW i \in page, IsNext(i, page), Consume(i, read), IsOldEnough(i)
       PROVE  TypesInv' /\ PollInv'
  <2>1. \A k \in page :
           1 .. k - 1 \subseteq settled \cup overlooked \cup page \cup unlisted
    <3> SUFFICES ASSUME NEW k \in page, NEW j \in 1 .. k - 1
                 PROVE  j \in settled \cup overlooked \cup page \cup unlisted
      OBVIOUS
    <3>1. j \in settled \cup overlooked \cup page \cup late BY <1>7
    <3>2. j < k BY <1>14
    <3> QED BY <1>13, <3>1, <3>2
  <2>2. \A j \in unlisted : j < i => j \in settled \cup overlooked'
    <3> SUFFICES ASSUME NEW j \in unlisted, j < i PROVE FALSE
      OBVIOUS
    <3>1. j \in DOMAIN events /\ i \in DOMAIN events /\ j \in Nat /\ i \in Nat
          /\ MayBeLate(j)
      BY <1>7, <1>8, <1>12, <1>14
    <3>2. j <= i BY <3>1
    <3> QED BY <1>16, <3>1, <3>2, OlderIsOldEnough DEF PollInv
  <2>3. read.next > 0 => \E m \in page : Reach(read) <= m
    <3> SUFFICES ASSUME next > 0 PROVE \E m \in page : Reach(read) <= m
      BY <1>15
    <3>1. Base(read) = Base(Reader) BY <1>15 DEF Base
    <3>2. Reach(read) = Base(Reader) + Reader.next * PageSize
      BY <1>11, <1>15, <3>1 DEF Reach
    <3> QED BY <1>7, <1>11, <3>2
  <2>4. /\ PollInv' /\ bridge' \in Poll /\ reader' \in PageReader
        /\ bridge'.at = "mapping" /\ bridge'.event \in DOMAIN events
    BY <1>2, <1>7, <1>15, <1>16, <2>1, <2>2, <2>3, ItemIsTaken
  <2>5. "mapping" \notin Reporting BY DEF Reporting
  <2>6. TypesInv' BY <1>2, <1>3, <2>4, <2>5, BridgeTypes
  <2> QED BY <2>4, <2>6
<1> QED BY <1>5, <1>6, <1>16 DEF Consume

-----------------------------------------------------------------------------
(***************************************************************************)
(* The steps of a poll that process an event.                              *)
(***************************************************************************)
LEMMA CarryStays ==
    ASSUME TypesInv, UNCHANGED <<carry, events>>
    PROVE  CarryOK'
BY TypesMean DEF CarryOK, MonthOf, MonthLength

\* An event is being processed before and after the step.
LEMMA StepThrough ==
    ASSUME TypesInv, PollInv, Quiet, UNCHANGED <<cached, saved, reader, settled, renewer>>,
           CarryOK', bridge.at \in Processing, bridge' \in Poll,
           bridge'.at \in Processing, bridge'.event = bridge.event,
           bridge'.at \in Reporting => bridge'.todo # <<>>
    PROVE  TypesInv' /\ PollInv'
<1>1. /\ cached' \in {0} \cup DOMAIN events /\ saved' \in {NoDoc, 0} \cup DOMAIN events
      /\ reader' \in PageReader /\ bridge'.event \in DOMAIN events
  BY TypesMean
<1>2. TypesInv' BY <1>1, BridgeTypes DEF Quiet
<1>3. PollInv' BY StillProcessing
<1> QED BY <1>2, <1>3

\* An event has been processed or skipped: its progress is cached.
LEMMA EventDone ==
    ASSUME TypesInv, PollInv, Quiet, UNCHANGED <<saved, reader, renewer>>,
           CarryOK', bridge.at \in Processing, ToSaving(bridge.event)
    PROVE  TypesInv' /\ PollInv'
<1>1. PollInv' /\ bridge'.at = "saving" /\ bridge'.event = bridge.event /\ bridge' \in Poll
  BY EventIsSettled
<1>2. /\ cached' \in {0} \cup DOMAIN events /\ saved' \in {NoDoc, 0} \cup DOMAIN events
      /\ reader' \in PageReader /\ bridge'.event \in DOMAIN events
  BY <1>1, TypesMean DEF ToSaving
<1>3. "saving" \notin Reporting BY DEF Reporting
<1>4. TypesInv' BY <1>1, <1>2, <1>3, BridgeTypes DEF Quiet
<1> QED BY <1>1, <1>4

\* One usage of an event has been dealt with.
LEMMA PartIsDone ==
    ASSUME TypesInv, PollInv, Quiet, UNCHANGED <<saved, reader, renewer>>,
           CarryOK', bridge.at \in Reporting, PartDone
    PROVE  TypesInv' /\ PollInv'
<1>1. bridge.at \in Processing BY DEF Processing
<1>2. CASE Len(bridge.todo) > 1
  <2>1. bridge \in Poll /\ Tail(bridge.todo) \in Seq(Usages) /\ Tail(bridge.todo) # <<>>
    BY <1>2, TypesMean
  <2>2. bridge' = [bridge EXCEPT !.at = "adjusting", !.todo = Tail(@), !.doc = NoDoc]
        /\ UNCHANGED <<cached, settled>>
    BY <1>2 DEF PartDone
  <2> DEFINE todo == Tail(bridge.todo)
  <2>3. bridge' = [bridge EXCEPT !.at = "adjusting", !.todo = todo, !.doc = NoDoc]
    BY <2>2
  <2> HIDE DEF todo
  <2>4. todo \in Seq(Usages) /\ todo # <<>> BY <2>1 DEF todo
  <2>5. "adjusting" \in Processing BY DEF Processing, Reporting
  <2>6. bridge' \in Poll /\ bridge'.at = "adjusting" /\ bridge'.todo = todo
        /\ bridge'.event = bridge.event
    BY <2>1, <2>3, <2>4, <2>5 DEF Poll
  <2> QED BY <1>1, <2>2, <2>4, <2>5, <2>6, StepThrough
<1>3. CASE ~ (Len(bridge.todo) > 1)
  BY <1>1, <1>3, EventDone DEF PartDone
<1> QED BY <1>2, <1>3

\* An event is mapped to its usages.
LEMMA MapKeeps ==
    ASSUME TypesInv, PollInv, MapEvent, UNCHANGED renewer
    PROVE  TypesInv' /\ PollInv'
<1> DEFINE i == bridge.event
           plan == events[i].plan
           kind == events[i].kind
<1>1. Quiet /\ UNCHANGED <<saved, reader>> /\ bridge.at = "mapping"
      /\ UNCHANGED <<carry, events>>
  BY DEF MapEvent, Quiet, carryVars, controllerVars
<1>2. CarryOK' BY <1>1, CarryStays
<1>3. "mapping" \in Processing /\ "adjusting" \in Processing BY DEF Processing, Reporting
<1>4. i \in DOMAIN events /\ events \in Seq(Event) /\ bridge \in Poll
  BY <1>1, <1>3, TypesMean
<1>5. plan \in Plans /\ TimeOf(i) \in Nat /\ TimeOf(i) + 1 \in Nat
  BY <1>4, TimeIsNatural DEF Event
<1> HIDE DEF i
<1>6. ASSUME NEW usages \in Seq(Usages), usages # <<>>,
             bridge' = [bridge EXCEPT !.at = "adjusting", !.todo = usages],
             UNCHANGED <<cached, settled>>
      PROVE  TypesInv' /\ PollInv'
  <2>1. bridge' \in Poll /\ bridge'.at = "adjusting" /\ bridge'.todo = usages
        /\ bridge'.event = bridge.event
    BY <1>3, <1>4, <1>6 DEF Poll
  <2> QED BY <1>1, <1>2, <1>3, <1>6, <2>1, StepThrough
<1>7. CASE /\ kind \in States
           /\ bridge' = [bridge EXCEPT !.at = "adjusting",
                                       !.todo = <<Usage(i, plan, kind, TimeOf(i))>>]
           /\ UNCHANGED <<cached, settled>>
  <2> DEFINE u == Usage(i, plan, kind, TimeOf(i))
  <2>1. u \in Usages BY <1>4, <1>5, <1>7, MappedIsUsage
  <2> HIDE DEF u
  <2>2. <<u>> \in Seq(Usages) /\ <<u>> # <<>> BY <2>1
  <2> QED BY <1>6, <1>7, <2>2 DEF u
<1>8. CASE \E before \in Preceding(events[i].res) :
              /\ bridge' = [bridge EXCEPT !.at = "adjusting",
                     !.todo = <<Usage(i, before, "DELETED", TimeOf(i)),
                                Usage(i, plan, "CREATED", TimeOf(i) + 1)>>]
              /\ UNCHANGED <<cached, settled>>
  <2>1. PICK before \in Preceding(events[i].res) :
           /\ bridge' = [bridge EXCEPT !.at = "adjusting",
                  !.todo = <<Usage(i, before, "DELETED", TimeOf(i)),
                             Usage(i, plan, "CREATED", TimeOf(i) + 1)>>]
           /\ UNCHANGED <<cached, settled>>
    BY <1>8
  <2> DEFINE u == Usage(i, before, "DELETED", TimeOf(i))
             v == Usage(i, plan, "CREATED", TimeOf(i) + 1)
  <2>2. before \in Plans BY PrecedingIsPlan
  <2>3. u \in Usages BY <1>4, <1>5, <2>2, MappedIsUsage DEF States
  <2>4. v \in Usages BY <1>4, <1>5, MappedIsUsage DEF States
  <2> HIDE DEF u, v
  <2>5. <<u, v>> \in Seq(Usages) /\ <<u, v>> # <<>> BY <2>3, <2>4
  <2> QED BY <1>6, <2>1, <2>5 DEF u, v
<1>9. CASE ToSaving(i)
  BY <1>1, <1>2, <1>3, <1>9, EventDone DEF i
<1>10. \/ /\ kind \in States
          /\ bridge' = [bridge EXCEPT !.at = "adjusting",
                                      !.todo = <<Usage(i, plan, kind, TimeOf(i))>>]
          /\ UNCHANGED <<cached, settled>>
       \/ \E before \in Preceding(events[i].res) :
              /\ bridge' = [bridge EXCEPT !.at = "adjusting",
                     !.todo = <<Usage(i, before, "DELETED", TimeOf(i)),
                                Usage(i, plan, "CREATED", TimeOf(i) + 1)>>]
              /\ UNCHANGED <<cached, settled>>
       \/ ToSaving(i)
  BY DEF MapEvent, States, i
<1> QED BY <1>7, <1>8, <1>9, <1>10

\* A usage is moved behind the one that is stored.
LEMMA AdjustKeeps ==
    ASSUME TypesInv, PollInv, AdjustTime, UNCHANGED renewer
    PROVE  TypesInv' /\ PollInv'
<1> DEFINE u == AdjustTimestamp(Head(bridge.todo), bridge.event)
           todo == <<u>> \o Tail(bridge.todo)
<1>1. /\ Quiet /\ UNCHANGED <<cached, saved, reader, settled, carry, events>>
      /\ bridge.at = "adjusting"
      /\ bridge' = [bridge EXCEPT !.at = "reporting", !.todo = todo]
  BY DEF AdjustTime, Quiet, carryVars, controllerVars, progressVars
<1>2. CarryOK' BY <1>1, CarryStays
<1>3. "adjusting" \in Reporting /\ Reporting \subseteq Processing
      /\ "reporting" \in Processing
  BY DEF Processing, Reporting
<1>4. bridge \in Poll /\ Head(bridge.todo) \in Usages /\ Tail(bridge.todo) \in Seq(Usages)
  BY <1>1, <1>3, TypesMean
<1>5. u \in Usages
  BY <1>4, AdjustedIsUsage, TypesMean DEF CarryOK
<1> HIDE DEF u
<1>6. <<u>> \in Seq(Usages) /\ Len(<<u>>) = 1 BY <1>5
<1>7. todo \in Seq(Usages) /\ Len(todo) = 1 + Len(Tail(bridge.todo))
  BY <1>4, <1>6, ConcatProperties
<1>8. todo # <<>>
  <2>1. Len(Tail(bridge.todo)) \in Nat BY <1>4, LenProperties
  <2>2. Len(<<>>) = 0 OBVIOUS
  <2> QED BY <1>7, <2>1, <2>2
<1> HIDE DEF todo
<1>9. bridge' \in Poll /\ bridge'.at = "reporting" /\ bridge'.todo = todo
      /\ bridge'.event = bridge.event
  BY <1>1, <1>3, <1>4, <1>7 DEF Poll
<1> QED BY <1>1, <1>2, <1>3, <1>8, <1>9, StepThrough

\* A usage is reported.
LEMMA ReportKeeps ==
    ASSUME TypesInv, PollInv, Report, UNCHANGED renewer
    PROVE  TypesInv' /\ PollInv'
<1>1. /\ Quiet /\ UNCHANGED <<cached, saved, reader, settled, carry, events>>
      /\ bridge.at = "reporting" /\ bridge' = [bridge EXCEPT !.at = "getting"]
  BY DEF Report, Quiet, controllerVars, progressVars, historyVars
<1>2. CarryOK' BY <1>1, CarryStays
<1>3. "reporting" \in Reporting /\ Reporting \subseteq Processing
      /\ "getting" \in Processing
  BY DEF Processing, Reporting
<1>4. bridge \in Poll /\ bridge.todo # <<>> BY <1>1, <1>3, TypesMean
<1>5. bridge' \in Poll /\ bridge'.at = "getting" /\ bridge'.todo = bridge.todo
      /\ bridge'.event = bridge.event
  BY <1>1, <1>3, <1>4, PollAt
<1> QED BY <1>1, <1>2, <1>3, <1>4, <1>5, StepThrough

\* A usage is refused.
LEMMA RefusalKeeps ==
    ASSUME TypesInv, PollInv, ReportUnsupported, UNCHANGED renewer
    PROVE  TypesInv' /\ PollInv'
<1>1. Quiet /\ UNCHANGED <<saved, reader, carry, events>> /\ bridge.at = "reporting" /\ PartDone
  BY DEF ReportUnsupported, Quiet, carryVars, controllerVars, historyVars
<1>2. CarryOK' BY <1>1, CarryStays
<1> QED BY <1>1, <1>2, PartIsDone DEF Reporting

\* The document of a usage is read.
LEMMA GetKeeps ==
    ASSUME TypesInv, PollInv, GetDoc, UNCHANGED renewer
    PROVE  TypesInv' /\ PollInv'
<1> DEFINE doc == Stored(BuildKey(Head(bridge.todo)))
<1>1. /\ Quiet /\ UNCHANGED <<cached, saved, reader, settled, carry, events>>
      /\ bridge.at = "getting" /\ bridge' = [bridge EXCEPT !.at = "putting", !.doc = doc]
  BY DEF GetDoc, Quiet, carryVars, controllerVars, progressVars, historyVars
<1>2. CarryOK' BY <1>1, CarryStays
<1>3. "getting" \in Reporting /\ Reporting \subseteq Processing
      /\ "putting" \in Processing
  BY DEF Processing, Reporting
<1>4. bridge \in Poll /\ bridge.todo # <<>> BY <1>1, <1>3, TypesMean
<1>5. doc \in Doc \cup {NoDoc} BY StoredIsDoc, TypesMean DEF CarryOK
<1> HIDE DEF doc
<1>6. bridge' \in Poll /\ bridge'.at = "putting" /\ bridge'.todo = bridge.todo
      /\ bridge'.event = bridge.event
  BY <1>1, <1>3, <1>4, <1>5 DEF Poll
<1> QED BY <1>1, <1>2, <1>3, <1>4, <1>6, StepThrough

\* What the bridge writes.
LEMMA WritesDoc ==
    ASSUME TypesInv, WriteDoc, bridge.at = "putting", UNCHANGED events
    PROVE  CarryOK'
<1> DEFINE usage == Head(bridge.todo)
           doc == ResourceInfo(usage, bridge.event)
<1>1. "putting" \in Reporting /\ "putting" \in Processing BY DEF Processing, Reporting
<1>2. /\ usage \in Usages /\ bridge.event \in DOMAIN events
      /\ CarryOK /\ events \in Seq(Event)
  BY <1>1, TypesMean
<1>3. Put(BuildKey(usage), doc) BY DEF WriteDoc
<1>4. doc = [guid |-> bridge.event, state |-> usage.state, time |-> usage.time]
  BY DEF ResourceInfo
<1> HIDE DEF usage, doc
<1> QED BY <1>2, <1>3, <1>4, DocIsWritten

\* The document of a usage is written.
LEMMA PutKeeps ==
    ASSUME TypesInv, PollInv, PutDoc, UNCHANGED renewer
    PROVE  TypesInv' /\ PollInv'
<1>1. /\ Quiet /\ UNCHANGED <<saved, reader, events>> /\ bridge.at = "putting"
      /\ WriteDoc /\ PartDone
  BY DEF PutDoc, Quiet, controllerVars
<1>2. CarryOK' BY <1>1, WritesDoc
<1> QED BY <1>1, <1>2, PartIsDone DEF Reporting

\* The progress document is written.
LEMMA SaveKeeps ==
    ASSUME TypesInv, PollInv, SaveProgress, UNCHANGED renewer
    PROVE  TypesInv' /\ PollInv'
<1>1. /\ Quiet /\ UNCHANGED <<cached, settled, carry, events>> /\ saved' = cached
  BY DEF SaveProgress, Quiet, carryVars, controllerVars, historyVars
<1>2. CarryOK' BY <1>1, CarryStays
<1>3. /\ cached' \in {0} \cup DOMAIN events /\ saved' \in {NoDoc, 0} \cup DOMAIN events
      /\ reader \in PageReader
  BY <1>1, TypesMean
<1>4. Covered(cached) BY DEF PollInv, NothingSkipped
<1>5. CASE bridge.at = "saving"
  <2>1. bridge' = [Polled EXCEPT !.at = "reading"] /\ UNCHANGED reader
    BY <1>5 DEF SaveProgress
  <2>2. Polled \in Poll BY PolledIsPoll
  <2>3. bridge' \in Poll /\ bridge'.at = "reading" BY <2>1, <2>2, PollAt
  <2>4. "reading" \notin Processing \cup {"saving"} BY DEF Processing, Reporting
  <2>5. TypesInv'
    BY <1>1, <1>2, <1>3, <2>1, <2>3, <2>4, BridgeTypes DEF Quiet, Processing
  <2>6. PollInv' BY <1>1, <1>5, <2>1, <2>3, ProgressIsSaved
  <2> QED BY <2>5, <2>6
<1>6. CASE bridge.at # "saving"
  <2>1. EndPoll BY <1>6 DEF SaveProgress
  <2> QED BY <1>1, <1>2, <1>3, <1>4, <2>1, PollEnds DEF Quiet
<1> QED BY <1>5, <1>6

-----------------------------------------------------------------------------
(***************************************************************************)
(* The steps that end a poll, and the faults.                              *)
(***************************************************************************)
LEMMA GuidNotFoundKeeps ==
    ASSUME TypesInv, PollInv, GuidNotFound, UNCHANGED renewer
    PROVE  TypesInv' /\ PollInv'
<1>1. /\ Quiet /\ UNCHANGED <<saved, settled, carry, events>> /\ cached' = 0
      /\ bridge' = [bridge EXCEPT !.at = "clearing"] /\ reader' = NoReader
  BY DEF GuidNotFound, Quiet, carryVars, controllerVars, historyVars
<1>2. CarryOK' BY <1>1, CarryStays
<1>3. bridge \in Poll /\ saved' \in {NoDoc, 0} \cup DOMAIN events
  BY <1>1, TypesMean
<1>4. bridge' \in Poll /\ bridge'.at = "clearing" /\ reader' \in PageReader
  BY <1>1, <1>3, PollAt, PolledIsPoll
<1>5. "clearing" \notin Processing \cup {"saving"} BY DEF Processing, Reporting
<1>6. TypesInv'
  BY <1>1, <1>2, <1>3, <1>4, <1>5, BridgeTypes DEF Quiet, Processing
<1>7. Covered(0) BY DEF Covered
<1>8. saved' # NoDoc => Covered(saved') BY <1>1 DEF PollInv, NothingSkipped
<1>9. PollInv' BY <1>1, <1>4, <1>7, <1>8, PollIsOver
<1> QED BY <1>6, <1>9

\* A poll ends without an effect, or with one on the database, on the ledger or
\* on the saved or cached progress.
LEMMA EndKeeps ==
    ASSUME TypesInv, PollInv, EndPoll, CarryOK',
           UNCHANGED <<now, events, purged, overlooked, settled, renewer>>,
           \/ UNCHANGED <<cached, saved>>
           \/ saved' = cached /\ UNCHANGED cached
           \/ cached' = (IF saved = NoDoc THEN 0 ELSE saved) /\ UNCHANGED saved
    PROVE  TypesInv' /\ PollInv'
<1>1. cached \in {0} \cup DOMAIN events /\ saved \in {NoDoc, 0} \cup DOMAIN events
  BY TypesMean
<1>2. Covered(0) BY DEF Covered
<1>3. Covered(cached) /\ (saved # NoDoc => Covered(saved))
  BY DEF PollInv, NothingSkipped
<1>4. /\ cached' \in {0} \cup DOMAIN events /\ saved' \in {NoDoc, 0} \cup DOMAIN events
      /\ Covered(cached') /\ (saved' # NoDoc => Covered(saved'))
  BY <1>1, <1>2, <1>3
<1> QED BY <1>4, PollEnds DEF Quiet

\* The polls that end without any effect.
LEMMA PollsEnd ==
    ASSUME TypesInv, PollInv, UNCHANGED renewer,
           NoMorePages \/ PutConflict \/ SaveConflict \/ CallFails
    PROVE  TypesInv' /\ PollInv'
<1>1. /\ EndPoll
      /\ UNCHANGED <<now, events, purged, overlooked, settled, cached, saved, carry>>
  BY DEF NoMorePages, PutConflict, SaveConflict, CallFails, carryVars,
         controllerVars, progressVars, historyVars
<1>2. CarryOK' BY <1>1, CarryStays
<1> QED BY <1>1, <1>2, EndKeeps

\* A call is applied, and its answer lost.
LEMMA AnswerLostKeeps ==
    ASSUME TypesInv, PollInv, AnswerLost, UNCHANGED renewer
    PROVE  TypesInv' /\ PollInv'
<1>1. /\ EndPoll
      /\ UNCHANGED <<now, events, purged, overlooked, settled, cached>>
      /\ \/ UNCHANGED <<carry, saved>>
         \/ bridge.at = "putting" /\ WriteDoc /\ UNCHANGED saved
         \/ saved' = cached /\ UNCHANGED carry
  BY DEF AnswerLost, controllerVars
<1>2. CarryOK'
  <2>1. CASE UNCHANGED carry BY <1>1, <2>1, CarryStays
  <2>2. CASE bridge.at = "putting" /\ WriteDoc BY <1>1, <2>2, WritesDoc
  <2> QED BY <1>1, <2>1, <2>2
<1> QED BY <1>1, <1>2, EndKeeps

\* The bridge starts again with the progress that it has saved.
LEMMA RestartKeeps ==
    ASSUME TypesInv, PollInv, Restart, UNCHANGED renewer
    PROVE  TypesInv' /\ PollInv'
<1>1. /\ EndPoll
      /\ UNCHANGED <<now, events, purged, overlooked, settled, saved, carry>>
      /\ cached' = IF saved = NoDoc THEN 0 ELSE saved
  BY DEF Restart, carryVars, controllerVars, historyVars
<1>2. CarryOK' BY <1>1, CarryStays
<1> QED BY <1>1, <1>2, EndKeeps

-----------------------------------------------------------------------------
(***************************************************************************)
(* The Cloud Controller and the clock.                                     *)
(***************************************************************************)
LEMMA EmitKeeps ==
    ASSUME TypesInv, PollInv, NEW res \in Resources, NEW plan \in Plans,
           NEW kind \in {"CREATED", "UPDATED", "DELETED"}, Emit(res, plan, kind),
           UNCHANGED renewer
    PROVE  TypesInv' /\ PollInv'
<1> DEFINE e == [res |-> res, plan |-> plan, kind |-> kind, tick |-> now]
<1>1. /\ events' = Append(events, e)
      /\ UNCHANGED <<now, carry, purged, saved, cached, reader, bridge, settled, overlooked>>
  BY DEF Emit, carryVars, progressVars, historyVars
<1>2. /\ events \in Seq(Event) /\ now \in Nat /\ Len(events) \in Nat
      /\ DOMAIN events = 1 .. Len(events) /\ purged \in 0 .. Len(events)
  BY TypesMean
<1>3. e \in Event /\ e.tick = now BY <1>2 DEF Event, States
<1> HIDE DEF e
<1>4. /\ events' \in Seq(Event) /\ Len(events') = Len(events) + 1
      /\ \A i \in 1 .. Len(events) : events'[i] = events[i]
      /\ events'[Len(events) + 1] = e
  BY <1>1, <1>2, <1>3, AppendProperties
<1>5. DOMAIN events' = 1 .. Len(events) + 1
  BY <1>4, LenProperties
<1>6. DOMAIN events \subseteq DOMAIN events' BY <1>2, <1>5
<1>7. RenewerInv'
  BY <1>6 DEF TypesInv, RenewerInv, Renewing, DocRef, Key
<1>8. BridgeTypeOK'
  <2>1. purged' \in 0 .. Len(events') BY <1>1, <1>2, <1>4
  <2> QED BY <1>1, <1>4, <1>6, <2>1 DEF TypesInv, BridgeTypeOK
<1>9. TypeOK'
  BY <1>1, <1>6 DEF TypesInv, TypeOK, MonthOf, MonthLength, Usages
<1>10. ListInv'
  <2>1. \A i \in DOMAIN events' : i \in DOMAIN events \/ i = Len(events) + 1
    BY <1>2, <1>5
  <2>2. \A i \in DOMAIN events : events'[i].tick = events[i].tick BY <1>2, <1>4
  <2>3. \A i \in DOMAIN events : events[i].tick <= now /\ events[i].tick \in Nat
    BY TypesMean DEF PollInv, ListInv
  <2>4. ASSUME NEW i \in DOMAIN events', NEW j \in DOMAIN events', i <= j
        PROVE  events'[i].tick <= events'[j].tick /\ events'[j].tick <= now
    <3>1. CASE j \in DOMAIN events
      <4>1. i \in DOMAIN events BY <1>2, <1>5, <2>4, <3>1
      <4> QED BY <2>2, <2>3, <2>4, <3>1, <4>1 DEF PollInv, ListInv
    <3>2. CASE j = Len(events) + 1
      <4>1. events'[j].tick = now BY <1>3, <1>4, <3>2
      <4>2. CASE i \in DOMAIN events BY <1>2, <2>2, <2>3, <4>1, <4>2
      <4>3. CASE i = Len(events) + 1 BY <1>2, <3>2, <4>1, <4>3
      <4> QED BY <2>1, <4>2, <4>3, <1>2, <4>1
    <3> QED BY <2>1, <3>1, <3>2
  <2>5. \A j \in DOMAIN events' : j <= j BY <1>2, <1>5
  <2>6. Covered(purged)' BY <1>1 DEF PollInv, ListInv, Covered
  <2> QED BY <1>1, <2>4, <2>5, <2>6 DEF ListInv
<1>11. NothingSkipped' BY <1>1 DEF PollInv, NothingSkipped, Covered
<1>12. Behind' = Behind BY <1>1 DEF Behind, Pending
<1>13. PageInv' BY <1>1, <1>6, <1>12 DEF PollInv, PageInv
<1>14. ReachInv'
  <2> SUFFICES ASSUME bridge.at \in Processing \cup {"saving", "reading"}, reader.next > 0
               PROVE  /\ reader.page # {} => \E m \in reader.page : Reach(reader) <= m
                      /\ reader.page = {} =>
                            /\ Base(reader) <= Reach(reader)
                            /\ Reach(reader) <= Len(events')
                            /\ 1 .. Reach(reader) \subseteq Behind
                            /\ \A i \in 1 .. Reach(reader) :
                                  i > Base(reader) => IsOldEnough(i)'
    BY <1>1, <1>12 DEF ReachInv, Reach, Base
  <2>1. CASE reader.page # {} BY <2>1 DEF PollInv, ReachInv
  <2>2. CASE reader.page = {}
    <3>1. /\ Base(reader) <= Reach(reader) /\ Reach(reader) <= Len(events)
          /\ 1 .. Reach(reader) \subseteq Behind
          /\ \A i \in 1 .. Reach(reader) : i > Base(reader) => IsOldEnough(i)
      BY <2>2 DEF PollInv, ReachInv
    <3>2. Reach(reader) \in Nat BY TypesMean, ReachIsNatural
    <3>3. Reach(reader) <= Len(events') BY <1>2, <1>4, <3>1, <3>2
    <3>4. \A i \in 1 .. Reach(reader) : events'[i].tick = events[i].tick
      <4>1. \A i \in 1 .. Reach(reader) : i \in 1 .. Len(events) BY <1>2, <3>1, <3>2
      <4> QED BY <1>4, <4>1
    <3>5. \A i \in 1 .. Reach(reader) : i > Base(reader) => IsOldEnough(i)'
      BY <1>1, <3>1, <3>4 DEF IsOldEnough
    <3> QED BY <2>2, <3>1, <3>3, <3>5
  <2> QED BY <2>1, <2>2
<1> QED BY <1>7, <1>8, <1>9, <1>10, <1>11, <1>13, <1>14 DEF TypesInv, PollInv

\* The Cloud Controller purges an event.
LEMMA PurgeKeeps ==
    ASSUME TypesInv, PollInv, Purge, UNCHANGED renewer
    PROVE  TypesInv' /\ PollInv'
<1>1. /\ purged' = purged + 1 /\ purged < Len(events) /\ bridge.at = "idle"
      /\ purged + 1 \in settled \cup overlooked
      /\ UNCHANGED <<now, carry, events, saved, cached, reader, bridge, settled, overlooked>>
  BY DEF Purge, carryVars, progressVars, historyVars
<1>2. purged \in 0 .. Len(events) /\ Len(events) \in Nat BY TypesMean
<1>3. purged' \in 0 .. Len(events') BY <1>1, <1>2
<1>4. TypesInv'
  BY <1>1, <1>3 DEF TypesInv, TypeOK, BridgeTypeOK, RenewerInv, Renewing, DocRef, Key,
                    MonthOf, MonthLength, Usages
<1>5. Covered(purged)'
  <2>1. \A i \in 1 .. purged + 1 : i \in 1 .. purged \/ i = purged + 1 BY <1>2
  <2> QED BY <1>1, <2>1 DEF PollInv, ListInv, Covered
<1>6. ListInv' BY <1>1, <1>5 DEF PollInv, ListInv
<1>7. NothingSkipped' BY <1>1 DEF PollInv, NothingSkipped, Covered
<1>8. PageInv' /\ ReachInv' BY <1>1 DEF PageInv, ReachInv, Processing, Reporting
<1> QED BY <1>4, <1>6, <1>7, <1>8 DEF PollInv

\* Time passes, and what was old enough stays so.
LEMMA ClockKeeps ==
    ASSUME TypesInv, PollInv, Clock
    PROVE  TypesInv' /\ PollInv'
<1>1. /\ now' = now + 1 /\ now < Horizon
      /\ UNCHANGED <<carry, events, purged, saved, cached, reader, bridge, settled,
                     overlooked, renewer>>
  BY DEF Clock, Advance, Tick, bridgeVars, controllerVars, progressVars, historyVars,
         renewerVars
<1>2. now \in Nat /\ \A i \in DOMAIN events : events[i].tick \in Nat BY TypesMean
<1>3. now' \in 0 .. Horizon BY <1>1, <1>2, CarryOverAssumption
<1>4. TypesInv'
  BY <1>1, <1>3 DEF TypesInv, TypeOK, BridgeTypeOK, RenewerInv, Renewing, DocRef, Key,
                    MonthOf, MonthLength, Usages
<1>5. ListInv'
  <2>1. \A i \in DOMAIN events : events[i].tick <= now' BY <1>1, <1>2 DEF PollInv, ListInv
  <2> QED BY <1>1, <2>1 DEF PollInv, ListInv, Covered
<1>6. NothingSkipped' BY <1>1 DEF PollInv, NothingSkipped, Covered
<1>7. Behind' = Behind BY <1>1 DEF Behind, Pending
<1>8. PageInv' BY <1>1, <1>7 DEF PollInv, PageInv
<1>9. ReachInv'
  <2>1. \A i \in DOMAIN events : IsOldEnough(i) => IsOldEnough(i)'
    BY <1>1, <1>2, EventBridgeAssumption DEF IsOldEnough
  <2>2. Base(reader)' = Base(reader) /\ Reach(reader)' = Reach(reader)
    BY <1>1 DEF Base, Reach
  <2>3. reader.next > 0 /\ Reach(reader) <= Len(events) =>
            1 .. Reach(reader) \subseteq DOMAIN events
    <3> SUFFICES ASSUME reader.next > 0, Reach(reader) <= Len(events)
                 PROVE  1 .. Reach(reader) \subseteq 1 .. Len(events)
      BY TypesMean
    <3>1. Reach(reader) \in Nat /\ Len(events) \in Nat BY TypesMean, ReachIsNatural
    <3> QED BY <3>1
  <2> QED BY <1>1, <1>7, <2>1, <2>2, <2>3 DEF PollInv, ReachInv
<1> QED BY <1>4, <1>5, <1>6, <1>8, <1>9 DEF PollInv

-----------------------------------------------------------------------------
(***************************************************************************)
(* The renewer. It touches the bridge in the carry-over database alone.    *)
(***************************************************************************)
LEMMA BesideTheBridge ==
    ASSUME TypesInv, PollInv, CarryOK', RenewerInv',
           UNCHANGED <<now, events, purged, saved, cached, reader, bridge, settled, overlooked>>
    PROVE  TypesInv' /\ PollInv'
<1>1. TypesInv'
  BY DEF TypesInv, TypeOK, BridgeTypeOK, CarryOK, MonthOf, MonthLength, Usages
<1>2. Behind' = Behind BY DEF Behind, Pending
<1>3. PollInv'
  BY <1>2 DEF PollInv, ListInv, NothingSkipped, Covered, PageInv, ReachInv, Base, Reach,
              IsOldEnough
<1> QED BY <1>1, <1>3

\* The documents of a month belong to events.
LEMMA DocsOfAMonth ==
    ASSUME TypesInv, NEW month, NEW k \in DocsOf(month)
    PROVE  Reference(k) \in DocRef /\ Reference(k).doc.guid \in DOMAIN events
<1>1. k \in Key /\ carry[k] # NoDoc BY DEF DocsOf
<1>2. carry[k] \in Doc /\ carry[k].guid \in DOMAIN events BY <1>1, TypesMean DEF CarryOK
<1> QED BY <1>1, <1>2 DEF Reference, DocRef

\* A renewer that waits has read nothing.
LEMMA RenewerWaits ==
    ASSUME renewer' = Waiting
    PROVE  RenewerInv'
BY DEF RenewerInv, Renewing, Waiting, DocRef, Doc, States, Key

\* A page of documents is read.
LEMMA DocsAreRead ==
    ASSUME TypesInv, NEW read, ReadPageFrom(read), UNCHANGED events
    PROVE  RenewerInv'
<1> DEFINE docs == DocsOf(Month - 1)
           page == {k \in docs : Cardinality({l \in docs : Sorts(l, k)})
                                    \in read .. read + DocsPerPage - 1}
           here == {Reference(k) : k \in page}
           refs == {ref \in here : IsSupported(ref)}
           next == read + Cardinality(here)
           full == (Cardinality(here) = DocsPerPage)
<1>1. \/ renewer' = Waiting
      \/ renewer' = [Waiting EXCEPT !.at = "getting", !.read = next, !.full = full,
                                    !.refs = refs]
  BY DEF ReadPageFrom
<1>2. CASE renewer' = Waiting BY <1>2, RenewerWaits
<1>3. CASE renewer' = [Waiting EXCEPT !.at = "getting", !.read = next, !.full = full,
                                      !.refs = refs]
  <2>1. \A ref \in here : ref \in DocRef /\ ref.doc.guid \in DOMAIN events
    <3>1. page \subseteq docs OBVIOUS
    <3> HIDE DEF page
    <3> QED BY <3>1, DocsOfAMonth
  <2>2. full \in BOOLEAN OBVIOUS
  <2>3. refs \in SUBSET DocRef /\ \A ref \in refs : ref.doc.guid \in DOMAIN events
    <3> HIDE DEF here
    <3> QED BY <2>1
  <2>4. renewer' = [at |-> "getting", read |-> next, full |-> full, refs |-> refs,
                    job |-> NoDoc]
    BY <1>3 DEF Waiting
  <2> HIDE DEF full, refs, next
  <2>5. /\ renewer'.at = "getting" /\ renewer'.refs = refs
        /\ renewer' \in [at : {"waiting", "getting", "finding", "inserting"},
                         read : {renewer'.read}, full : BOOLEAN,
                         refs : SUBSET DocRef, job : DocRef \cup {NoDoc}]
    BY <2>2, <2>3, <2>4
  <2> QED BY <2>3, <2>5 DEF RenewerInv, Renewing, DocRef, Key, Doc, States
<1> QED BY <1>1, <1>2, <1>3

\* The renewer moves on, with the documents that it has read.
LEMMA RenewerMoves ==
    ASSUME TypesInv, UNCHANGED events, NEW at \in {"getting", "finding", "inserting"},
           NEW refs, refs \subseteq renewer.refs, NEW job \in DocRef \cup {NoDoc},
           renewer' = [renewer EXCEPT !.at = at, !.refs = refs, !.job = job],
           at \in {"finding", "inserting"} =>
              job \in DocRef /\ job.doc.guid \in DOMAIN events
    PROVE  RenewerInv'
<1>1. RenewerInv BY DEF TypesInv
<1>2. /\ renewer'.at = at /\ renewer'.refs = refs /\ renewer'.job = job
      /\ renewer' \in [at : {"waiting", "getting", "finding", "inserting"},
                       read : {renewer'.read}, full : BOOLEAN,
                       refs : SUBSET DocRef, job : DocRef \cup {NoDoc}]
  BY <1>1 DEF RenewerInv, Renewing
<1> QED BY <1>1, <1>2 DEF RenewerInv, Renewing, DocRef, Key, Doc, States

\* The usage that the renewer reports is a usage, and so is what it remembers.
LEMMA StartIsUsage ==
    ASSUME NEW ref \in DocRef
    PROVE  [StartUsage(ref) EXCEPT !.state = ref.doc.state] \in Usages
<1>1. /\ ref.key[1] \in Resources /\ ref.key[2] \in Plans /\ ref.key[3] \in Nat
      /\ ref.doc.state \in States
  BY DEF DocRef, Doc, Key, Months
<1>2. MonthLength \in Nat BY CarryOverAssumption, Products DEF MonthLength
<1>3. ref.key[3] + 1 \in Nat BY <1>1
<1>4. StartOf(ref.key[3] + 1) \in Nat BY <1>2, <1>3, Products DEF StartOf
<1> DEFINE time == StartOf(ref.key[3] + 1)
<1>5. time \in Nat BY <1>4
<1>6. StartUsage(ref) = [res |-> ref.key[1], plan |-> ref.key[2], state |-> "CREATED",
                        time |-> time]
  BY DEF StartUsage
<1> HIDE DEF time
<1> QED BY <1>1, <1>5, <1>6 DEF Usages, States

\* The renewer inserts a document of the event it has read.
LEMMA InsertKeeps ==
    ASSUME TypesInv, InsertDoc, UNCHANGED events
    PROVE  CarryOK'
<1> DEFINE ref == renewer.job
           usage == [StartUsage(ref) EXCEPT !.state = ref.doc.state]
           doc == [ResourceInfo(StartUsage(ref), ref.doc.guid) EXCEPT !.state = ref.doc.state]
<1>1. Put(BuildKey(StartUsage(ref)), doc) BY DEF InsertDoc
<1>2. ref \in DocRef /\ ref.doc.guid \in DOMAIN events
  BY DEF InsertDoc, TypesInv, RenewerInv
<1>3. usage \in Usages BY <1>2, StartIsUsage
<1>4. /\ usage.res = StartUsage(ref).res /\ usage.plan = StartUsage(ref).plan
      /\ usage.time = StartUsage(ref).time /\ usage.state = ref.doc.state
  BY DEF StartUsage
<1>5. BuildKey(usage) = BuildKey(StartUsage(ref)) BY <1>4 DEF BuildKey
<1>6. doc = [guid |-> ref.doc.guid, state |-> usage.state, time |-> usage.time]
  BY <1>4 DEF ResourceInfo
<1>7. CarryOK /\ events \in Seq(Event) BY TypesMean
<1> HIDE DEF ref, usage, doc
<1> QED BY <1>1, <1>2, <1>3, <1>5, <1>6, <1>7, DocIsWritten

\* The steps of the renewer and its faults.
LEMMA RenewerKeeps ==
    ASSUME TypesInv, RenewerStep \/ RenewerFault, UNCHANGED events
    PROVE  RenewerInv' /\ CarryOK' /\ UNCHANGED now
<1>0. RenewerInv /\ renewer \in Renewing BY DEF TypesInv, RenewerInv
<1>a. /\ renewer = [renewer EXCEPT !.at = renewer.at, !.refs = renewer.refs, !.job = renewer.job]
      /\ renewer.job \in DocRef \cup {NoDoc}
      /\ \A ref \in renewer.refs : ref \in DocRef /\ ref.doc.guid \in DOMAIN events
  BY <1>0 DEF RenewerInv, Renewing
<1>b. UNCHANGED carry => CarryOK' BY CarryStays
<1>1. CASE Renew \/ PageDone
  <2>1. UNCHANGED <<now, carry>> BY <1>1 DEF Renew, PageDone, carryVars
  <2>2. renewer' = Waiting \/ \E read : ReadPageFrom(read)
    BY <1>1 DEF Renew, PageDone
  <2> QED BY <1>b, <2>1, <2>2, RenewerWaits, DocsAreRead
<1>2. ASSUME NEW ref \in renewer.refs, Take(ref) PROVE RenewerInv'
  <2> DEFINE refs == renewer.refs \ {ref}
  <2>1. renewer' = [renewer EXCEPT !.at = "finding", !.refs = refs, !.job = ref]
    BY <1>0, <1>2 DEF Take, Renewing
  <2>2. refs \subseteq renewer.refs OBVIOUS
  <2> HIDE DEF refs
  <2> QED BY <1>a, <2>1, <2>2, RenewerMoves
<1>3. ASSUME NEW ref \in renewer.refs, Drop(ref), renewer.at = "getting" PROVE RenewerInv'
  <2> DEFINE refs == renewer.refs \ {ref}
  <2>1. renewer' = [renewer EXCEPT !.at = "getting", !.refs = refs, !.job = renewer.job]
    BY <1>0, <1>3 DEF Drop, Renewing
  <2>2. refs \subseteq renewer.refs OBVIOUS
  <2> HIDE DEF refs
  <2> QED BY <1>a, <2>1, <2>2, RenewerMoves
<1>4. ASSUME JobDone PROVE RenewerInv'
  <2>1. renewer' = [renewer EXCEPT !.at = "getting", !.refs = renewer.refs, !.job = NoDoc]
    BY <1>0, <1>4 DEF JobDone, Renewing
  <2> QED BY <1>a, <2>1, RenewerMoves
<1>5. CASE ReportStart
  <2>1. UNCHANGED <<now, carry>> /\ \E ref \in renewer.refs : Take(ref)
    BY <1>5 DEF ReportStart
  <2> QED BY <1>b, <1>2, <2>1
<1>6. CASE StartRefused
  <2>1. UNCHANGED <<now, carry>> /\ renewer.at = "getting" /\ \E ref \in renewer.refs : Drop(ref)
    BY <1>6 DEF StartRefused, carryVars
  <2> QED BY <1>b, <1>3, <2>1
<1>7. CASE FindDoc
  <2>1. UNCHANGED <<now, carry>> /\ renewer.at = "finding"
        /\ (renewer' = [renewer EXCEPT !.at = "inserting"] \/ JobDone)
    BY <1>7 DEF FindDoc, carryVars
  <2>2. ASSUME renewer' = [renewer EXCEPT !.at = "inserting"] PROVE RenewerInv'
    <3>1. renewer' = [renewer EXCEPT !.at = "inserting", !.refs = renewer.refs,
                                     !.job = renewer.job]
      BY <1>0, <2>2 DEF Renewing
    <3>2. renewer.job \in DocRef /\ renewer.job.doc.guid \in DOMAIN events
      BY <1>0, <2>1 DEF RenewerInv
    <3> QED BY <3>1, <3>2, RenewerMoves
  <2> QED BY <1>b, <1>4, <2>1, <2>2
<1>8. CASE InsertDoc
  <2>1. UNCHANGED now /\ JobDone BY <1>8 DEF InsertDoc
  <2> QED BY <1>4, <1>8, <2>1, InsertKeeps
<1>9. CASE InsertConflict
  BY <1>b, <1>4, <1>9 DEF InsertConflict, carryVars
<1>10. CASE RenewFails
  <2>1. UNCHANGED <<now, carry>>
        /\ \/ renewer.at = "getting" /\ \E ref \in renewer.refs : Drop(ref)
           \/ JobDone
    BY <1>10 DEF RenewFails, carryVars
  <2> QED BY <1>b, <1>3, <1>4, <2>1
<1>11. CASE RenewStops
  BY <1>b, <1>11, RenewerWaits DEF RenewStops, carryVars
<1> QED BY <1>1, <1>5, <1>6, <1>7, <1>8, <1>9, <1>10, <1>11 DEF RenewerStep, RenewerFault

-----------------------------------------------------------------------------
(***************************************************************************)
(* All steps, and the theorems.                                            *)
(***************************************************************************)
LEMMA BridgeStarts ==
    ASSUME Init
    PROVE  TypesInv /\ PollInv
<1> USE DEF Init, CarryOverInit, BridgeInit, RenewerInit
<1>1. 0 \in 0 .. Horizon BY CarryOverAssumption
<1>2. RenewerInv BY DEF RenewerInv, Renewing, Waiting
<1>3. Len(events) = 0 /\ DOMAIN events = {} /\ events \in Seq(Event) OBVIOUS
<1>4. bridge \in Poll /\ reader \in PageReader /\ bridge.at = "idle" /\ bridge.todo = <<>>
  BY PolledIsPoll DEF Polled
<1>5. bridge.at \notin Processing \cup {"saving", "reading"} BY <1>4 DEF Processing, Reporting
<1>6. BridgeTypeOK BY <1>3, <1>4, <1>5 DEF BridgeTypeOK, Processing
<1>7. TypeOK BY <1>1, <1>4 DEF TypeOK
<1>8. \A n : n = 0 => Covered(n) BY DEF Covered
<1>9. ListInv BY <1>3, <1>8 DEF ListInv
<1>10. NothingSkipped BY <1>8 DEF NothingSkipped
<1>11. PageInv /\ ReachInv BY <1>5 DEF PageInv, ReachInv
<1> QED BY <1>2, <1>6, <1>7, <1>9, <1>10, <1>11 DEF TypesInv, PollInv

\* Every step keeps the invariant.
LEMMA BridgeSteps ==
    ASSUME TypesInv, PollInv, [Next]_vars
    PROVE  TypesInv' /\ PollInv'
<1>1. CASE Bridge
  <2>1. UNCHANGED renewer BY <1>1 DEF Bridge, renewerVars
  <2>2. CASE Controller
    BY <2>1, <2>2, EmitKeeps, PurgeKeeps DEF Controller
  <2>3. CASE BridgeStep
    <3>1. CASE ReadPage BY <2>1, <3>1, PageTaken
    <3>2. CASE NextItem BY <2>1, <3>2, NextItemTaken
    <3>3. CASE NoMorePages \/ PutConflict \/ SaveConflict BY <2>1, <3>3, PollsEnd
    <3>4. CASE GuidNotFound BY <2>1, <3>4, GuidNotFoundKeeps
    <3>5. CASE MapEvent BY <2>1, <3>5, MapKeeps
    <3>6. CASE AdjustTime BY <2>1, <3>6, AdjustKeeps
    <3>7. CASE Report BY <2>1, <3>7, ReportKeeps
    <3>8. CASE ReportUnsupported BY <2>1, <3>8, RefusalKeeps
    <3>9. CASE GetDoc BY <2>1, <3>9, GetKeeps
    <3>10. CASE PutDoc BY <2>1, <3>10, PutKeeps
    <3>11. CASE SaveProgress BY <2>1, <3>11, SaveKeeps
    <3> QED BY <2>3, <3>1, <3>2, <3>3, <3>4, <3>5, <3>6, <3>7, <3>8, <3>9, <3>10, <3>11
            DEF BridgeStep
  <2>4. CASE BridgeFault
    BY <2>1, <2>4, PollsEnd, AnswerLostKeeps, RestartKeeps DEF BridgeFault
  <2> QED BY <1>1, <2>2, <2>3, <2>4 DEF Bridge
<1>2. CASE Clock BY <1>2, ClockKeeps
<1>3. CASE Renewal \/ RenewalFault
  <2>1. /\ RenewerStep \/ RenewerFault
        /\ UNCHANGED <<events, purged, saved, cached, reader, bridge, settled, overlooked>>
    BY <1>3 DEF Renewal, RenewalFault, bridgeVars, controllerVars, progressVars, historyVars
  <2>2. RenewerInv' /\ CarryOK' /\ UNCHANGED now BY <2>1, RenewerKeeps
  <2> QED BY <2>1, <2>2, BesideTheBridge
<1>4. CASE UNCHANGED vars
  <2>1. /\ UNCHANGED <<now, carry, events, purged, saved, cached, reader, bridge, settled,
                       overlooked, renewer>>
    BY <1>4 DEF vars, carryVars, bridgeVars, controllerVars, progressVars, historyVars,
                renewerVars
  <2>2. CarryOK' BY <2>1, CarryStays
  <2>3. RenewerInv'
    BY <2>1 DEF TypesInv, RenewerInv, Renewing, DocRef, Key, Doc, States
  <2> QED BY <2>1, <2>2, <2>3, BesideTheBridge
<1> QED BY <1>1, <1>2, <1>3, <1>4 DEF Next

\* The bridge's documents, progress and pages stay in order: what is remembered
\* of a resource is dated to the month of its key and belongs to an event, and
\* every event before the one that is processed has been passed, whatever is
\* late to be listed, purged, fails or is restarted (event-reader.js,
\* event-bridge.js, carryover).
THEOREM BridgeInvariantHolds == Spec => []BridgeInv
<1>1. Init => TypesInv /\ PollInv BY BridgeStarts
<1>2. TypesInv /\ PollInv /\ [Next]_vars => (TypesInv /\ PollInv)'
  BY BridgeSteps
<1>3. TypesInv /\ PollInv => BridgeInv BY DEF TypesInv, PollInv, BridgeInv
<1> QED BY <1>1, <1>2, <1>3, PTL DEF Spec

\* No event is skipped but those that an old page did not list: all events up to
\* the one that the bridge continues after, in memory or from its document,
\* have been processed (event-reader.js, isOldEnough; event-progress.js, save).
THEOREM NothingIsSkipped == Spec => []NothingSkipped
<1>1. BridgeInv => NothingSkipped BY DEF BridgeInv
<1> QED BY <1>1, BridgeInvariantHolds, PTL
=============================================================================
