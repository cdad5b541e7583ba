----------------------------- MODULE DBTheorems -----------------------------
(***************************************************************************)
(* Theorems about the database clients, for any numbers of clients,        *)
(* documents, partitions, servers and faults, and any requests.            *)
(***************************************************************************)
EXTENDS DBClient, SumTheorems, SequenceTheorems, TLAPS

\* The documents of a call.
LEMMA CallDocs ==
    ASSUME NEW request \in Request
    PROVE  /\ DOMAIN request.docs = 1 .. Len(request.docs) /\ Len(request.docs) \in Nat
           /\ \A i \in DOMAIN request.docs : request.docs[i] \in Docs
           /\ ToSet(request.docs) = {request.docs[i] : i \in DOMAIN request.docs}
<1>1. request.docs \in Seq(Docs) BY DEF Request
<1>2. DOMAIN request.docs = 1 .. Len(request.docs) /\ Len(request.docs) \in Nat
  BY <1>1, LenProperties
<1>3. \A i \in 1 .. Len(request.docs) : request.docs[i] \in Docs
  BY <1>1, ElementOfSeq
<1> QED BY <1>2, <1>3 DEF ToSet

-----------------------------------------------------------------------------
(***************************************************************************)
(* The order of the rows of a range.                                       *)
(***************************************************************************)

\* The rows of a request are in a strict total order.
LEMMA RowsAreOrdered ==
    ASSUME NEW o, o.request \in Request, NEW i \in DOMAIN o.request.docs,
           NEW j \in DOMAIN o.request.docs
    PROVE  /\ MonthOfRow(o, i) \in Nat
           /\ ~SortsBefore(o, i, i)
           /\ i = j \/ SortsBefore(o, i, j) \/ SortsBefore(o, j, i)
           /\ ~(SortsBefore(o, i, j) /\ SortsBefore(o, j, i))
           /\ SortsBefore(o, i, j) => MonthOfRow(o, i) <= MonthOfRow(o, j)
           /\ \A k \in DOMAIN o.request.docs :
                 SortsBefore(o, i, j) /\ SortsBefore(o, j, k) => SortsBefore(o, i, k)
<1>1. \A k \in DOMAIN o.request.docs : MonthOfRow(o, k) \in Nat /\ k \in Nat
  <2>1. \A k \in DOMAIN o.request.docs : o.request.docs[k] \in Docs BY CallDocs
  <2>2. \A k \in DOMAIN o.request.docs : k \in Nat BY CallDocs
  <2> QED BY <2>1, <2>2, DBClientAssumption DEF MonthOfRow
<1>2. \A a, b, x, y, m, n \in Nat :
         /\ ~(a < a \/ (a = a /\ x < x))
         /\ x = y \/ (a < b \/ (a = b /\ x < y)) \/ (b < a \/ (b = a /\ y < x))
         /\ ~((a < b \/ (a = b /\ x < y)) /\ (b < a \/ (b = a /\ y < x)))
         /\ (a < b \/ (a = b /\ x < y)) => a <= b
         /\ /\ a < b \/ (a = b /\ x < y)
            /\ b < m \/ (b = m /\ y < n)
            => a < m \/ (a = m /\ x < n)
  OBVIOUS
<1> QED BY <1>1, <1>2 DEF SortsBefore

\* There are finitely many rows.
LEMMA RowsAreFinite ==
    ASSUME NEW o, o.request \in Request, NEW rows \in SUBSET DOMAIN o.request.docs
    PROVE  IsFiniteSet(rows) /\ Cardinality(rows) \in Nat
<1>1. IsFiniteSet(DOMAIN o.request.docs) BY CallDocs, FS_Interval
<1> QED BY <1>1, FS_Subset, FS_CardinalityType

\* The place of a row: how many rows sort before it.
LEMMA PlacesAreCounted ==
    ASSUME NEW o, o.request \in Request, NEW rows \in SUBSET DOMAIN o.request.docs,
           NEW i \in DOMAIN o.request.docs
    PROVE  /\ IsFiniteSet({j \in rows : SortsBefore(o, j, i)})
           /\ Place(o, rows, i) \in Nat
           /\ \A some \in SUBSET {j \in rows : SortsBefore(o, j, i)} :
                 Cardinality(some) <= Place(o, rows, i)
<1>1. IsFiniteSet(rows) BY RowsAreFinite
<1>2. IsFiniteSet({j \in rows : SortsBefore(o, j, i)}) BY <1>1, FS_Subset
<1> QED BY <1>2, FS_Subset, FS_CardinalityType DEF Place

\* With more rows the places are no lower.
LEMMA PlacesGrow ==
    ASSUME NEW o, o.request \in Request, NEW more \in SUBSET DOMAIN o.request.docs,
           NEW rows \in SUBSET more, NEW i \in DOMAIN o.request.docs
    PROVE  Place(o, rows, i) <= Place(o, more, i)
<1>1. {j \in rows : SortsBefore(o, j, i)} \in SUBSET {j \in more : SortsBefore(o, j, i)}
  OBVIOUS
<1> QED BY <1>1, PlacesAreCounted DEF Place

\* A row has a higher place than those before it.
LEMMA PlacesRise ==
    ASSUME NEW o, o.request \in Request, NEW rows \in SUBSET DOMAIN o.request.docs,
           NEW i \in rows, NEW j \in DOMAIN o.request.docs, SortsBefore(o, i, j)
    PROVE  Place(o, rows, i) < Place(o, rows, j)
<1> DEFINE low == {k \in rows : SortsBefore(o, k, i)}
<1>1. i \in DOMAIN o.request.docs OBVIOUS
<1>2. low \cup {i} \in SUBSET {k \in rows : SortsBefore(o, k, j)} BY <1>1, RowsAreOrdered
<1>3. i \notin low BY <1>1, RowsAreOrdered
<1>4. IsFiniteSet(low) /\ Cardinality(low) = Place(o, rows, i) /\ Place(o, rows, i) \in Nat
  BY <1>1, PlacesAreCounted DEF Place
<1>5. Cardinality(low \cup {i}) = Place(o, rows, i) + 1 BY <1>3, <1>4, FS_AddElement
<1>6. Cardinality(low \cup {i}) <= Place(o, rows, j) /\ Place(o, rows, j) \in Nat
  BY <1>2, PlacesAreCounted
<1> QED BY <1>4, <1>5, <1>6

\* The rows whose places are below a number are no more than that, and just as
\* many when there is another one.
LEMMA FirstRows ==
    ASSUME NEW o, o.request \in Request, NEW rows \in SUBSET DOMAIN o.request.docs,
           NEW n \in Nat, NEW first, first = {i \in rows : Place(o, rows, i) < n}
    PROVE  /\ Cardinality(first) \in Nat /\ Cardinality(first) <= n
           /\ rows # first => Cardinality(first) = n
<1> DEFINE place(i) == Place(o, rows, i)
           low(i) == {j \in rows : SortsBefore(o, j, i)}
<1>1. ASSUME NEW i \in rows
      PROVE  /\ i \in DOMAIN o.request.docs /\ place(i) \in Nat
             /\ place(i) = Cardinality(low(i))
             /\ i \notin low(i) /\ IsFiniteSet(low(i)) /\ low(i) \subseteq rows
  <2>1. i \in DOMAIN o.request.docs OBVIOUS
  <2>2. place(i) \in Nat /\ IsFiniteSet(low(i)) BY <2>1, PlacesAreCounted
  <2>3. place(i) = Cardinality(low(i)) BY DEF Place
  <2>4. i \notin low(i) BY <2>1, RowsAreOrdered
  <2> QED BY <2>1, <2>2, <2>3, <2>4
<1>2. \A i \in rows : \A j \in low(i) : place(j) < place(i) BY PlacesRise
<1>3. \A i, j \in rows : i = j \/ i \in low(j) \/ j \in low(i) BY RowsAreOrdered
<1>4. \A i \in rows : i \in first <=> place(i) < n OBVIOUS
<1>5. first \subseteq rows OBVIOUS
<1>6. IsFiniteSet(first) /\ Cardinality(first) \in Nat
  BY <1>5, RowsAreFinite
<1> HIDE DEF place, low
<1>7. Cardinality(first) <= n
  <2>1. CASE first = {} BY <2>1, FS_EmptySet
  <2>2. CASE first # {}
    <3> DEFINE left == {n - place(i) : i \in first}
    <3>1. \A i \in first : n - place(i) \in Nat
      <4>1. \A k \in Nat : k < n => n - k \in Nat OBVIOUS
      <4> QED BY <1>1, <1>4, <1>5, <4>1
    <3>2. left \in SUBSET Nat /\ left # {} BY <2>2, <3>1
    <3>3. PICK l \in left : \A k \in left : l <= k BY <3>2, HasLeast
    <3>4. PICK i \in first : l = n - place(i) OBVIOUS
    <3>5. ASSUME NEW j \in first PROVE j \in low(i) \cup {i}
      <4>1. n - place(i) <= n - place(j) BY <3>3, <3>4
      <4>2. place(i) \in Nat /\ place(j) \in Nat BY <1>1, <1>5
      <4>3. ~(place(i) < place(j)) BY <4>1, <4>2
      <4> QED BY <1>2, <1>3, <1>5, <4>3
    <3>6. ASSUME NEW j \in low(i) PROVE j \in first
      <4>1. place(j) < place(i) /\ j \in rows BY <1>1, <1>2, <1>5
      <4>2. place(i) \in Nat /\ place(j) \in Nat /\ place(i) < n BY <1>1, <1>4, <1>5, <4>1
      <4>3. place(j) < n BY <4>1, <4>2
      <4> QED BY <1>4, <4>1, <4>3
    <3>7. first = low(i) \cup {i} BY <3>5, <3>6
    <3>8. Cardinality(low(i) \cup {i}) = place(i) + 1
      <4>1. i \notin low(i) /\ IsFiniteSet(low(i)) /\ place(i) = Cardinality(low(i))
        BY <1>1, <1>5
      <4> QED BY <4>1, FS_AddElement
    <3>9. place(i) < n /\ place(i) \in Nat BY <1>1, <1>4, <1>5
    <3>10. \A k \in Nat : k < n => k + 1 <= n OBVIOUS
    <3> QED BY <3>7, <3>8, <3>9, <3>10
  <2> QED BY <2>1, <2>2
<1>8. ASSUME rows # first PROVE Cardinality(first) >= n
  <2> DEFINE places == {place(i) : i \in rows \ first}
  <2>1. places \in SUBSET Nat /\ places # {} BY <1>1, <1>5, <1>8
  <2>2. PICK l \in places : \A k \in places : l <= k BY <2>1, HasLeast
  <2>3. PICK i \in rows \ first : l = place(i) OBVIOUS
  <2>4. place(i) \in Nat /\ place(i) >= n
    <3>1. place(i) \in Nat /\ ~(place(i) < n) BY <1>1, <1>4
    <3> QED BY <3>1
  <2>5. ASSUME NEW j \in low(i) PROVE j \in first
    <3>1. place(j) < place(i) /\ j \in rows /\ place(j) \in Nat BY <1>1, <1>2
    <3>2. j \in rows \ first => place(i) <= place(j) BY <2>2, <2>3
    <3> QED BY <2>4, <3>1, <3>2
  <2>6. ASSUME NEW j \in first PROVE j \in low(i)
    <3>1. place(j) < n /\ j # i /\ j \in rows /\ place(j) \in Nat BY <1>1, <1>4, <1>5
    <3>2. ~(place(i) < place(j)) BY <2>4, <3>1
    <3> QED BY <1>2, <1>3, <3>1, <3>2
  <2>7. first = low(i) BY <2>5, <2>6
  <2> QED BY <1>1, <2>4, <2>7
<1> QED BY <1>6, <1>7, <1>8

\* The rows that are read come before all other rows that are found.
LEMMA RowsReadComeFirst ==
    ASSUME NEW o, o.request \in Request, o.skip \in Nat
    PROVE  /\ FoundRows(o) \in SUBSET DOMAIN o.request.docs
           /\ RowsRead(o) \in SUBSET FoundRows(o)
           /\ PageRead(o) \in SUBSET RowsRead(o)
           /\ \A i \in FoundRows(o), j \in RowsRead(o) :
                 SortsBefore(o, i, j) => i \in RowsRead(o)
<1> DEFINE found == FoundRows(o)
           upTo == IF FullAfter(o) = {} THEN found ELSE FoundUpTo(o, Min(FullAfter(o)))
<1>1. found \in SUBSET DOMAIN o.request.docs BY DEF FoundRows
<1>2. RowsRead(o) = Limited(o, upTo) /\ upTo \subseteq found
  BY DEF RowsRead, FoundUpTo
<1>3. PageRead(o) \subseteq RowsRead(o) /\ Limited(o, upTo) \subseteq upTo
  BY DEF PageRead, Limited
<1>4. ASSUME NEW i \in found, NEW j \in upTo, SortsBefore(o, i, j)
      PROVE  i \in upTo
  <2>1. CASE FullAfter(o) = {} BY <2>1
  <2>2. CASE FullAfter(o) # {}
    <3> DEFINE m == Min(FullAfter(o))
    <3>1. upTo = {k \in found : MonthOfRow(o, k) <= m} BY <2>2 DEF FoundUpTo
    <3>2. MonthOfRow(o, i) <= MonthOfRow(o, j) /\ MonthOfRow(o, i) \in Nat
          /\ MonthOfRow(o, j) \in Nat
      BY <1>1, <1>2, <1>4, RowsAreOrdered
    <3>3. m \in Nat
      <4>1. FullAfter(o) \in SUBSET Nat BY DBClientAssumption DEF FullAfter, Months
      <4>2. PICK x \in FullAfter(o) : \A k \in FullAfter(o) : x <= k BY <2>2, <4>1, HasLeast
      <4> QED BY <4>1, <4>2 DEF Min
    <3>4. MonthOfRow(o, j) <= m BY <3>1
    <3> HIDE DEF m
    <3>5. \A a, b \in Nat : a <= b /\ b <= m => a <= m BY <3>3
    <3>6. MonthOfRow(o, i) <= m BY <3>2, <3>4, <3>5
    <3> QED BY <3>1, <3>6
  <2> QED BY <2>1, <2>2
<1> HIDE DEF upTo
<1>5. ASSUME NEW i \in found, NEW j \in RowsRead(o), SortsBefore(o, i, j)
      PROVE  i \in RowsRead(o)
  <2>1. j \in upTo /\ Place(o, upTo, j) < PageSize + o.skip BY <1>2 DEF Limited
  <2>2. i \in upTo BY <1>4, <1>5, <2>1
  <2>3. upTo \in SUBSET DOMAIN o.request.docs BY <1>1, <1>2
  <2>4. Place(o, upTo, i) < Place(o, upTo, j) BY <1>5, <2>1, <2>2, <2>3, PlacesRise
  <2>5. Place(o, upTo, i) \in Nat /\ Place(o, upTo, j) \in Nat
    <3>1. i \in DOMAIN o.request.docs /\ j \in DOMAIN o.request.docs BY <2>1, <2>2, <2>3
    <3> QED BY <2>3, <3>1, PlacesAreCounted
  <2>7. PageSize + o.skip \in Nat BY DBClientAssumption
  <2>6. Place(o, upTo, i) < PageSize + o.skip BY <2>1, <2>4, <2>5, <2>7
  <2> QED BY <1>2, <2>2, <2>6 DEF Limited
<1> QED BY <1>1, <1>2, <1>3, <1>5

\* When a row is left by a page that is not cut short, the page is full, and the
\* rows that are skipped and those in it all come before that row.
LEMMA PageLeavesRows ==
    ASSUME NEW o, o.request \in Request, o.skip \in Nat, ~IsCutShort(o),
           NEW i \in FoundRows(o), Place(o, FoundRows(o), i) >= o.skip, i \notin PageRead(o)
    PROVE  /\ Cardinality(PageRead(o)) \in Nat /\ Cardinality(PageRead(o)) >= PageSize
           /\ o.skip + Cardinality(PageRead(o)) <= Place(o, FoundRows(o), i)
<1> DEFINE found == FoundRows(o)
           read == RowsRead(o)
           page == PageRead(o)
           skipped == {j \in read : Place(o, read, j) < o.skip}
<1>1. /\ found \in SUBSET DOMAIN o.request.docs /\ read \in SUBSET found
      /\ page \in SUBSET read
      /\ \A k \in found, j \in read : SortsBefore(o, k, j) => k \in read
  BY RowsReadComeFirst
<1>2. read \in SUBSET DOMAIN o.request.docs BY <1>1
<1>3. i \notin read
  <2>1. ASSUME i \in read PROVE Place(o, read, i) = Place(o, found, i)
    <3>1. {j \in read : SortsBefore(o, j, i)} = {j \in found : SortsBefore(o, j, i)}
      BY <1>1, <2>1
    <3> QED BY <3>1 DEF Place
  <2> QED BY <2>1 DEF PageRead
<1>4. Cardinality(read) \in Nat /\ Cardinality(read) <= Place(o, found, i)
  <2>1. \A j \in read : SortsBefore(o, j, i) BY <1>1, <1>3, RowsAreOrdered
  <2>2. read \in SUBSET {j \in found : SortsBefore(o, j, i)} BY <1>1, <2>1
  <2> QED BY <1>1, <1>2, <2>2, PlacesAreCounted, RowsAreFinite
<1>5. Cardinality(read) = PageSize + o.skip
  <2>0. PageSize + o.skip \in Nat BY DBClientAssumption
  <2>1. CASE read = Limited(o, found)
    <3>1. read = {j \in found : Place(o, found, j) < PageSize + o.skip} BY <2>1 DEF Limited
    <3>2. found # read BY <1>3
    <3> QED BY <1>1, <2>0, <3>1, <3>2, FirstRows
  <2>2. CASE read # Limited(o, found)
    <3> DEFINE m == Min(FullAfter(o))
    <3>1. FullAfter(o) # {} /\ read = Limited(o, FoundUpTo(o, m)) BY <2>2 DEF RowsRead
    <3>2. FoundUpTo(o, m) # found BY <2>2, <3>1
    <3>3. FullAfter(o) \in SUBSET Nat BY DBClientAssumption DEF FullAfter, Months
    <3>4. PICK x \in FullAfter(o) : \A k \in FullAfter(o) : x <= k BY <3>1, <3>3, HasLeast
    <3>5. m \in FullAfter(o) /\ m \in Nat BY <3>3, <3>4 DEF Min
    <3> HIDE DEF m
    <3>6. PICK j \in found : ~(MonthOfRow(o, j) <= m) BY <3>2 DEF FoundUpTo
    <3>7. MonthOfRow(o, j) > m
      <4>1. MonthOfRow(o, j) \in Nat BY <1>1, RowsAreOrdered
      <4> QED BY <3>5, <3>6, <4>1
    <3>8. ~(o.skip > 0) BY <3>1, <3>7 DEF IsCutShort, m
    <3>9. o.skip = 0 BY <3>8
    <3>10. Cardinality(read) = PageSize BY <3>1, <3>5 DEF FullAfter
    <3> QED BY <3>9, <3>10, DBClientAssumption
  <2> QED BY <2>1, <2>2
<1>6. page = read \ skipped
  <2>1. \A j \in read : Place(o, read, j) \in Nat BY <1>2, PlacesAreCounted
  <2>2. \A a \in Nat : a >= o.skip <=> ~(a < o.skip) OBVIOUS
  <2>3. page = {j \in read : Place(o, read, j) >= o.skip} BY DEF PageRead
  <2> HIDE DEF page, read
  <2> QED BY <2>1, <2>2, <2>3
<1>7. Cardinality(skipped) = o.skip
  <2>1. /\ Cardinality(skipped) \in Nat /\ Cardinality(skipped) <= o.skip
        /\ read # skipped => Cardinality(skipped) = o.skip
    BY <1>2, FirstRows
  <2>2. read # skipped
    <3>1. PageSize \in Nat /\ PageSize > 0 BY DBClientAssumption
    <3> QED BY <1>5, <2>1, <3>1
  <2> QED BY <2>1, <2>2
<1>8. Cardinality(page) = Cardinality(read) - o.skip
  <2>1. IsFiniteSet(read) /\ read \cap skipped = skipped BY <1>2, RowsAreFinite
  <2> QED BY <1>6, <1>7, <2>1, FS_Difference
<1>9. Cardinality(page) = PageSize /\ PageSize \in Nat
  BY <1>5, <1>8, DBClientAssumption
<1>10. o.skip + Cardinality(page) = Cardinality(read) BY <1>5, <1>9
<1> QED BY <1>4, <1>9, <1>10

-----------------------------------------------------------------------------
(***************************************************************************)
(* Scans.                                                                  *)
(***************************************************************************)

\* A scan goes on: unless it has nothing to find any more, no document of its
\* range is taken away, and what it has found or missed was, or was not, there.
LEMMA ScanMoves ==
    ASSUME NEW u, NEW v, v.request = u.request, u.request \in Request, ScanInv(u),
           NEW docs, docs = u.request.docs,
           u.request.kind = "scan" =>
              /\ v.skip = u.skip /\ v.read = u.read
              /\ \A i \in DOMAIN docs : <<i, "conflict">> \notin v.rows
              /\ \A i \in DOMAIN v.answers : v.answers[i] = "missing" => docs[i] \notin v.before
              /\ v.before # {} =>
                    /\ v.before = u.before
                    /\ \A i \in DOMAIN docs :
                          /\ ~Removing(docs[i])'
                          /\ IsStored(docs[i]) => IsStored(docs[i])'
                          /\ <<i, "found">> \in v.rows =>
                                <<i, "found">> \in u.rows \/ IsStored(docs[i])'
                          /\ <<i, "missing">> \in v.rows =>
                                <<i, "missing">> \in u.rows \/ ~IsStored(docs[i])
    PROVE  ScanInv(v)'
<1>1. SUFFICES ASSUME v.request.kind = "scan" PROVE ScanInv(v)' BY DEF ScanInv
<1>2. CASE v.before = {} BY <1>1, <1>2 DEF ScanInv
<1>3. CASE v.before # {}
  <2>1. v.before = u.before /\ v.skip = u.skip /\ v.read = u.read BY <1>1, <1>3
  <2>2. \A i \in DOMAIN docs :
           /\ ~Removing(docs[i])'
           /\ <<i, "found">> \in v.rows => IsStored(docs[i])'
    BY <1>1, <1>3, <2>1 DEF ScanInv
  <2>3. ASSUME NEW i \in DOMAIN docs, docs[i] \in v.before, i \notin v.read,
               NEW more, more = Counted(v)'
        PROVE  Place(v, more, i) >= v.skip
    <3>1. Place(u, Counted(u), i) >= u.skip BY <1>1, <2>1, <2>3 DEF ScanInv
    <3>2. Counted(u) \subseteq more /\ more \subseteq DOMAIN docs
      BY <1>1, <1>3, <2>3 DEF Counted
    <3>3. Place(v, more, i) = Place(u, more, i) BY DEF Place, SortsBefore, MonthOfRow
    <3>4. Place(u, Counted(u), i) <= Place(u, more, i) BY <2>3, <3>2, PlacesGrow
    <3>5. Place(u, Counted(u), i) \in Nat /\ Place(u, more, i) \in Nat
      BY <2>3, <3>2, PlacesAreCounted
    <3>6. u.skip \in Nat BY <1>1 DEF ScanInv
    <3> QED BY <2>1, <3>1, <3>3, <3>4, <3>5, <3>6
  <2>4. ASSUME NEW i \in DOMAIN docs, docs[i] \in v.before, i \notin v.read
        PROVE  (Place(v, Counted(v), i) >= v.skip)'
    <3>1. PICK more : more = Counted(v)' OBVIOUS
    <3>2. Place(v, Counted(v), i)' = Place(v, more, i)
      BY <3>1 DEF Place, SortsBefore, MonthOfRow
    <3> QED BY <2>3, <2>4, <3>1, <3>2
  <2> QED BY <1>1, <2>1, <2>2, <2>4 DEF ScanInv
<1> QED BY <1>2, <1>3

\* A scan goes on when what is in the databases does not change.
LEMMA ScanGoesOn ==
    ASSUME NEW u, NEW v, v.request = u.request, u.request \in Request, ScanInv(u),
           v.skip = u.skip, v.read = u.read, v.before = u.before,
           \A i \in DOMAIN v.answers : v.answers[i] = "missing" => v.answers = u.answers,
           \A i \in DOMAIN u.request.docs : \A outcome \in {"found", "missing", "conflict"} :
              <<i, outcome>> \in v.rows <=> <<i, outcome>> \in u.rows
    PROVE  ScanInv(v)
<1>1. Counted(v) = Counted(u) BY DEF Counted
<1>2. \A i : Place(v, Counted(v), i) = Place(u, Counted(u), i)
  BY <1>1 DEF Place, SortsBefore, MonthOfRow
<1>3. \A i \in DOMAIN u.request.docs :
         /\ <<i, "conflict">> \in v.rows <=> <<i, "conflict">> \in u.rows
         /\ <<i, "found">> \in v.rows <=> <<i, "found">> \in u.rows
  OBVIOUS
<1>4. u.request.kind = "scan" =>
         \A i \in DOMAIN v.answers : v.answers[i] = "missing" => u.request.docs[i] \notin v.before
  BY DEF ScanInv
<1> QED BY <1>2, <1>3, <1>4 DEF ScanInv

\* The location of a partition is a server, and the one that has it.
LEMMA LocationIsServer ==
    ASSUME DBTypeOK, PartitionsInv, NEW p \in Partitions
    PROVE  /\ Location(p) \in 1 .. servers
           /\ \A s \in AllServers : p \in collections[s] => Location(p) = s
           /\ servers = 1 => Location(p) = 1
<1>1. servers \in Nat /\ servers >= 1 /\ servers <= MaxServers /\ MaxServers \in Nat
  BY DBClientAssumption DEF DBTypeOK
<1>2. \A s \in 1 .. servers : s \in AllServers BY <1>1 DEF AllServers
<1>3. p[1] \in Nat
  BY DBClientAssumption DEF Partitions, PartitionOf
<1>4. CASE \E s \in AllServers : p \in collections[s]
  <2>1. PICK s \in AllServers : p \in collections[s] BY <1>4
  <2>2. s \in 1 .. servers /\ \A t \in AllServers : p \in collections[t] => t = s
    BY <1>1, <2>1 DEF PartitionsInv, AllServers
  <2>3. Holders(p) = {s} BY <1>2, <2>1, <2>2 DEF Holders
  <2>4. Min({s}) = s BY <2>2 DEF Min
  <2>5. Location(p) = s BY <2>3, <2>4 DEF Location
  <2> QED BY <1>1, <2>1, <2>2, <2>5
<1>5. CASE ~ \E s \in AllServers : p \in collections[s]
  <2>1. Holders(p) = {} BY <1>2, <1>5 DEF Holders
  <2>2. Location(p) = 1 + (p[1] % servers) BY <2>1 DEF Location, AssignedServer
  <2>3. (p[1] % servers) \in 0 .. servers - 1 BY <1>1, <1>3
  <2> QED BY <1>1, <1>5, <2>2, <2>3
<1> QED BY <1>4, <1>5

\* Every client looks for a partition at its location.
LEMMA ServerIsLocation ==
    ASSUME DBTypeOK, PartitionsInv, KnownInv, NEW c \in Clients, NEW p \in Partitions
    PROVE  GetServer(c, p) = Location(p)
<1>1. servers = 1 => Location(p) = 1 BY LocationIsServer
<1>2. known[c][p] \in {0, Location(p)} BY DEF KnownInv
<1> QED BY <1>1, <1>2 DEF GetServer, Location

\* A call that is at work is a record that is not the idle one.
LEMMA CallIsBusy ==
    ASSUME NEW o, o \in CallOf(o)
    PROVE  o # Idle /\ o.request \in Request
<1>1. o.at \in {"resolve", "execute", "answered"} /\ o.request \in Request
  BY DEF CallOf
<1>2. Idle.at = "idle" BY DEF Idle
<1> QED BY <1>1, <1>2

\* The call of a client ends or goes on, with the databases as they are.
LEMMA CallMoves ==
    ASSUME DBInv, NEW c \in Clients, NEW o, op' = [op EXCEPT ![c] = o],
           UNCHANGED <<servers, collections, stored, acked>>,
           known' \in [Clients -> [Partitions -> Int]],
           \A d \in Clients, p \in Partitions : known'[d][p] \in {0, Location(p)},
           \/ o = Idle
           \/ /\ Busy(c) /\ o \in CallOf(o) /\ CallInv(o) /\ ScanInv(o)
              /\ o.request = op[c].request
              /\ o.at # "answered" =>
                    op[c].at # "answered" /\ o.contested = op[c].contested
    PROVE  DBInv'
<1> USE DEF DBInv
<1>1. op'[c] = o /\ \A d \in Clients \ {c} : op'[d] = op[d]
  BY DEF DBTypeOK
<1>2. op' \in [Clients -> {op'[d] : d \in Clients}]
  BY DEF DBTypeOK
<1>3. \A d \in Clients : Busy(d)' => op'[d] \in CallOf(op'[d])
  BY <1>1 DEF Busy, DBTypeOK
<1>4. DBTypeOK' BY <1>2, <1>3 DEF DBTypeOK, AllServers, CallOf
<1>5. PartitionsInv' /\ StoredInv' BY DEF PartitionsInv, StoredInv
<1>6. \A p : Location(p)' = Location(p)
  BY DEF Location, Holders, AssignedServer
<1>7. KnownInv' BY <1>6 DEF KnownInv
<1>8. AckedInv' BY <1>6 DEF AckedInv, IsStored
<1>9. \A u : CallInv(u)' <=> CallInv(u)
  BY <1>6 DEF CallInv, IsStored
<1>10. CallsInv' BY <1>1, <1>9 DEF CallsInv, Busy
<1>11. \A doc \in Docs : Removing(doc)' => Removing(doc)
  BY <1>1 DEF Removing, Busy, Indices, DocAt
<1>12. ASSUME NEW doc \in Docs, Removing(doc), NEW d \in Clients,
              Busy(d)', IsPut(op'[d]), doc \in ToSet(op'[d].request.docs)
       PROVE  doc \in op'[d].contested
  <2>1. CASE d = c
    <3>1. Busy(c) /\ IsPut(op[c]) /\ op'[c].request = op[c].request
          /\ op'[c].contested = op[c].contested
      BY <1>1, <1>12, <2>1 DEF Busy, IsPut
    <3> QED BY <1>12, <2>1, <3>1 DEF RemovalInv
  <2>2. CASE d # c BY <1>1, <1>12, <2>2 DEF RemovalInv, Busy
  <2> QED BY <2>1, <2>2
<1>13. RemovalInv' BY <1>11, <1>12 DEF RemovalInv
<1>14. ASSUME NEW d \in Clients, Busy(d)', NEW v, v = op'[d]
       PROVE  ScanInv(v)'
  <2>1. ScanInv(v) /\ v \in CallOf(v)
    BY <1>1, <1>14 DEF ScansInv, Busy, DBTypeOK
  <2>2. /\ v.request \in Request
        /\ \A i \in DOMAIN v.request.docs : v.request.docs[i] \in Docs
    BY <2>1, CallIsBusy, CallDocs
  <2>3. \A doc : IsStored(doc)' <=> IsStored(doc) BY <1>6 DEF IsStored
  <2>4. v.request.kind = "scan" =>
           /\ \A i \in DOMAIN v.request.docs : <<i, "conflict">> \notin v.rows
           /\ \A i \in DOMAIN v.answers :
                 v.answers[i] = "missing" => v.request.docs[i] \notin v.before
           /\ v.before # {} => \A i \in DOMAIN v.request.docs : ~Removing(v.request.docs[i])'
    BY <1>11, <2>1, <2>2 DEF ScanInv
  <2> QED BY <2>1, <2>2, <2>3, <2>4, ScanMoves
<1>15. ScansInv' BY <1>14 DEF ScansInv
<1> QED BY <1>4, <1>5, <1>7, <1>8, <1>10, <1>13, <1>15

-----------------------------------------------------------------------------
(***************************************************************************)
(* The steps of a call.                                                    *)
(***************************************************************************)
LEMMA DocsHavePartitions ==
    ASSUME DBTypeOK, NEW c \in Clients, Busy(c)
    PROVE  /\ op[c] \in CallOf(op[c]) /\ op[c].request \in Request
           /\ Indices(c) = DOMAIN op[c].request.docs
           /\ \A i \in Indices(c) : DocAt(c, i) \in Docs /\ PartitionOf(DocAt(c, i)) \in Partitions
<1>1. op[c] \in CallOf(op[c]) BY DEF DBTypeOK
<1>2. op[c].request \in Request BY <1>1, CallIsBusy
<1> QED BY <1>1, <1>2, CallDocs DEF Indices, DocAt, Partitions

\* The server of a document of a call, or an error, is found.
LEMMA Resolved ==
    ASSUME DBInv, NEW c \in Clients, Busy(c), NEW i \in Indices(c), NextToResolve(c, i),
           NEW server, server \in {ErrorDB, Location(PartitionOf(DocAt(c, i)))},
           ResolveWith(c, i, server), UNCHANGED <<servers, collections, stored, acked>>,
           known' = IF servers = 1 THEN known
                    ELSE [known EXCEPT ![c][PartitionOf(DocAt(c, i))] =
                             GetServer(c, PartitionOf(DocAt(c, i)))]
    PROVE  DBInv'
<1> USE DEF DBInv
<1> DEFINE p == PartitionOf(DocAt(c, i))
           u == op[c]
           found == [j \in Indices(c) |-> IF j \in ResolvedWith(c, i) THEN server ELSE u.server[j]]
           at == IF \A j \in Indices(c) \ ResolvedWith(c, i) : u.server[j] # Unresolved
                 THEN "execute" ELSE u.at
           o == [u EXCEPT !.server = found, !.at = at]
<1>1. /\ u \in CallOf(u) /\ u.request \in Request /\ Indices(c) = DOMAIN u.request.docs
      /\ \A j \in Indices(c) : DocAt(c, j) \in Docs /\ PartitionOf(DocAt(c, j)) \in Partitions
  BY DocsHavePartitions
<1>2. op' = [op EXCEPT ![c] = o] BY DEF ResolveWith
<1>3. u.at = "resolve" BY DEF NextToResolve
<1>4. Location(p) \in 1 .. servers /\ servers \in Int /\ p \in Partitions
  BY <1>1, LocationIsServer DEF DBTypeOK
<1>5. server \in Int BY <1>4 DEF ErrorDB
<1>6. u.server \in [DOMAIN u.request.docs -> Int] BY <1>1 DEF CallOf
<1>7. found \in [DOMAIN u.request.docs -> Int] BY <1>1, <1>5, <1>6
<1>8. \A j \in Indices(c) : j \in ResolvedWith(c, i) => PartitionOf(DocAt(c, j)) = p
  BY DEF ResolvedWith
<1>9. \A j \in Indices(c) :
         found[j] \in {Unresolved, ErrorDB, Location(PartitionOf(DocAt(c, j)))}
  BY <1>1, <1>8 DEF CallsInv, CallInv, DocAt
<1>10. at \in {"resolve", "execute"} BY <1>3
<1>17. at = "execute" => \A j \in Indices(c) : found[j] # Unresolved
  BY <1>3, <1>4 DEF ErrorDB, Unresolved
<1> HIDE DEF found, at
<1>16. o = [u EXCEPT !.server = found, !.at = at] OBVIOUS
<1>11. /\ o \in CallOf(o) /\ o.at = at /\ o.server = found
       /\ o.request = u.request /\ o.contested = u.contested
       /\ o.before = u.before /\ o.rows = u.rows /\ o.answers = u.answers
       /\ o.skip = u.skip /\ o.read = u.read
  <2> HIDE DEF u, o
  <2>1. u.at \in {"resolve", "execute", "answered"} /\ u.request \in Request BY <1>1 DEF CallOf
  <2> QED BY <1>1, <1>7, <1>10, <1>16 DEF CallOf
<1>12. CallInv(u) BY DEF CallsInv
<1>13. CallInv(o)
  <2> HIDE DEF o
  <2> QED BY <1>1, <1>3, <1>9, <1>11, <1>12, <1>17 DEF CallInv, IsPut, IsRead, DocAt
<1>18. ScanInv(u) BY DEF ScansInv
<1>19. ScanInv(o)
  <2> HIDE DEF u, o
  <2> QED BY <1>1, <1>11, <1>18, ScanGoesOn
<1>14. GetServer(c, p) = Location(p) BY <1>4, ServerIsLocation
<1>15. /\ known' \in [Clients -> [Partitions -> Int]]
       /\ \A d \in Clients, q \in Partitions : known'[d][q] \in {0, Location(q)}
  <2> HIDE DEF p
  <2>1. Location(p) \in Int BY <1>4
  <2>2. known' = known \/ known' = [known EXCEPT ![c][p] = Location(p)]
    BY <1>14 DEF p
  <2> HIDE DEF DBInv
  <2>3. known \in [Clients -> [Partitions -> Int]] BY DEF DBInv, DBTypeOK
  <2>4. \A d \in Clients, q \in Partitions : known[d][q] \in {0, Location(q)}
    BY DEF DBInv, KnownInv
  <2>5. CASE known' = known BY <2>3, <2>4, <2>5
  <2>6. CASE known' = [known EXCEPT ![c][p] = Location(p)]
    BY ONLY <1>4, <2>1, <2>3, <2>4, <2>6, c \in Clients
  <2> QED BY <2>2, <2>5, <2>6
<1> HIDE DEF o
<1> QED BY <1>2, <1>3, <1>11, <1>13, <1>15, <1>19, CallMoves

\* The server that is found for a document is that of its partition.
LEMMA ResolveKeeps ==
    ASSUME DBInv, NEW c \in Clients, Busy(c), NEW i \in Indices(c),
           Resolve(c, i) \/ ConnectFails(c, i)
    PROVE  DBInv'
<1>1. PartitionOf(DocAt(c, i)) \in Partitions BY DocsHavePartitions DEF DBInv
<1>2. GetServer(c, PartitionOf(DocAt(c, i))) = Location(PartitionOf(DocAt(c, i)))
  BY <1>1, ServerIsLocation DEF DBInv
<1> QED BY <1>2, Resolved DEF Resolve, ConnectFails

\* A call that ends, is given up or has not found a server.
LEMMA CallEnds ==
    ASSUME DBInv, NEW c \in Clients, op' = [op EXCEPT ![c] = Idle],
           UNCHANGED <<servers, collections, stored, acked>>,
           known' = known \/ known' = [known EXCEPT ![c] = [p \in Partitions |-> 0]]
    PROVE  DBInv'
<1> DEFINE none == [p \in Partitions |-> 0]
<1>3. known \in [Clients -> [Partitions -> Int]] BY DEF DBInv, DBTypeOK
<1>4. \A d \in Clients, p \in Partitions : known[d][p] \in {0, Location(p)}
  BY DEF DBInv, KnownInv
<1>5. none \in [Partitions -> Int] /\ \A p \in Partitions : none[p] = 0 OBVIOUS
<1>6. known' = known \/ known' = [known EXCEPT ![c] = none] OBVIOUS
<1> HIDE DEF none
<1>1. known' \in [Clients -> [Partitions -> Int]] BY <1>3, <1>5, <1>6
<1>2. \A d \in Clients, p \in Partitions : known'[d][p] \in {0, Location(p)}
  BY <1>3, <1>4, <1>5, <1>6
<1> QED BY <1>1, <1>2, CallMoves

\* A call whose server is not found answers with errors alone.
LEMMA FindServerFailsKeeps ==
    ASSUME DBInv, NEW c \in Clients, Busy(c), NEW i \in Indices(c), FindServerFails(c, i)
    PROVE  DBInv'
<1> USE DEF DBInv
<1> DEFINE u == op[c]
           answers == EveryRow(c, "error")
           o == [u EXCEPT !.at = "answered", !.answers = answers]
<1>1. op' = [op EXCEPT ![c] = o] /\ UNCHANGED <<servers, collections, stored, acked, known>>
  BY DEF FindServerFails
<1>2. u \in CallOf(u) BY DocsHavePartitions
<1> HIDE DEF answers
<1>3. /\ o \in CallOf(o) /\ o.at = "answered" /\ o.server = u.server /\ o.request = u.request
      /\ o.before = u.before /\ o.rows = u.rows /\ o.answers = answers
      /\ o.skip = u.skip /\ o.read = u.read
  BY <1>2 DEF CallOf
<1>7. \A n \in DOMAIN answers : answers[n] # "missing" BY DEF answers, EveryRow
<1>4. CallInv(u) BY DEF CallsInv
<1>5. CallInv(o)
  <2> HIDE DEF u, o
  <2> QED BY <1>3, <1>4, <1>7 DEF CallInv, IsPut, IsRead
<1>6. known' \in [Clients -> [Partitions -> Int]]
      /\ \A d \in Clients, p \in Partitions : known'[d][p] \in {0, Location(p)}
  BY <1>1 DEF DBTypeOK, KnownInv
<1>8. ScanInv(u) /\ u.request \in Request BY DocsHavePartitions DEF ScansInv
<1>9. ScanInv(o)
  <2> HIDE DEF u, o
  <2> QED BY <1>3, <1>7, <1>8, ScanGoesOn
<1> HIDE DEF o
<1> QED BY <1>1, <1>3, <1>5, <1>6, <1>9, CallMoves

\* The rows of a call, of which a new one is an error.
LEMMA RowsAdded ==
    ASSUME NEW u, u \in CallOf(u), NEW rows \in SUBSET (Int \X Outcomes),
           NEW o, o = [u EXCEPT !.rows = u.rows \cup rows]
    PROVE  /\ o \in CallOf(o) /\ o.at = u.at /\ o.server = u.server
           /\ o.request = u.request /\ o.contested = u.contested
           /\ o.before = u.before /\ o.rows = u.rows \cup rows /\ o.answers = u.answers
           /\ o.skip = u.skip /\ o.read = u.read
<1> DEFINE more == u.rows \cup rows
<1>1. more \in SUBSET (Int \X Outcomes) BY DEF CallOf
<1>2. o = [u EXCEPT !.rows = more] OBVIOUS
<1> HIDE DEF more
<1>3. /\ o \in CallOf(o) /\ o.at = u.at /\ o.server = u.server
      /\ o.request = u.request /\ o.contested = u.contested
      /\ o.before = u.before /\ o.rows = more /\ o.answers = u.answers
      /\ o.skip = u.skip /\ o.read = u.read
  BY <1>1, <1>2 DEF CallOf
<1> QED BY <1>3 DEF more

\* A group of errors is a set of rows.
LEMMA ErrorsAreRows ==
    ASSUME DBTypeOK, NEW c \in Clients, Busy(c), NEW group \in SUBSET Indices(c)
    PROVE  {<<j, "error">> : j \in group} \in SUBSET (Int \X Outcomes)
<1>1. Indices(c) = 1 .. Len(op[c].request.docs) /\ Len(op[c].request.docs) \in Nat
  BY DocsHavePartitions, CallDocs
<1> QED BY <1>1 DEF Outcomes

\* A group of documents whose server fails is answered with errors.
LEMMA ErrorsKeep ==
    ASSUME DBInv, NEW c \in Clients, Busy(c), NEW group \in SUBSET Indices(c),
           Answers(c, {<<j, "error">> : j \in group}),
           UNCHANGED <<servers, collections, stored, acked, known>>
    PROVE  DBInv'
<1> USE DEF DBInv
<1> DEFINE u == op[c]
           rows == {<<j, "error">> : j \in group}
           o == [u EXCEPT !.rows = u.rows \cup rows]
<1>1. op' = [op EXCEPT ![c] = o] BY DEF Answers
<1>2. u \in CallOf(u) BY DocsHavePartitions
<1>3. rows \in SUBSET (Int \X Outcomes) BY ErrorsAreRows
<1>4. \A j : \A outcome \in {"ok", "missing", "found", "conflict"} :
         <<j, outcome>> \notin rows
  OBVIOUS
<1> HIDE DEF rows
<1>5. /\ o \in CallOf(o) /\ o.at = u.at /\ o.server = u.server
      /\ o.request = u.request /\ o.contested = u.contested
      /\ o.before = u.before /\ o.rows = u.rows \cup rows /\ o.answers = u.answers
      /\ o.skip = u.skip /\ o.read = u.read
  <2> HIDE DEF u
  <2> QED BY <1>2, <1>3, RowsAdded
<1>6. CallInv(u) BY DEF CallsInv
<1>7. CallInv(o)
  <2> HIDE DEF u, o
  <2>1. \A j : <<j, "ok">> \notin rows /\ <<j, "missing">> \notin rows BY <1>4
  <2> QED BY <1>5, <1>6, <2>1 DEF CallInv, IsPut, IsRead
<1>9. ScanInv(u) /\ u.request \in Request BY DocsHavePartitions DEF ScansInv
<1>10. ScanInv(o)
  <2> HIDE DEF u, o
  <2>1. \A j : \A outcome \in {"found", "missing", "conflict"} :
           <<j, outcome>> \in o.rows <=> <<j, outcome>> \in u.rows
    BY <1>4, <1>5
  <2> QED BY <1>5, <1>9, <2>1, ScanGoesOn
<1>8. known' \in [Clients -> [Partitions -> Int]]
      /\ \A d \in Clients, p \in Partitions : known'[d][p] \in {0, Location(p)}
  BY DEF DBTypeOK, KnownInv
<1> HIDE DEF o
<1> QED BY <1>1, <1>5, <1>7, <1>8, <1>10, CallMoves

\* A request that fails keeps the invariant.
LEMMA ExecuteFailsKeeps ==
    ASSUME DBInv, NEW c \in Clients, Busy(c), NEW i \in Indices(c), ExecuteFails(c, i)
    PROVE  DBInv'
<1>1. DocGroup(c, i) \in SUBSET Indices(c) BY DEF DocGroup
<1> QED BY <1>1, ErrorsKeep DEF ExecuteFails

\* A page is read: the call is answered, or begins with the next page.
LEMMA ReadPageKeeps ==
    ASSUME DBInv, NEW c \in Clients, ReadPage(c)
    PROVE  DBInv'
<1> USE DEF DBInv
<1> DEFINE u == op[c]
           page == PageRead(u)
           read == u.read \cup page
           skip == u.skip + Cardinality(page)
           before == IF IsCutShort(u) THEN {} ELSE u.before
           answers == [i \in Indices(c) |-> IF i \in read THEN "found" ELSE "missing"]
           unresolved == [i \in Indices(c) |-> Unresolved]
           last == [u EXCEPT !.at = "answered", !.rows = {}, !.skip = 0, !.read = {},
                             !.before = before, !.answers = answers]
           next == [u EXCEPT !.at = "resolve", !.rows = {}, !.read = read,
                             !.before = before, !.skip = skip, !.server = unresolved]
<1>1. UNCHANGED <<servers, collections, stored, acked, known>> BY DEF ReadPage
<1>2. u.at = "execute" /\ u.request.kind = "scan" BY DEF ReadPage
<1>3. \/ op' = [op EXCEPT ![c] = last] /\ Cardinality(page) < PageSize
      \/ op' = [op EXCEPT ![c] = next]
  <2>1. CASE Cardinality(page) < PageSize BY <2>1 DEF ReadPage
  <2>2. CASE ~(Cardinality(page) < PageSize) BY <2>2 DEF ReadPage
  <2> QED BY <2>1, <2>2
<1>4. Busy(c)
  <2>1. Idle.at = "idle" BY DEF Idle
  <2> QED BY <1>2, <2>1 DEF Busy
<1>5. u \in CallOf(u) /\ Indices(c) = DOMAIN u.request.docs BY <1>4, DocsHavePartitions
<1>6. CallInv(u) BY <1>4 DEF CallsInv
<1>7. before \in SUBSET Docs /\ before \subseteq u.before BY <1>5 DEF CallOf
<1>8. unresolved \in [DOMAIN u.request.docs -> Int] BY <1>5 DEF Unresolved
<1>9. \A i \in DOMAIN u.request.docs : unresolved[i] = Unresolved BY <1>5
<1>10. known' \in [Clients -> [Partitions -> Int]]
       /\ \A d \in Clients, p \in Partitions : known'[d][p] \in {0, Location(p)}
  BY <1>1 DEF DBTypeOK, KnownInv
<1>17. ScanInv(u) /\ u.request \in Request BY <1>4, <1>5, CallIsBusy DEF ScansInv
<1>18. \A i \in DOMAIN u.request.docs : <<i, "found">> \in u.rows \/ <<i, "missing">> \in u.rows
  <2> TAKE i \in DOMAIN u.request.docs
  <2>1. PICK row \in u.rows : row[1] = i BY <1>5 DEF ReadPage, Executed
  <2>2. row[2] # "error" BY DEF ReadPage
  <2>3. row = <<i, row[2]>> /\ row[2] \in Outcomes BY <1>5, <2>1 DEF CallOf
  <2>4. <<i, "ok">> \notin u.rows /\ <<i, "conflict">> \notin u.rows
    BY <1>2, <1>6, <1>17 DEF CallInv, IsRead, ScanInv
  <2> QED BY <2>2, <2>3, <2>4 DEF Outcomes
<1>19. Cardinality(page) \in Nat /\ u.skip \in Nat /\ skip \in Nat
  <2>1. u.skip \in Nat BY <1>2, <1>17 DEF ScanInv
  <2>2. page \in SUBSET DOMAIN u.request.docs BY <1>17, <2>1, RowsReadComeFirst
  <2> HIDE DEF page
  <2>3. Cardinality(page) \in Nat BY <1>17, <2>2, RowsAreFinite
  <2> QED BY <2>1, <2>3
<1>20. ASSUME NEW i \in DOMAIN u.request.docs, u.request.docs[i] \in before, i \notin read
       PROVE  /\ Cardinality(page) >= PageSize
              /\ i \in FoundRows(u) /\ Place(u, FoundRows(u), i) >= skip
  <2>1. ~IsCutShort(u) /\ u.request.docs[i] \in u.before /\ i \notin u.read /\ i \notin page
    BY <1>20
  <2>2. <<i, "missing">> \notin u.rows BY <1>2, <1>6, <2>1 DEF CallInv, IsRead
  <2>3. i \in FoundRows(u) BY <1>18, <2>2 DEF FoundRows
  <2>4. Place(u, Counted(u), i) >= u.skip BY <1>2, <1>17, <2>1 DEF ScanInv
  <2>5. Counted(u) \subseteq FoundRows(u) /\ FoundRows(u) \subseteq DOMAIN u.request.docs
    BY <1>18 DEF Counted, FoundRows
  <2>6. Place(u, Counted(u), i) <= Place(u, FoundRows(u), i)
    BY <1>17, <2>5, PlacesGrow
  <2>7. Place(u, Counted(u), i) \in Nat /\ Place(u, FoundRows(u), i) \in Nat
    BY <1>17, <2>5, PlacesAreCounted
  <2>8. Place(u, FoundRows(u), i) >= u.skip BY <1>19, <2>4, <2>6, <2>7
  <2> QED BY <1>17, <1>19, <2>1, <2>3, <2>8, PageLeavesRows
<1>21. before # {} =>
          \A i \in DOMAIN u.request.docs :
             /\ ~Removing(u.request.docs[i])
             /\ i \in FoundRows(u) => IsStored(u.request.docs[i])
  BY <1>2, <1>17 DEF ScanInv, FoundRows
<1>22. \A i \in DOMAIN answers : i \in DOMAIN u.request.docs /\
          (answers[i] = "missing" => i \notin read)
  BY <1>5
<1>23. before = {} \/ before = u.before OBVIOUS
<1> HIDE DEF page, read, skip, before, answers, unresolved
<1>11. /\ last \in CallOf(last) /\ last.at = "answered" /\ last.request = u.request
       /\ last.server = u.server /\ last.before = before /\ last.rows = {}
       /\ last.skip = 0 /\ last.answers = answers
  BY <1>5, <1>7 DEF CallOf
<1>12. /\ next \in CallOf(next) /\ next.at = "resolve" /\ next.request = u.request
       /\ next.server = unresolved /\ next.before = before /\ next.rows = {}
       /\ next.contested = u.contested /\ next.answers = u.answers
       /\ next.skip = skip /\ next.read = read
  BY <1>5, <1>7, <1>8 DEF CallOf
<1> HIDE DEF last, next
<1>13. CallInv(last)
  <2> HIDE DEF u
  <2> QED BY <1>2, <1>6, <1>7, <1>11 DEF CallInv, IsPut, IsRead
<1>14. CallInv(next)
  <2> HIDE DEF u
  <2> QED BY <1>2, <1>6, <1>7, <1>9, <1>12 DEF CallInv, IsPut, IsRead
<1>24. ASSUME Cardinality(page) < PageSize PROVE ScanInv(last)
  <2>1. \A i \in DOMAIN answers : answers[i] = "missing" => u.request.docs[i] \notin before
    <3>1. ~(Cardinality(page) >= PageSize) BY <1>19, <1>24, DBClientAssumption
    <3> QED BY <1>20, <1>22, <3>1
  <2>2. Counted(last) \in SUBSET DOMAIN last.request.docs BY DEF Counted
  <2>3. \A i \in DOMAIN u.request.docs : Place(last, Counted(last), i) >= 0
    <3>1. \A i \in DOMAIN u.request.docs : Place(last, Counted(last), i) \in Nat
      BY <1>11, <1>17, <2>2, PlacesAreCounted
    <3> QED BY <3>1
  <2> HIDE DEF u
  <2> QED BY <1>11, <1>21, <2>1, <2>3 DEF ScanInv
<1>25. ScanInv(next)
  <2>1. ASSUME NEW i \in DOMAIN u.request.docs, u.request.docs[i] \in before, i \notin read
        PROVE  Place(next, Counted(next), i) >= skip
    <3>1. i \in FoundRows(u) /\ Place(u, FoundRows(u), i) >= skip BY <1>20, <2>1
    <3>2. FoundRows(u) \subseteq Counted(next)
      BY <1>12, <1>21, <2>1 DEF FoundRows, Counted
    <3>3. Counted(next) \subseteq DOMAIN u.request.docs BY <1>12 DEF Counted
    <3>4. Place(next, Counted(next), i) = Place(u, Counted(next), i)
      BY <1>12 DEF Place, SortsBefore, MonthOfRow
    <3>5. Place(u, FoundRows(u), i) <= Place(u, Counted(next), i)
      BY <1>17, <2>1, <3>2, <3>3, PlacesGrow
    <3>6. FoundRows(u) \subseteq DOMAIN u.request.docs BY DEF FoundRows
    <3>7. Place(u, FoundRows(u), i) \in Nat /\ Place(u, Counted(next), i) \in Nat
      BY <1>17, <2>1, <3>3, <3>6, PlacesAreCounted
    <3> HIDE DEF u
    <3> QED BY <1>19, <3>1, <3>4, <3>5, <3>7
  <2>2. \A i \in DOMAIN u.answers :
           u.answers[i] = "missing" => u.request.docs[i] \notin before
    BY <1>2, <1>7, <1>17 DEF ScanInv
  <2> HIDE DEF u
  <2> QED BY <1>12, <1>19, <1>21, <2>1, <2>2 DEF ScanInv
<1>15. CASE op' = [op EXCEPT ![c] = last] /\ Cardinality(page) < PageSize
  BY <1>1, <1>4, <1>10, <1>11, <1>13, <1>15, <1>24, CallMoves
<1>16. CASE op' = [op EXCEPT ![c] = next]
  BY <1>1, <1>2, <1>4, <1>10, <1>12, <1>14, <1>16, <1>25, CallMoves
<1> QED BY <1>3, <1>15, <1>16

\* A call is given back, or its client is restarted.
LEMMA EndKeeps ==
    ASSUME DBInv, NEW c \in Clients, ReturnFromDB(c) \/ RestartClient(c)
    PROVE  DBInv'
BY CallEnds DEF ReturnFromDB, RestartClient

-----------------------------------------------------------------------------
(***************************************************************************)
(* A group is executed on its server.                                      *)
(***************************************************************************)

\* A partition is created at its location only.
LEMMA PartitionIsCreated ==
    ASSUME DBTypeOK, PartitionsInv, NEW p \in Partitions, UNCHANGED servers,
           \/ collections' = collections
           \/ collections' = [collections EXCEPT ![Location(p)] = @ \cup {p}]
    PROVE  /\ collections' \in [AllServers -> SUBSET Partitions]
           /\ PartitionsInv'
           /\ \A q \in Partitions : Location(q)' = Location(q)
           /\ \A s \in AllServers : collections[s] \subseteq collections'[s]
<1> DEFINE l == Location(p)
<1>1. /\ l \in 1 .. servers /\ l \in AllServers
      /\ \A s \in AllServers : p \in collections[s] => l = s
  BY LocationIsServer, DBClientAssumption DEF DBTypeOK, AllServers
<1>2. CASE collections' = collections
  BY <1>2 DEF DBTypeOK, PartitionsInv, Location, Holders, AssignedServer
<1>3. CASE collections' = [collections EXCEPT ![l] = @ \cup {p}]
  <2> HIDE DEF l
  <2>1. collections \in [AllServers -> SUBSET Partitions] BY DEF DBTypeOK
  <2>2. /\ collections' \in [AllServers -> SUBSET Partitions]
        /\ \A s \in AllServers : collections[s] \subseteq collections'[s]
        /\ \A s \in AllServers, q \in Partitions :
              q \in collections'[s] <=> q \in collections[s] \/ (s = l /\ q = p)
    BY <1>1, <1>3, <2>1
  <2>3. PartitionsInv'
    BY <1>1, <2>2 DEF PartitionsInv, AllServers
  <2>4. \A s \in 1 .. servers : s \in AllServers
    BY DBClientAssumption DEF DBTypeOK, AllServers
  <2>5. ASSUME NEW q \in Partitions PROVE Location(q)' = Location(q)
    <3>1. CASE q # p
      <4>1. Holders(q)' = Holders(q) BY <2>2, <2>4, <3>1 DEF Holders
      <4> QED BY <4>1 DEF Location, AssignedServer
    <3>2. CASE q = p
      <4>1. Holders(p)' = {l} BY <1>1, <2>2, <2>4 DEF Holders
      <4>2. Min({l}) = l BY <1>1 DEF Min
      <4>3. Location(p)' = l BY <4>1, <4>2 DEF Location
      <4> QED BY <3>2, <4>3 DEF l
    <3> QED BY <3>1, <3>2
  <2> QED BY <2>2, <2>3, <2>5
<1> QED BY <1>2, <1>3

\* What a call finds of its group, and what it leaves on the server.
LEMMA GroupExecuted ==
    ASSUME DBTypeOK, NEW c \in Clients, Busy(c), NEW there \in SUBSET Docs,
           NEW group \in SUBSET Indices(c)
    PROVE  /\ After(c, group, there) \in SUBSET Docs
           /\ \A doc \in After(c, group, there) :
                 doc \in there \/ (op[c].request.kind \in {"insert", "upsert"}
                                   /\ \E j \in group : doc = DocAt(c, j))
           /\ \A doc \in there : \/ doc \in After(c, group, there)
                                 \/ op[c].request.kind = "remove"
                                    /\ \E j \in group : doc = DocAt(c, j)
           /\ \A j \in group :
                 /\ Outcome(c, group, there)[j] \in Outcomes
                 /\ op[c].request.kind \in {"insert", "upsert"} =>
                       (Outcome(c, group, there)[j] = "ok"
                          => DocAt(c, j) \in After(c, group, there))
                 /\ IsRead(op[c]) =>
                       /\ Outcome(c, group, there)[j] \notin {"ok", "conflict"}
                       /\ Outcome(c, group, there)[j] = "missing" => DocAt(c, j) \notin there
                       /\ Outcome(c, group, there)[j] = "found" => DocAt(c, j) \in there
<1> DEFINE kind == op[c].request.kind
           written == Inserted(c, group, there)
<1>1. kind \in Kinds /\ (\A j \in group : DocAt(c, j) \in Docs)
  BY DocsHavePartitions DEF Request
<1>2. written \subseteq group BY DEF Inserted
<1>3. CASE kind \in {"get", "scan"}
  BY <1>1, <1>3 DEF After, Outcome, Outcomes, IsRead
<1>4. CASE kind = "insert"
  <2> HIDE DEF written
  <2>1. After(c, group, there) = there \cup DocsAt(c, written)
    BY <1>4 DEF After, written
  <2>2. \A j \in group :
           Outcome(c, group, there)[j] = IF written = group THEN "ok" ELSE "conflict"
    BY <1>4 DEF Outcome, written
  <2> QED BY <1>1, <1>2, <1>4, <2>1, <2>2 DEF DocsAt, Outcomes, IsRead
<1>5. CASE kind = "upsert"
  BY <1>1, <1>5 DEF After, Outcome, Outcomes, IsRead, DocsAt
<1>6. CASE kind = "remove"
  BY <1>1, <1>6 DEF After, Outcome, Outcomes, IsRead, DocsAt
<1> QED BY <1>1, <1>3, <1>4, <1>5, <1>6 DEF Kinds

\* A request is executed by the server where its documents are.
LEMMA ExecuteKeeps ==
    ASSUME DBInv, NEW c \in Clients, Busy(c), NEW i \in Indices(c), Execute(c, i)
    PROVE  DBInv'
<1> USE DEF DBInv
<1> DEFINE u == op[c]
           s == u.server[i]
           p == PartitionOf(DocAt(c, i))
           group == DocGroup(c, i)
           there == stored[s]
           after == After(c, group, there)
           outcome == Outcome(c, group, there)
           kind == u.request.kind
<1>1. /\ u \in CallOf(u) /\ u.request \in Request /\ Indices(c) = DOMAIN u.request.docs
      /\ \A j \in Indices(c) : DocAt(c, j) \in Docs /\ PartitionOf(DocAt(c, j)) \in Partitions
      /\ Indices(c) \subseteq Int
  <2>1. Indices(c) \subseteq Int BY DocsHavePartitions, CallDocs
  <2> QED BY <2>1, DocsHavePartitions
<1>2. u.at = "execute" BY DEF Execute, IsNextGroup
<1>3. CallInv(u) BY DEF CallsInv
<1>4. s = Location(p) BY <1>1, <1>2, <1>3 DEF CallInv, Execute, DocAt
<1>5. s \in AllServers
  BY <1>1, <1>4, LocationIsServer, DBClientAssumption DEF DBTypeOK, AllServers
<1>6. UNCHANGED <<servers, known, acked>> BY DEF Execute
<1>7. stored' = [stored EXCEPT ![s] = after] BY <1>5 DEF Execute, DBTypeOK
<1>8. \/ collections' = collections /\ ~(kind \in {"insert", "upsert"})
      \/ collections' = [collections EXCEPT ![s] = @ \cup {p}]
  <2>1. CASE kind \in {"insert", "upsert"} BY <2>1 DEF Execute
  <2>2. CASE ~(kind \in {"insert", "upsert"})
    BY <1>5, <2>2 DEF Execute, DBTypeOK
  <2> QED BY <2>1, <2>2
<1>9. /\ group \in SUBSET Indices(c)
      /\ \A j \in group : PartitionOf(DocAt(c, j)) = p /\ DocAt(c, j) \in Docs
  BY <1>1 DEF DocGroup
<1>33. there \in SUBSET Docs BY <1>5 DEF DBTypeOK
<1>14. /\ after \in SUBSET Docs
       /\ \A doc \in after :
             doc \in there \/ (kind \in {"insert", "upsert"}
                                   /\ \E j \in group : doc = DocAt(c, j))
       /\ \A doc \in there :
             doc \in after \/ (kind = "remove" /\ \E j \in group : doc = DocAt(c, j))
       /\ \A j \in group :
             /\ outcome[j] \in Outcomes
             /\ kind \in {"insert", "upsert"} => (outcome[j] = "ok" => DocAt(c, j) \in after)
             /\ IsRead(u) => /\ outcome[j] \notin {"ok", "conflict"}
                             /\ outcome[j] = "missing" => DocAt(c, j) \notin there
                             /\ outcome[j] = "found" => DocAt(c, j) \in there
  <2> HIDE DEF DBInv, group, there
  <2>1. DBTypeOK BY DEF DBInv
  <2> QED BY <1>9, <1>33, <2>1, GroupExecuted
<1>10. \E rows \in SUBSET (Int \X Outcomes) :
          /\ op' = [op EXCEPT ![c] = [u EXCEPT !.rows = u.rows \cup rows]]
          /\ \A row \in rows : row[1] \in group /\ row[2] \in {outcome[row[1]], "error"}
  <2> DEFINE found == {<<j, outcome[j]>> : j \in group}
             errors == {<<j, "error">> : j \in group}
  <2>2. found \in SUBSET (Int \X Outcomes) BY <1>1, <1>9, <1>14
  <2>3. errors \in SUBSET (Int \X Outcomes)
    BY <1>9, ErrorsAreRows
  <2>5. \A row \in found : row[1] \in group /\ row[2] = outcome[row[1]] OBVIOUS
  <2>6. \A row \in errors : row[1] \in group /\ row[2] = "error" OBVIOUS
  <2>4. Answers(c, found) \/ Answers(c, errors) BY DEF Execute
  <2> HIDE DEF found, errors
  <2>7. CASE Answers(c, found) BY <2>2, <2>5, <2>7 DEF Answers
  <2>8. CASE Answers(c, errors) BY <2>3, <2>6, <2>8 DEF Answers
  <2> QED BY <2>4, <2>7, <2>8
<1>11. PICK rows \in SUBSET (Int \X Outcomes) :
          /\ op' = [op EXCEPT ![c] = [u EXCEPT !.rows = u.rows \cup rows]]
          /\ \A row \in rows : row[1] \in group /\ row[2] \in {outcome[row[1]], "error"}
  BY <1>10
<1> DEFINE o == [u EXCEPT !.rows = u.rows \cup rows]
<1>12. o = [u EXCEPT !.rows = u.rows \cup rows] OBVIOUS
<1>13. /\ o \in CallOf(o) /\ o.at = u.at /\ o.server = u.server
       /\ o.request = u.request /\ o.contested = u.contested
       /\ o.before = u.before /\ o.rows = u.rows \cup rows /\ o.answers = u.answers
       /\ o.skip = u.skip /\ o.read = u.read
  <2> HIDE DEF u, o
  <2>1. u \in CallOf(u) /\ rows \in SUBSET (Int \X Outcomes) BY <1>1
  <2> QED BY <1>12, <2>1, RowsAdded
<1>15. op' = [op EXCEPT ![c] = o] BY <1>11
<1>16. op'[c] = o /\ \A d \in Clients \ {c} : op'[d] = op[d] BY <1>15 DEF DBTypeOK
<1>17. o # Idle BY <1>13, CallIsBusy
<1>18. \A doc \in Docs : Removing(doc)' <=> Removing(doc)
  <2>1. \A d \in Clients : Busy(d)' <=> Busy(d)
    BY <1>16, <1>17 DEF Busy
  <2>2. \A d \in Clients : op'[d].request = op[d].request BY <1>13, <1>16
  <2> QED BY <2>1, <2>2 DEF Removing, Indices, DocAt
<1> HIDE DEF after, outcome, group, o
<1>19. /\ collections' \in [AllServers -> SUBSET Partitions]
       /\ PartitionsInv'
       /\ \A q \in Partitions : Location(q)' = Location(q)
       /\ \A t \in AllServers : collections[t] \subseteq collections'[t]
  <2>1. p \in Partitions BY <1>1
  <2> QED BY <1>4, <1>6, <1>8, <2>1, PartitionIsCreated
<1>20. stored' \in [AllServers -> SUBSET Docs] /\ stored'[s] = after
       /\ \A t \in AllServers \ {s} : stored'[t] = stored[t]
  BY <1>5, <1>7, <1>14 DEF DBTypeOK
<1>21. DBTypeOK'
  <2>1. op' \in [Clients -> {op'[d] : d \in Clients}] BY <1>15 DEF DBTypeOK
  <2>2. \A d \in Clients : Busy(d)' => op'[d] \in CallOf(op'[d])
    BY <1>13, <1>16 DEF Busy, DBTypeOK
  <2> QED BY <1>6, <1>19, <1>20, <2>1, <2>2 DEF DBTypeOK, AllServers, CallOf
<1>22. StoredInv'
  <2>1. ASSUME NEW t \in AllServers, NEW doc \in stored'[t]
        PROVE  PartitionOf(doc) \in collections'[t]
    <3>1. CASE doc \in stored[t] BY <1>19, <3>1 DEF StoredInv
    <3>2. CASE doc \notin stored[t]
      <4>1. t = s /\ kind \in {"insert", "upsert"} /\ PartitionOf(doc) = p
        BY <1>9, <1>14, <1>20, <2>1, <3>2
      <4>2. collections' = [collections EXCEPT ![s] = @ \cup {p}] BY <1>8, <4>1
      <4> QED BY <1>5, <4>1, <4>2 DEF DBTypeOK
    <3> QED BY <3>1, <3>2
  <2> QED BY <2>1 DEF StoredInv
<1>23. KnownInv' BY <1>6, <1>19 DEF KnownInv
<1>24. \A doc \in Docs : PartitionOf(doc) \in Partitions /\ Location(PartitionOf(doc)) \in AllServers
  <2>1. \A doc \in Docs : PartitionOf(doc) \in Partitions BY DEF Partitions
  <2> QED BY <2>1, LocationIsServer, DBClientAssumption DEF DBTypeOK, AllServers
<1>25. \A doc \in Docs : IsStored(doc)' <=> doc \in stored'[Location(PartitionOf(doc))]
  BY <1>19, <1>24 DEF IsStored
<1>26. ASSUME NEW doc \in Docs, IsStored(doc), ~Removing(doc)
       PROVE  IsStored(doc)'
  <2>1. CASE Location(PartitionOf(doc)) # s
    BY <1>20, <1>24, <1>25, <1>26, <2>1 DEF IsStored
  <2>2. CASE Location(PartitionOf(doc)) = s
    <3>1. ~(kind = "remove" /\ \E j \in group : doc = DocAt(c, j))
      BY <1>9, <1>26 DEF Removing
    <3> QED BY <1>14, <1>20, <1>25, <1>26, <2>2, <3>1 DEF IsStored
  <2> QED BY <2>1, <2>2
<1>27. AckedInv'
  <2>1. \A doc \in acked : doc \in Docs /\ IsStored(doc) /\ ~Removing(doc)
    BY DEF AckedInv, RemovalInv, DBTypeOK
  <2> QED BY <1>6, <1>26, <2>1 DEF AckedInv
<1>28. RemovalInv'
  BY <1>6, <1>13, <1>16, <1>18 DEF RemovalInv, Busy, IsPut
<1>29. ASSUME NEW d \in Clients, Busy(d), IsPut(op[d]), NEW j \in DOMAIN op[d].request.docs,
              <<j, "ok">> \in op[d].rows, NEW doc, doc = op[d].request.docs[j]
       PROVE  IsStored(doc)' \/ doc \in op[d].contested
  <2>1. doc \in Docs /\ doc \in ToSet(op[d].request.docs)
    BY <1>29, DocsHavePartitions, CallDocs
  <2>2. IsStored(doc) \/ doc \in op[d].contested BY <1>29 DEF CallsInv, CallInv
  <2>3. Removing(doc) => doc \in op[d].contested BY <1>29, <2>1 DEF RemovalInv
  <2> QED BY <1>26, <2>1, <2>2, <2>3
<1>30. ASSUME NEW d \in Clients \ {c}, Busy(d), NEW v, v = op[d] PROVE CallInv(v)'
  <2>1. CallInv(v) BY <1>30 DEF CallsInv
  <2>2. \A j \in DOMAIN v.request.docs : PartitionOf(v.request.docs[j]) \in Partitions
    BY <1>30, DocsHavePartitions DEF DocAt, Indices
  <2>4. \A j \in DOMAIN v.request.docs : IsPut(v) /\ <<j, "ok">> \in v.rows =>
           IsStored(v.request.docs[j])' \/ v.request.docs[j] \in v.contested
    BY <1>29, <1>30
  <2> QED BY <1>6, <1>19, <2>1, <2>2, <2>4 DEF CallInv
<1>31. ASSUME NEW v, v = o PROVE CallInv(v)'
  <2>1. CallInv(u) BY DEF CallsInv
  <2>2. /\ v.at = u.at /\ v.server = u.server /\ v.request = u.request
        /\ v.contested = u.contested /\ v.before = u.before /\ v.answers = u.answers
        /\ v.rows = u.rows \cup rows
    BY <1>13, <1>31
  <2>3. \A j \in DOMAIN u.request.docs :
           /\ PartitionOf(u.request.docs[j]) \in Partitions
           /\ DocAt(c, j) = u.request.docs[j]
    BY <1>1 DEF DocAt
  <2>4. \A j \in DOMAIN v.request.docs :
           /\ v.server[j] \in {Unresolved, ErrorDB, Location(PartitionOf(v.request.docs[j]))'}
           /\ v.at = "execute" => v.server[j] # Unresolved
    BY <1>19, <2>1, <2>2, <2>3 DEF CallInv
  <2>5. ASSUME NEW j \in group, IsPut(u), outcome[j] = "ok"
        PROVE  IsStored(v.request.docs[j])'
    <3>1. kind \in {"insert", "upsert"} /\ j \in DOMAIN u.request.docs
      BY <1>1, <1>9, <2>5 DEF IsPut
    <3>2. /\ DocAt(c, j) \in after /\ PartitionOf(DocAt(c, j)) = p
          /\ DocAt(c, j) \in Docs /\ DocAt(c, j) = v.request.docs[j]
      BY <1>9, <1>14, <2>2, <2>3, <2>5, <3>1
    <3>3. v.request.docs[j] \in stored'[Location(PartitionOf(v.request.docs[j]))]
      BY <1>4, <1>20, <3>2
    <3> QED BY <1>25, <3>2, <3>3
  <2>6. ASSUME NEW j \in DOMAIN v.request.docs, IsPut(v), <<j, "ok">> \in v.rows
        PROVE  IsStored(v.request.docs[j])' \/ v.request.docs[j] \in v.contested
    <3>1. IsPut(u) BY <2>2, <2>6 DEF IsPut
    <3>2. CASE <<j, "ok">> \in u.rows BY <1>29, <2>2, <3>1, <3>2
    <3>3. CASE <<j, "ok">> \in rows
      <4>1. j \in group /\ outcome[j] = "ok" BY <1>11, <3>3
      <4> QED BY <2>5, <3>1, <4>1
    <3> QED BY <2>2, <2>6, <3>2, <3>3
  <2>7. ASSUME IsRead(v), NEW j \in DOMAIN v.request.docs
        PROVE  /\ <<j, "missing">> \in v.rows => v.request.docs[j] \notin v.before
               /\ <<j, "ok">> \notin v.rows
    <3>1. IsRead(u) /\ u.before \subseteq acked BY <2>1, <2>2, <2>7 DEF IsRead, CallInv
    <3>2. /\ <<j, "missing">> \in u.rows => v.request.docs[j] \notin v.before
          /\ <<j, "ok">> \notin u.rows
      BY <2>1, <2>2, <2>7, <3>1 DEF CallInv
    <3>3. <<j, "ok">> \notin rows
      <4>1. ~(j \in group /\ outcome[j] = "ok") BY <1>14, <3>1
      <4> QED BY <1>11, <4>1
    <3>4. ASSUME <<j, "missing">> \in rows PROVE v.request.docs[j] \notin v.before
      <4>1. j \in group /\ outcome[j] = "missing" BY <1>11, <3>4
      <4>2. DocAt(c, j) \notin there /\ PartitionOf(DocAt(c, j)) = p BY <1>9, <1>14, <3>1, <4>1
      <4>3. ~IsStored(DocAt(c, j)) BY <1>4, <4>2 DEF IsStored
      <4>4. DocAt(c, j) \notin acked BY <4>3 DEF AckedInv
      <4> QED BY <2>2, <2>3, <2>7, <3>1, <4>4
    <3> QED BY <2>2, <3>2, <3>3, <3>4
  <2>8. IsRead(v) => v.before \subseteq acked' BY <1>6, <2>1, <2>2 DEF CallInv, IsRead
  <2>9. v.request.kind = "get" =>
           \A j \in DOMAIN v.answers :
              v.answers[j] = "missing" => v.request.docs[j] \notin v.before
    BY <2>1, <2>2 DEF CallInv
  <2>10. ~IsRead(v) => v.before = {} BY <2>1, <2>2 DEF CallInv, IsRead
  <2> QED BY <2>4, <2>6, <2>7, <2>8, <2>9, <2>10 DEF CallInv
<1>32. CallsInv' BY <1>16, <1>30, <1>31 DEF CallsInv, Busy
<1>34. ASSUME NEW d \in Clients \ {c}, Busy(d), NEW v, v = op[d] PROVE ScanInv(v)'
  <2>1. ScanInv(v) BY <1>34 DEF ScansInv
  <2>2. v.request \in Request /\ \A j \in DOMAIN v.request.docs : v.request.docs[j] \in Docs
    BY <1>34, DocsHavePartitions DEF DocAt, Indices
  <2>3. v.request.kind = "scan" =>
           /\ \A j \in DOMAIN v.request.docs : <<j, "conflict">> \notin v.rows
           /\ \A j \in DOMAIN v.answers :
                 v.answers[j] = "missing" => v.request.docs[j] \notin v.before
           /\ v.before # {} =>
                 \A j \in DOMAIN v.request.docs :
                    /\ ~Removing(v.request.docs[j])'
                    /\ IsStored(v.request.docs[j]) => IsStored(v.request.docs[j])'
    BY <1>18, <1>26, <2>1, <2>2 DEF ScanInv
  <2> QED BY <2>1, <2>2, <2>3, ScanMoves
<1>35. ASSUME NEW v, v = o PROVE ScanInv(v)'
  <2>1. ScanInv(u) BY DEF ScansInv
  <2>2. /\ v.request = u.request /\ v.before = u.before /\ v.answers = u.answers
        /\ v.skip = u.skip /\ v.read = u.read /\ v.rows = u.rows \cup rows
    BY <1>13, <1>35
  <2>3. \A j \in DOMAIN u.request.docs : DocAt(c, j) = u.request.docs[j] /\ DocAt(c, j) \in Docs
    BY <1>1 DEF DocAt
  <2>4. ASSUME u.request.kind = "scan", NEW j \in DOMAIN u.request.docs, NEW doc,
               doc = u.request.docs[j]
        PROVE  /\ <<j, "conflict">> \notin v.rows
               /\ u.before # {} =>
                     /\ ~Removing(doc)' /\ (IsStored(doc) => IsStored(doc)')
                     /\ <<j, "found">> \in v.rows => <<j, "found">> \in u.rows \/ IsStored(doc)'
                     /\ <<j, "missing">> \in v.rows => <<j, "missing">> \in u.rows \/ ~IsStored(doc)
    <3>1. IsRead(u) /\ doc \in Docs /\ DocAt(c, j) = doc BY <2>3, <2>4 DEF IsRead
    <3>2. <<j, "conflict">> \notin u.rows BY <2>1, <2>4 DEF ScanInv
    <3>3. u.before # {} => ~Removing(doc) BY <2>1, <2>4 DEF ScanInv
    <3>4. <<j, "conflict">> \notin rows
      <4>1. ~(j \in group /\ outcome[j] = "conflict") BY <1>14, <3>1
      <4> QED BY <1>11, <4>1
    <3>5. IsStored(doc) <=> doc \in stored[Location(PartitionOf(doc))] BY DEF IsStored
    <3>6. ASSUME <<j, "found">> \in rows PROVE IsStored(doc)
      <4>1. j \in group /\ outcome[j] = "found" BY <1>11, <3>6
      <4>2. doc \in there /\ PartitionOf(doc) = p BY <1>9, <1>14, <3>1, <4>1
      <4> QED BY <1>4, <3>5, <4>2
    <3>7. ASSUME <<j, "missing">> \in rows PROVE ~IsStored(doc)
      <4>1. j \in group /\ outcome[j] = "missing" BY <1>11, <3>7
      <4>2. doc \notin there /\ PartitionOf(doc) = p BY <1>9, <1>14, <3>1, <4>1
      <4> QED BY <1>4, <3>5, <4>2
    <3>8. u.before # {} => (IsStored(doc) => IsStored(doc)') BY <1>26, <3>1, <3>3
    <3> QED BY <1>18, <2>2, <3>1, <3>2, <3>3, <3>4, <3>6, <3>7, <3>8
  <2>5. u.request.kind = "scan" =>
           \A j \in DOMAIN u.answers : u.answers[j] = "missing" => u.request.docs[j] \notin u.before
    BY <2>1 DEF ScanInv
  <2> HIDE DEF u
  <2>6. u.request \in Request BY <1>1
  <2> QED BY <2>1, <2>2, <2>4, <2>5, <2>6, ScanMoves
<1>36. ScansInv' BY <1>16, <1>34, <1>35 DEF ScansInv, Busy
<1> QED BY <1>19, <1>21, <1>22, <1>23, <1>27, <1>28, <1>32, <1>36

-----------------------------------------------------------------------------
(***************************************************************************)
(* A call is answered.                                                     *)
(***************************************************************************)

\* An answer that is neither an error nor a conflict is the row of its document.
LEMMA AnswersAreRows ==
    ASSUME DBTypeOK, NEW c \in Clients, Busy(c), \A i \in Indices(c) : Executed(c, i),
           NEW i \in Indices(c), RowsOf(c)[i] \notin {"error", "conflict"}
    PROVE  <<i, RowsOf(c)[i]>> \in op[c].rows
<1> DEFINE failed == {row \in op[c].rows : row[2] \in {"error", "conflict"}}
<1>1. op[c].rows \in SUBSET (Int \X Outcomes) BY DocsHavePartitions DEF CallOf
<1>2. CASE op[c].request.bulk /\ failed # {}
  <2>1. PICK row \in failed : row = CHOOSE r \in failed : TRUE BY <1>2
  <2>2. row[2] \in {"error", "conflict"} OBVIOUS
  <2>3. RowsOf(c) = EveryRow(c, row[2]) BY <1>2, <2>1 DEF RowsOf
  <2>4. RowsOf(c)[i] = row[2] BY <2>3 DEF EveryRow
  <2> QED BY <2>2, <2>4
<1>3. CASE ~(op[c].request.bulk /\ failed # {})
  <2>1. RowsOf(c) = MergedRows(c) BY <1>3 DEF RowsOf
  <2>2. PICK row \in op[c].rows : row[1] = i /\ row = CHOOSE r \in op[c].rows : r[1] = i
    <3>1. \E row \in op[c].rows : row[1] = i BY DEF Executed
    <3> QED BY <3>1
  <2>3. RowsOf(c)[i] = row[2] BY <2>1, <2>2 DEF MergedRows
  <2>4. row = <<row[1], row[2]>> BY <1>1
  <2> QED BY <2>2, <2>3, <2>4
<1> QED BY <1>2, <1>3

\* The rows are put in the order of the documents; what was put is acknowledged.
LEMMA AnswerDBKeeps ==
    ASSUME DBInv, NEW c \in Clients, AnswerDB(c)
    PROVE  DBInv'
<1> USE DEF DBInv
<1> DEFINE u == op[c]
           answers == RowsOf(c)
           puts == {DocAt(c, i) : i \in {j \in Indices(c) :
                      answers[j] = "ok" /\ u.request.kind # "remove"}}
           o == [u EXCEPT !.at = "answered", !.answers = answers, !.rows = {}, !.contested = {}]
<1>1. u.at = "execute" /\ \A i \in Indices(c) : Executed(c, i) BY DEF AnswerDB
<1>2. Busy(c)
  <2>1. Idle.at = "idle" BY DEF Idle
  <2> QED BY <1>1, <2>1 DEF Busy
<1>3. op' = [op EXCEPT ![c] = o] /\ acked' = acked \cup (puts \ u.contested)
      /\ UNCHANGED <<servers, collections, stored, known>>
  BY DEF AnswerDB
<1>4. /\ u \in CallOf(u) /\ u.request \in Request /\ Indices(c) = DOMAIN u.request.docs
      /\ \A i \in Indices(c) : DocAt(c, i) \in Docs /\ PartitionOf(DocAt(c, i)) \in Partitions
  BY <1>2, DocsHavePartitions
<1>5. CallInv(u) BY <1>2 DEF CallsInv
<1>6. \A i \in Indices(c) : answers[i] \in {"ok", "missing"} => <<i, answers[i]>> \in u.rows
  BY <1>1, <1>2, AnswersAreRows
<1>7. DOMAIN answers = Indices(c)
  BY DEF RowsOf, EveryRow, MergedRows
<1>8. ASSUME NEW doc \in puts \ u.contested
      PROVE  doc \in Docs /\ IsStored(doc) /\ ~Removing(doc)
  <2>1. PICK i \in Indices(c) : doc = DocAt(c, i) /\ answers[i] = "ok" /\ u.request.kind # "remove"
    OBVIOUS
  <2>2. <<i, "ok">> \in u.rows BY <1>6, <2>1
  <2>3. ~IsRead(u) /\ u.request.kind \in Kinds BY <1>4, <1>5, <2>2 DEF CallInv, Request
  <2>4. IsPut(u) BY <1>1, <2>1, <2>3 DEF IsPut, IsRead, Kinds
  <2>5. IsStored(doc) BY <1>4, <1>5, <2>1, <2>2, <2>4 DEF CallInv, DocAt
  <2>6. doc \in ToSet(u.request.docs) BY <1>4, <2>1, CallDocs DEF DocAt
  <2> QED BY <1>2, <1>4, <2>1, <2>4, <2>5, <2>6 DEF RemovalInv
<1>9. \A i \in Indices(c) : u.request.kind \in {"get", "scan"} /\ answers[i] = "missing" =>
         u.request.docs[i] \notin u.before
  BY <1>4, <1>5, <1>6 DEF CallInv, IsRead
<1> HIDE DEF answers, puts
<1>10. /\ o \in CallOf(o) /\ o.at = "answered" /\ o.server = u.server /\ o.request = u.request
       /\ o.before = u.before /\ o.rows = {} /\ o.answers = answers
       /\ o.skip = u.skip /\ o.read = u.read
  BY <1>4 DEF CallOf
<1>11. op'[c] = o /\ (\A d \in Clients \ {c} : op'[d] = op[d])
       /\ op' \in [Clients -> {op'[d] : d \in Clients}]
  BY <1>3 DEF DBTypeOK
<1>12. o # Idle BY <1>10, CallIsBusy
<1> HIDE DEF o
<1>13. \A doc \in acked' : doc \in Docs /\ IsStored(doc) /\ ~Removing(doc)
  <2>1. \A doc \in acked : doc \in Docs /\ IsStored(doc) /\ ~Removing(doc)
    BY DEF AckedInv, RemovalInv, DBTypeOK
  <2> QED BY <1>3, <1>8, <2>1
<1>14. DBTypeOK'
  <2>1. \A d \in Clients : Busy(d)' => op'[d] \in CallOf(op'[d])
    BY <1>10, <1>11 DEF Busy, DBTypeOK
  <2> QED BY <1>3, <1>11, <1>13, <2>1 DEF DBTypeOK, AllServers, CallOf
<1>15. PartitionsInv' /\ StoredInv' BY <1>3 DEF PartitionsInv, StoredInv
<1>16. \A q : Location(q)' = Location(q)
  BY <1>3 DEF Location, Holders, AssignedServer
<1>17. KnownInv' BY <1>3, <1>16 DEF KnownInv
<1>18. \A doc : IsStored(doc)' <=> IsStored(doc) BY <1>3, <1>16 DEF IsStored
<1>19. AckedInv' BY <1>13, <1>18 DEF AckedInv
<1>20. \A doc \in Docs : Removing(doc)' => Removing(doc)
  BY <1>2, <1>10, <1>11 DEF Removing, Busy, Indices, DocAt
<1>21. RemovalInv'
  <2>1. ~IsPut(op'[c]) BY <1>10, <1>11 DEF IsPut
  <2> QED BY <1>11, <1>13, <1>20, <2>1 DEF RemovalInv, Busy
<1>22. ASSUME NEW d \in Clients, Busy(d)', NEW v, v = op'[d]
       PROVE  CallInv(v)'
  <2>1. CASE d # c
    <3>1. CallInv(v) BY <1>11, <1>22, <2>1 DEF CallsInv, Busy
    <3> QED BY <1>3, <1>16, <1>18, <3>1 DEF CallInv
  <2>2. CASE d = c
    <3>1. v = o BY <1>11, <1>22, <2>2
    <3> QED BY <1>3, <1>4, <1>5, <1>7, <1>9, <1>10, <1>16, <3>1 DEF CallInv, IsPut, IsRead
  <2> QED BY <2>1, <2>2
<1>23. CallsInv' BY <1>22 DEF CallsInv
<1>24. ASSUME NEW d \in Clients, Busy(d), NEW w, w = op[d], NEW v, v = op'[d]
       PROVE  ScanInv(v)'
  <2>1. ScanInv(w) /\ w.request \in Request
        /\ \A i \in DOMAIN w.request.docs : w.request.docs[i] \in Docs
    BY <1>24, DocsHavePartitions DEF ScansInv, DocAt, Indices
  <2>2. /\ v.request = w.request /\ v.skip = w.skip /\ v.read = w.read /\ v.before = w.before
        /\ v.rows = {} \/ v.rows = w.rows
    BY <1>10, <1>11, <1>24
  <2>3. w.request.kind = "scan" =>
           \A i \in DOMAIN v.answers : v.answers[i] = "missing" => w.request.docs[i] \notin w.before
    <3>1. CASE d = c BY <1>7, <1>9, <1>10, <1>11, <1>24, <3>1
    <3>2. CASE d # c BY <1>11, <1>24, <2>1, <3>2 DEF ScanInv
    <3> QED BY <3>1, <3>2
  <2>4. w.request.kind = "scan" =>
           /\ \A i \in DOMAIN w.request.docs : <<i, "conflict">> \notin v.rows
           /\ w.before # {} => \A i \in DOMAIN w.request.docs : ~Removing(w.request.docs[i])'
    BY <1>20, <2>1, <2>2 DEF ScanInv
  <2>5. \A i : \A outcome \in {"found", "missing"} :
           <<i, outcome>> \in v.rows => <<i, outcome>> \in w.rows
    BY <2>2
  <2> QED BY <1>18, <2>1, <2>2, <2>3, <2>4, <2>5, ScanMoves
<1>25. ScansInv' BY <1>2, <1>11, <1>24 DEF ScansInv, Busy
<1> QED BY <1>14, <1>15, <1>17, <1>19, <1>21, <1>23, <1>25

-----------------------------------------------------------------------------
(***************************************************************************)
(* A call begins, and what it removes is no longer promised.               *)
(***************************************************************************)

\* A call while other documents begin to be removed.
LEMMA ContestedCall ==
    ASSUME NEW u, u \in CallOf(u), NEW gone \in SUBSET Docs
    PROVE  LET o == Contested(u, gone)
           IN  /\ o \in CallOf(o) /\ o.at = u.at /\ o.request = u.request
               /\ o.server = u.server /\ o.rows = u.rows /\ o.answers = u.answers
               /\ o.skip = u.skip /\ o.read = u.read
               /\ u.request.kind = "scan" =>
                     o.before = {} \/ (gone = {} /\ o.before = u.before)
               /\ IsRead(u) => o.before \subseteq u.before \ gone
               /\ ~IsRead(u) => o.before = u.before
               /\ u.contested \subseteq o.contested
               /\ u.request.kind \in {"insert", "upsert"} =>
                     gone \cap ToSet(u.request.docs) \subseteq o.contested
<1> DEFINE o == Contested(u, gone)
<1>1. u # Idle /\ u.request \in Request BY CallIsBusy
<1>2. u.before \in SUBSET Docs /\ u.contested \in SUBSET Docs /\ u.request.kind \in Kinds
  BY <1>1 DEF CallOf, Request
<1>3. ToSet(u.request.docs) \in SUBSET Docs
  <2> DEFINE docs == u.request.docs
  <2>1. /\ \A i \in DOMAIN docs : docs[i] \in Docs
        /\ ToSet(docs) = {docs[i] : i \in DOMAIN docs}
    BY <1>1, CallDocs
  <2> HIDE DEF docs
  <2> QED BY <2>1 DEF docs
<1>4. CASE u.request.kind = "get"
  <2> DEFINE before == u.before \ gone
  <2>1. o = [u EXCEPT !.before = before] BY <1>1, <1>4 DEF Contested
  <2>2. before \in SUBSET Docs BY <1>2
  <2> HIDE DEF o, before
  <2>3. /\ o \in CallOf(o) /\ o.at = u.at /\ o.request = u.request
        /\ o.server = u.server /\ o.rows = u.rows /\ o.answers = u.answers
        /\ o.before = before /\ o.contested = u.contested
        /\ o.skip = u.skip /\ o.read = u.read
    BY <2>1, <2>2 DEF CallOf
  <2> QED BY <1>4, <2>3 DEF o, before, IsRead
<1>5. CASE u.request.kind = "scan" /\ gone # {}
  <2>1. o = [u EXCEPT !.before = {}] BY <1>1, <1>5 DEF Contested
  <2> HIDE DEF o
  <2>2. /\ o \in CallOf(o) /\ o.at = u.at /\ o.request = u.request
        /\ o.server = u.server /\ o.rows = u.rows /\ o.answers = u.answers
        /\ o.before = {} /\ o.contested = u.contested
        /\ o.skip = u.skip /\ o.read = u.read
    BY <2>1 DEF CallOf
  <2> QED BY <1>5, <2>2 DEF o, IsRead
<1>6. CASE u.request.kind = "remove"
  <2>1. o = u BY <1>1, <1>6 DEF Contested
  <2> QED BY <1>6, <2>1 DEF IsRead
<1>7. CASE \/ u.request.kind = "scan" /\ gone = {}
           \/ u.request.kind \in {"insert", "upsert"}
  <2> DEFINE contested == u.contested \cup (gone \cap ToSet(u.request.docs))
  <2>1. o = [u EXCEPT !.contested = contested] BY <1>1, <1>7 DEF Contested
  <2>2. contested \in SUBSET Docs BY <1>2, <1>3
  <2> HIDE DEF o, contested
  <2>3. /\ o \in CallOf(o) /\ o.at = u.at /\ o.request = u.request
        /\ o.server = u.server /\ o.rows = u.rows /\ o.answers = u.answers
        /\ o.before = u.before /\ o.contested = contested
        /\ o.skip = u.skip /\ o.read = u.read
    BY <2>1, <2>2 DEF CallOf
  <2> QED BY <1>7, <2>3 DEF o, contested, IsRead
<1> QED BY <1>2, <1>4, <1>5, <1>6, <1>7 DEF Kinds

\* A call at its beginning.
LEMMA NewCallIs ==
    ASSUME DBTypeOK, NEW request \in Request
    PROVE  LET o == NewCallDB(request)
           IN  /\ o \in CallOf(o) /\ o.at = "resolve" /\ o.request = request
               /\ (\A i \in DOMAIN request.docs : o.server[i] = Unresolved)
               /\ o.rows = {} /\ DOMAIN o.answers = {}
               /\ o.skip = 0
               /\ IsRead(o) => o.before \subseteq acked
               /\ ~IsRead(o) => o.before = {}
               /\ request.kind = "scan" /\ o.before # {} =>
                     \A doc \in ToSet(request.docs) : ~Removing(doc)
               /\ request.kind \in {"insert", "upsert"} =>
                     \A doc \in ToSet(request.docs) : Removing(doc) => doc \in o.contested
<1> DEFINE o == NewCallDB(request)
           docs == ToSet(request.docs)
           before == IF \/ request.kind = "get"
                        \/ request.kind = "scan" /\ ~\E doc \in docs : Removing(doc)
                     THEN acked \cap docs ELSE {}
           contested == IF request.kind \in {"insert", "upsert"}
                        THEN {doc \in docs : Removing(doc)} ELSE {}
           server == [i \in DOMAIN request.docs |-> Unresolved]
<1>1. docs \in SUBSET Docs BY CallDocs
<1>2. before \in SUBSET Docs /\ before \subseteq acked BY <1>1
<1>3. contested \in SUBSET Docs BY <1>1
<1>4. server \in [DOMAIN request.docs -> Int] BY DEF Unresolved
<1>5. o = [at |-> "resolve", request |-> request, before |-> before, contested |-> contested,
           server |-> server, rows |-> {}, skip |-> 0, read |-> {}, answers |-> <<>>]
  BY DEF NewCallDB
<1>6. request.kind \in {"insert", "upsert"} => \A doc \in docs : Removing(doc) => doc \in contested
  OBVIOUS
<1>7. \A i \in DOMAIN request.docs : server[i] = Unresolved OBVIOUS
<1>9. request.kind = "scan" /\ before # {} => \A doc \in docs : ~Removing(doc) OBVIOUS
<1>10. request.kind \notin {"get", "scan"} => before = {} OBVIOUS
<1> HIDE DEF o, before, contested, server
<1>8. /\ o \in CallOf(o) /\ o.at = "resolve" /\ o.request = request /\ o.server = server
      /\ o.rows = {} /\ o.answers = <<>> /\ o.before = before /\ o.contested = contested
      /\ o.skip = 0
  BY <1>2, <1>3, <1>4, <1>5 DEF CallOf
<1> QED BY <1>2, <1>6, <1>7, <1>8, <1>9, <1>10 DEF o, IsRead

\* A call begins; one that removes documents takes back what was promised of them.
LEMMA CallDBKeeps ==
    ASSUME DBInv, NEW c \in Clients, NEW request \in Requests[c], CallDB(c, request)
    PROVE  DBInv'
<1> USE DEF DBInv
<1> DEFINE gone == IF request.kind = "remove" THEN ToSet(request.docs) ELSE {}
           new == NewCallDB(request)
<1>1. request \in Request BY DBClientAssumption
<1>2. /\ op' = [d \in Clients |-> IF d = c THEN new ELSE Contested(op[d], gone)]
      /\ acked' = acked \ gone /\ ~Busy(c)
      /\ UNCHANGED <<servers, collections, stored, known>>
  BY DEF CallDB
<1>3. /\ new \in CallOf(new) /\ new.at = "resolve" /\ new.request = request
      /\ (\A i \in DOMAIN request.docs : new.server[i] = Unresolved)
      /\ new.rows = {} /\ DOMAIN new.answers = {}
      /\ new.skip = 0
      /\ IsRead(new) => new.before \subseteq acked
      /\ ~IsRead(new) => new.before = {}
      /\ request.kind = "scan" /\ new.before # {} =>
            \A doc \in ToSet(request.docs) : ~Removing(doc)
      /\ request.kind \in {"insert", "upsert"} =>
            \A doc \in ToSet(request.docs) : Removing(doc) => doc \in new.contested
  BY <1>1, NewCallIs
<1>4. gone \in SUBSET Docs /\ (request.kind # "remove" => gone = {})
      /\ (request.kind = "remove" => gone = {request.docs[i] : i \in DOMAIN request.docs})
  <2> DEFINE docs == request.docs
  <2>1. /\ \A i \in DOMAIN docs : docs[i] \in Docs
        /\ ToSet(docs) = {docs[i] : i \in DOMAIN docs}
    BY <1>1, CallDocs
  <2> HIDE DEF DBInv, docs
  <2>2. ToSet(docs) \in SUBSET Docs BY <2>1
  <2> QED BY <2>1, <2>2 DEF docs
<1> HIDE DEF gone, new
<1>5. ASSUME NEW d \in Clients \ {c}, Busy(d), NEW u, u = op[d], NEW o, o = op'[d]
      PROVE  /\ o # Idle /\ o \in CallOf(o) /\ o.at = u.at /\ o.request = u.request
             /\ o.server = u.server /\ o.rows = u.rows /\ o.answers = u.answers
             /\ o.skip = u.skip /\ o.read = u.read
             /\ u.request.kind = "scan" => o.before = {} \/ (gone = {} /\ o.before = u.before)
             /\ IsRead(u) => o.before \subseteq u.before \ gone
             /\ ~IsRead(u) => o.before = u.before
             /\ u.contested \subseteq o.contested
             /\ u.request.kind \in {"insert", "upsert"} =>
                   gone \cap ToSet(u.request.docs) \subseteq o.contested
  <2>1. u \in CallOf(u) BY <1>5, DocsHavePartitions
  <2>2. o = Contested(u, gone) BY <1>2, <1>5
  <2>3. /\ o \in CallOf(o) /\ o.at = u.at /\ o.request = u.request
        /\ o.server = u.server /\ o.rows = u.rows /\ o.answers = u.answers
        /\ o.skip = u.skip /\ o.read = u.read
        /\ u.request.kind = "scan" => o.before = {} \/ (gone = {} /\ o.before = u.before)
        /\ IsRead(u) => o.before \subseteq u.before \ gone
        /\ ~IsRead(u) => o.before = u.before
        /\ u.contested \subseteq o.contested
        /\ u.request.kind \in {"insert", "upsert"} =>
              gone \cap ToSet(u.request.docs) \subseteq o.contested
    BY <1>4, <2>1, <2>2, ContestedCall
  <2>4. o # Idle BY <2>3, CallIsBusy
  <2> QED BY <2>3, <2>4
<1>6. \A d \in Clients \ {c} : Busy(d)' => Busy(d) BY <1>2 DEF Busy, Contested
<1>7. op'[c] = new /\ new # Idle /\ op' \in [Clients -> {op'[d] : d \in Clients}]
  BY <1>2, <1>3, CallIsBusy
<1>8. DBTypeOK'
  <2>1. \A d \in Clients : Busy(d)' => op'[d] \in CallOf(op'[d])
    BY <1>3, <1>5, <1>6, <1>7
  <2>2. acked' \in SUBSET Docs BY <1>2 DEF DBTypeOK
  <2> QED BY <1>2, <1>7, <2>1, <2>2 DEF DBTypeOK, AllServers, CallOf
<1>9. PartitionsInv' /\ StoredInv' BY <1>2 DEF PartitionsInv, StoredInv
<1>10. \A q : Location(q)' = Location(q)
  BY <1>2 DEF Location, Holders, AssignedServer
<1>11. KnownInv' BY <1>2, <1>10 DEF KnownInv
<1>12. \A doc : IsStored(doc)' <=> IsStored(doc) BY <1>2, <1>10 DEF IsStored
<1>13. AckedInv' BY <1>2, <1>12 DEF AckedInv
<1>14. ASSUME NEW doc \in Docs, Removing(doc)'
       PROVE  Removing(doc) \/ (doc \in gone /\ request.kind = "remove")
  <2>1. PICK d \in Clients : /\ Busy(d)' /\ op'[d].request.kind = "remove"
                             /\ \E i \in DOMAIN op'[d].request.docs : op'[d].request.docs[i] = doc
    BY <1>14 DEF Removing, Indices, DocAt
  <2>2. CASE d = c BY <1>3, <1>4, <1>7, <2>1, <2>2
  <2>3. CASE d # c
    <3>1. Busy(d) /\ op'[d].request = op[d].request BY <1>5, <1>6, <2>1, <2>3
    <3> QED BY <2>1, <3>1 DEF Removing, Indices, DocAt
  <2> QED BY <2>2, <2>3
<1>15. ASSUME NEW doc \in Docs, Removing(doc)', NEW d \in Clients,
              Busy(d)', IsPut(op'[d]), doc \in ToSet(op'[d].request.docs)
       PROVE  doc \in op'[d].contested
  <2>1. CASE d = c
    <3>1. request.kind \in {"insert", "upsert"} BY <1>3, <1>7, <1>15, <2>1 DEF IsPut
    <3> QED BY <1>3, <1>7, <1>14, <1>15, <2>1, <3>1
  <2>2. CASE d # c
    <3>1. Busy(d) BY <1>6, <1>15, <2>2
    <3>2. /\ op'[d].at = op[d].at /\ op'[d].request = op[d].request
          /\ op[d].contested \subseteq op'[d].contested
          /\ op[d].request.kind \in {"insert", "upsert"} =>
                gone \cap ToSet(op[d].request.docs) \subseteq op'[d].contested
      BY <1>5, <2>2, <3>1
    <3>3. IsPut(op[d]) /\ doc \in ToSet(op[d].request.docs)
          /\ op[d].request.kind \in {"insert", "upsert"}
      BY <1>15, <3>2 DEF IsPut
    <3> QED BY <1>14, <1>15, <3>1, <3>2, <3>3 DEF RemovalInv
  <2> QED BY <2>1, <2>2
<1>16. RemovalInv'
  <2>1. \A doc \in Docs : Removing(doc)' => doc \notin acked' BY <1>2, <1>14 DEF RemovalInv
  <2> QED BY <1>15, <2>1 DEF RemovalInv
<1>17. ASSUME NEW d \in Clients, Busy(d)', NEW v, v = op'[d]
       PROVE  CallInv(v)'
  <2>1. CASE d # c
    <3> DEFINE u == op[d]
    <3>1. Busy(d) BY <1>6, <1>17, <2>1
    <3>2. CallInv(u) BY <3>1 DEF CallsInv
    <3>3. /\ v.at = u.at /\ v.request = u.request
          /\ v.server = u.server /\ v.rows = u.rows /\ v.answers = u.answers
          /\ IsRead(u) => v.before \subseteq u.before \ gone
          /\ ~IsRead(u) => v.before = u.before
          /\ u.contested \subseteq v.contested
      BY <1>5, <1>17, <2>1, <3>1
    <3>4. u.request.kind = "get" => IsRead(u) BY DEF IsRead
    <3> HIDE DEF u
    <3> QED BY <1>2, <1>10, <1>12, <3>2, <3>3, <3>4 DEF CallInv, IsPut, IsRead
  <2>2. CASE d = c
    <3>1. v = new BY <1>7, <1>17, <2>2
    <3>2. IsRead(v) => v.before \subseteq acked' BY <1>2, <1>3, <1>4, <3>1 DEF IsRead
    <3> QED BY <1>3, <3>1, <3>2 DEF CallInv
  <2> QED BY <2>1, <2>2
<1>18. CallsInv' BY <1>17 DEF CallsInv
<1>19. ASSUME NEW d \in Clients \ {c}, Busy(d)', NEW u, u = op[d], NEW v, v = op'[d]
       PROVE  ScanInv(v)'
  <2>1. Busy(d) BY <1>6, <1>19
  <2>2. ScanInv(u) /\ u.request \in Request
        /\ \A i \in DOMAIN u.request.docs : u.request.docs[i] \in Docs
    <3>1. ScanInv(u) BY <1>19, <2>1 DEF ScansInv
    <3> QED BY <1>19, <2>1, <3>1, DocsHavePartitions DEF DocAt, Indices
  <2>3. /\ v.request = u.request /\ v.rows = u.rows /\ v.answers = u.answers
        /\ v.skip = u.skip /\ v.read = u.read
        /\ u.request.kind = "scan" => v.before = {} \/ (gone = {} /\ v.before = u.before)
    BY <1>5, <1>19, <2>1
  <2>4. u.request.kind = "scan" =>
           /\ \A i \in DOMAIN u.request.docs : <<i, "conflict">> \notin v.rows
           /\ \A i \in DOMAIN v.answers : v.answers[i] = "missing" => u.request.docs[i] \notin v.before
    BY <2>2, <2>3 DEF ScanInv
  <2>5. u.request.kind = "scan" /\ v.before # {} =>
           /\ v.before = u.before
           /\ \A i \in DOMAIN u.request.docs : ~Removing(u.request.docs[i])'
    BY <1>14, <2>2, <2>3 DEF ScanInv
  <2> QED BY <1>12, <2>2, <2>3, <2>4, <2>5, ScanMoves
<1>20. ASSUME NEW v, v = new PROVE ScanInv(v)'
  <2>1. SUFFICES ASSUME request.kind = "scan" PROVE ScanInv(v)'
    BY <1>3, <1>20 DEF ScanInv
  <2>2. gone = {} BY <1>4, <2>1
  <2>3. \A i \in DOMAIN request.docs :
           request.docs[i] \in Docs /\ request.docs[i] \in ToSet(request.docs)
    BY <1>1, CallDocs
  <2>4. v.before # {} => \A i \in DOMAIN request.docs : ~Removing(request.docs[i])'
    BY <1>3, <1>14, <1>20, <2>1, <2>2, <2>3
  <2>5. \A i \in DOMAIN request.docs : \A rows \in SUBSET DOMAIN request.docs :
           Place(v, rows, i) >= 0
    <3>1. v.request = request BY <1>3, <1>20
    <3>2. \A i \in DOMAIN request.docs : \A rows \in SUBSET DOMAIN request.docs :
             Place(v, rows, i) \in Nat
      BY <1>1, <3>1, PlacesAreCounted
    <3> QED BY <3>2
  <2>6. \A i \in DOMAIN request.docs : (Place(v, Counted(v), i) >= 0)'
    <3>1. PICK rows : rows = Counted(v)' OBVIOUS
    <3>2. rows \in SUBSET DOMAIN request.docs BY <1>3, <1>20, <3>1 DEF Counted
    <3>3. \A i : Place(v, Counted(v), i)' = Place(v, rows, i)
      BY <3>1 DEF Place, SortsBefore, MonthOfRow
    <3> QED BY <2>5, <3>2, <3>3
  <2> QED BY <1>3, <1>20, <2>4, <2>6 DEF ScanInv
<1>21. ScansInv' BY <1>7, <1>19, <1>20 DEF ScansInv
<1> QED BY <1>8, <1>9, <1>11, <1>13, <1>16, <1>18, <1>21

-----------------------------------------------------------------------------
(***************************************************************************)
(* The servers.                                                            *)
(***************************************************************************)

\* With one more server a partition is still found where it is, and one that
\* does not exist is created anywhere.
LEMMA AddServerKeeps ==
    ASSUME DBInv, AddServer
    PROVE  DBInv'
<1> USE DEF DBInv
<1>1. /\ servers' = servers + 1 /\ servers \in Nat /\ servers >= 1 /\ MaxServers \in Nat
      /\ servers' \in 1 .. MaxServers
      /\ op' = [c \in Clients |-> Idle] /\ known' = [c \in Clients |-> [p \in Partitions |-> 0]]
      /\ UNCHANGED <<collections, stored, acked>>
  BY DBClientAssumption DEF AddServer, DBTypeOK
<1>2. \A c \in Clients : ~Busy(c)' BY <1>1 DEF Busy
<1>3. DBTypeOK'
  <2>1. op' \in [Clients -> {op'[d] : d \in Clients}] BY <1>1
  <2>2. known' \in [Clients -> [Partitions -> Int]] BY <1>1
  <2> QED BY <1>1, <1>2, <2>1, <2>2 DEF DBTypeOK, AllServers, CallOf
<1>4. PartitionsInv' /\ StoredInv'
  BY <1>1 DEF PartitionsInv, StoredInv, AllServers, DBTypeOK
<1>5. KnownInv' BY <1>1 DEF KnownInv
<1>6. ASSUME NEW doc \in Docs, IsStored(doc) PROVE IsStored(doc)'
  <2> DEFINE p == PartitionOf(doc)
  <2>1. p \in Partitions BY DEF Partitions
  <2>2. Location(p) \in AllServers BY <1>1, <2>1, LocationIsServer DEF AllServers, DBTypeOK
  <2>3. p \in collections[Location(p)] BY <1>6, <2>2 DEF IsStored, StoredInv
  <2>4. Holders(p)' = Holders(p)
    <3>1. \A s \in 1 .. servers + 1 : s \in AllServers BY <1>1 DEF AllServers
    <3>2. \A s \in AllServers : p \in collections[s] => s <= servers
      BY <2>1 DEF PartitionsInv
    <3> QED BY <1>1, <3>1, <3>2 DEF Holders
  <2>5. Holders(p) # {}
    <3>1. Location(p) \in 1 .. servers BY <2>1, LocationIsServer
    <3> QED BY <2>3, <3>1 DEF Holders
  <2>6. Location(p)' = Location(p) BY <2>4, <2>5 DEF Location
  <2> QED BY <1>1, <1>6, <2>6 DEF IsStored
<1>7. AckedInv' BY <1>1, <1>6 DEF AckedInv, DBTypeOK
<1>8. RemovalInv' /\ CallsInv' /\ ScansInv'
  BY <1>2 DEF RemovalInv, Removing, CallsInv, ScansInv
<1> QED BY <1>3, <1>4, <1>5, <1>7, <1>8

\* At first there is nothing on the servers.
LEMMA DBInitHolds == ASSUME DBInit PROVE DBInv
<1>1. \A c \in Clients : ~Busy(c) BY DEF DBInit, Busy
<1>2. DBTypeOK
  <2>1. op \in [Clients -> {op[d] : d \in Clients}] BY DEF DBInit
  <2>2. known \in [Clients -> [Partitions -> Int]] BY DEF DBInit
  <2> QED BY <1>1, <2>1, <2>2, DBClientAssumption DEF DBTypeOK, DBInit
<1>3. PartitionsInv /\ StoredInv /\ KnownInv /\ AckedInv
  BY DEF DBInit, PartitionsInv, StoredInv, KnownInv, AckedInv
<1>4. RemovalInv /\ CallsInv /\ ScansInv
  BY <1>1 DEF RemovalInv, Removing, CallsInv, ScansInv
<1> QED BY <1>2, <1>3, <1>4 DEF DBInv

\* Every step keeps the invariant.
LEMMA DBNextKeeps ==
    ASSUME DBInv, [DBNext]_dbVars
    PROVE  DBInv'
<1>1. CASE AddServer BY <1>1, AddServerKeeps
<1>2. ASSUME NEW c \in Clients, NEW request \in Requests[c], CallDB(c, request)
      PROVE  DBInv'
  BY <1>2, CallDBKeeps
<1>3. ASSUME NEW c \in Clients, Busy(c), NEW i \in Indices(c),
             \/ Resolve(c, i) \/ ConnectFails(c, i) \/ FindServerFails(c, i)
             \/ Execute(c, i) \/ ExecuteFails(c, i)
      PROVE  DBInv'
  BY <1>3, ResolveKeeps, FindServerFailsKeeps, ExecuteKeeps, ExecuteFailsKeeps
<1>4. ASSUME NEW c \in Clients,
             AnswerDB(c) \/ ReadPage(c) \/ ReturnFromDB(c) \/ RestartClient(c)
      PROVE  DBInv'
  BY <1>4, AnswerDBKeeps, ReadPageKeeps, EndKeeps
<1>5. CASE UNCHANGED dbVars
  <2>1. UNCHANGED <<servers, collections, stored, known, op, acked>> BY <1>5 DEF dbVars
  <2>2. DBTypeOK' BY <2>1 DEF DBInv, DBTypeOK, AllServers, CallOf, Busy
  <2>3. PartitionsInv' /\ StoredInv' BY <2>1 DEF DBInv, PartitionsInv, StoredInv
  <2>4. \A p : Location(p)' = Location(p) BY <2>1 DEF Location, Holders, AssignedServer
  <2>5. \A doc : IsStored(doc)' <=> IsStored(doc) BY <2>1, <2>4 DEF IsStored
  <2>6. KnownInv' /\ AckedInv' BY <2>1, <2>4, <2>5 DEF DBInv, KnownInv, AckedInv
  <2>7. RemovalInv' BY <2>1 DEF DBInv, RemovalInv, Removing, Busy, Indices, DocAt
  <2>8. \A v : CallInv(v)' <=> CallInv(v) BY <2>1, <2>4, <2>5 DEF CallInv
  <2>9. CallsInv' BY <2>1, <2>8 DEF DBInv, CallsInv, Busy
  <2>10. \A v : ScanInv(v)' <=> ScanInv(v)
    <3>1. \A doc : Removing(doc)' <=> Removing(doc)
      BY <2>1 DEF Removing, Busy, Indices, DocAt
    <3>2. \A v : Counted(v)' = Counted(v) BY <2>5 DEF Counted
    <3> QED BY <2>5, <3>1, <3>2 DEF ScanInv, Place, SortsBefore, MonthOfRow
  <2>11. ScansInv' BY <2>1, <2>10 DEF DBInv, ScansInv, Busy
  <2> QED BY <2>2, <2>3, <2>6, <2>7, <2>9, <2>11 DEF DBInv
<1> QED BY <1>1, <1>2, <1>3, <1>4, <1>5 DEF DBNext

\* The invariant holds in every reachable state.
THEOREM DBInvariantHolds == DBSpec => []DBInv
<1>1. DBInit => DBInv BY DBInitHolds
<1>2. DBInv /\ [DBNext]_dbVars => DBInv' BY DBNextKeeps
<1> QED BY <1>1, <1>2, PTL DEF DBSpec

\* A document that was put is on the server where each client looks for it,
\* whatever servers were added and whichever clients created its partition.
THEOREM AcknowledgedAreFound == DBSpec => []AcknowledgedIsFound
<1>1. DBInv => AcknowledgedIsFound
  <2>1. ASSUME DBInv, NEW doc \in acked, NEW c \in Clients
        PROVE  doc \in stored[GetServer(c, PartitionOf(doc))]
    <3>1. doc \in Docs /\ PartitionOf(doc) \in Partitions
      BY <2>1 DEF DBInv, DBTypeOK, Partitions
    <3>2. GetServer(c, PartitionOf(doc)) = Location(PartitionOf(doc))
      BY <2>1, <3>1, ServerIsLocation DEF DBInv
    <3> QED BY <2>1, <3>2 DEF DBInv, AckedInv, IsStored
  <2> QED BY <2>1 DEF AcknowledgedIsFound
<1> QED BY <1>1, DBInvariantHolds, PTL

\* A get does not answer that a document is missing that was put before it, nor
\* does a scan, however many pages it is read in and whatever is put meanwhile,
\* while nothing of its range is removed and no page is cut short.
THEOREM ReadsAlwaysSeeWrites == DBSpec => []ReadsSeeWrites
<1>1. ASSUME DBInv, NEW c \in Clients, Busy(c), NEW i \in DOMAIN op[c].answers,
             op[c].answers[i] = "missing"
      PROVE  DocAt(c, i) \notin op[c].before
  <2>1. CallInv(op[c]) /\ ScanInv(op[c]) BY <1>1 DEF DBInv, CallsInv, ScansInv
  <2>2. CASE op[c].request.kind \in {"get", "scan"}
    BY <1>1, <2>1, <2>2 DEF CallInv, ScanInv, DocAt
  <2>3. CASE op[c].request.kind \notin {"get", "scan"}
    BY <2>1, <2>3 DEF CallInv, IsRead
  <2> QED BY <2>2, <2>3
<1>2. DBInv => ReadsSeeWrites BY <1>1 DEF ReadsSeeWrites
<1> QED BY <1>2, DBInvariantHolds, PTL
=============================================================================
