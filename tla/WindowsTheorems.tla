-------------------------- MODULE WindowsTheorems --------------------------
(***************************************************************************)
(* Theorems of the usage windows: while each formula gets its own result,  *)
(* the documents of the accumulator and of the aggregator hold the usage   *)
(* that was accepted, each quantity once, and so do the reports of it; and *)
(* the bill of a past month is final.                                      *)
(***************************************************************************)
EXTENDS WindowsInvariant, SumTheorems, SequenceTheorems, TLAPS

\* What a quotient is.
LEMMA MonthQuotient ==
    ASSUME NEW a \in Nat, NEW b \in Nat \ {0}
    PROVE  /\ a \div b \in Nat /\ (a \div b) * b <= a /\ a < (a \div b) * b + b
           /\ \A q \in Nat : q * b <= a /\ a < q * b + b => a \div b = q
<1>1. a \div b \in Nat /\ (a \div b) * b <= a /\ a < (a \div b) * b + b OBVIOUS
<1>2. ASSUME NEW q \in Nat, NEW d \in Nat, q * b <= a, a < q * b + b, d * b <= a,
             a < d * b + b
      PROVE  ~(q < d)
  <2> SUFFICES ASSUME q < d PROVE FALSE OBVIOUS
  <2>1. q + 1 <= d OBVIOUS
  <2>2. (q + 1) * b <= d * b BY <2>1
  <2>3. (q + 1) * b = q * b + b OBVIOUS
  <2> QED BY <1>2, <2>2, <2>3
<1>3. \A q \in Nat : q * b <= a /\ a < q * b + b => a \div b = q
  <2> TAKE q \in Nat
  <2> HAVE q * b <= a /\ a < q * b + b
  <2>1. ~(q < a \div b) /\ ~(a \div b < q) BY <1>1, <1>2
  <2> QED BY <1>1, <2>1
<1> QED BY <1>1, <1>3

\* The days of a month are those from its first to its last one.
LEMMA MonthHasDays ==
    ASSUME NEW d \in Nat
    PROVE  /\ MonthOfDay(d) \in Nat
           /\ FirstDayOf(MonthOfDay(d)) <= d /\ d <= LastDayOf(MonthOfDay(d))
           /\ \A m \in Nat : FirstDayOf(m) <= d /\ d <= LastDayOf(m) => MonthOfDay(d) = m
<1>0. MonthDays \in Nat \ {0} BY UsageWindowsAssumption
<1>1. /\ d \div MonthDays \in Nat /\ (d \div MonthDays) * MonthDays <= d
      /\ d < (d \div MonthDays) * MonthDays + MonthDays
      /\ \A q \in Nat : q * MonthDays <= d /\ d < q * MonthDays + MonthDays => d \div MonthDays = q
  BY <1>0, MonthQuotient
<1>2. \A m \in Nat : (m + 1) * MonthDays = m * MonthDays + MonthDays /\ m * MonthDays \in Nat
  BY <1>0
<1>3. d <= LastDayOf(MonthOfDay(d)) BY <1>0, <1>1, <1>2 DEF LastDayOf, MonthOfDay
<1>4. \A m \in Nat : FirstDayOf(m) <= d /\ d <= LastDayOf(m) => MonthOfDay(d) = m
  BY <1>0, <1>1, <1>2 DEF FirstDayOf, LastDayOf, MonthOfDay
<1> QED BY <1>1, <1>3, <1>4 DEF FirstDayOf, MonthOfDay

\* A later month has later days.
LEMMA MonthsInOrder ==
    /\ \A m \in Nat : /\ FirstDayOf(m) \in Nat /\ LastDayOf(m) \in Nat
                      /\ FirstDayOf(m) <= LastDayOf(m)
                      /\ MonthOfDay(FirstDayOf(m)) = m /\ MonthOfDay(LastDayOf(m)) = m
    /\ \A m, n \in Nat : m < n => LastDayOf(m) < FirstDayOf(n)
    /\ \A c, d \in Nat : c <= d => MonthOfDay(c) <= MonthOfDay(d)
<1>0. MonthDays \in Nat \ {0} BY UsageWindowsAssumption
<1>1. \A m \in Nat : (m + 1) * MonthDays = m * MonthDays + MonthDays /\ m * MonthDays \in Nat
  BY <1>0
<1>2. \A m \in Nat : /\ FirstDayOf(m) \in Nat /\ LastDayOf(m) \in Nat
                     /\ FirstDayOf(m) <= LastDayOf(m)
  BY <1>0, <1>1 DEF FirstDayOf, LastDayOf
<1>3. \A m \in Nat : MonthOfDay(FirstDayOf(m)) = m /\ MonthOfDay(LastDayOf(m)) = m
  BY <1>2, MonthHasDays
<1>4. ASSUME NEW m \in Nat, NEW n \in Nat, m < n PROVE LastDayOf(m) < FirstDayOf(n)
  <2>1. m + 1 <= n BY <1>4
  <2>2. (m + 1) * MonthDays <= n * MonthDays BY <1>0, <2>1
  <2>3. (m + 1) * MonthDays \in Nat /\ n * MonthDays \in Nat BY <1>1
  <2> QED BY <2>2, <2>3 DEF FirstDayOf, LastDayOf
<1>5. ASSUME NEW c \in Nat, NEW d \in Nat, c <= d PROVE MonthOfDay(c) <= MonthOfDay(d)
  <2>1. /\ MonthOfDay(c) \in Nat /\ MonthOfDay(d) \in Nat
        /\ FirstDayOf(MonthOfDay(c)) <= c /\ d <= LastDayOf(MonthOfDay(d))
    BY MonthHasDays
  <2>2. FirstDayOf(MonthOfDay(c)) \in Nat /\ LastDayOf(MonthOfDay(d)) \in Nat
    BY <1>2, <2>1
  <2> QED BY <1>4, <1>5, <2>1, <2>2
<1> QED BY <1>2, <1>3, <1>4, <1>5

-----------------------------------------------------------------------------
(***************************************************************************)
(* Windows.                                                                *)
(***************************************************************************)
\* What the larger of zero and another integer is.
LEMMA AtLeastZero == \A n \in Int : Max({0, n}) = IF n > 0 THEN n ELSE 0
<1> TAKE n \in Int
<1> DEFINE S == {0, n}
           m == IF n > 0 THEN n ELSE 0
<1>1. m \in S /\ \A y \in S : m >= y OBVIOUS
<1>2. \A x \in S : (\A y \in S : x >= y) => x = m OBVIOUS
<1>3. (CHOOSE x \in S : \A y \in S : x >= y) = m
  <2> HIDE DEF S, m
  <2> QED BY <1>1, <1>2
<1> QED BY <1>3 DEF Max

\* A window of a length, with more empty cells.
LEMMA LongerIs ==
    ASSUME NEW C, NEW window \in Seq(C), NEW cell \in C, NEW n \in Int,
           NEW v, v = Longer(window, n, cell)
    PROVE  /\ v \in Seq(C) /\ Len(v) >= n /\ Len(v) >= Len(window)
           /\ Len(window) >= n => Len(v) = Len(window)
           /\ \A j \in 1 .. Len(v) : v[j] = IF j <= Len(window) THEN window[j] ELSE cell
<1> DEFINE more == Max({0, n - Len(window)})
           cells == Cells(more, cell)
           w == window \o cells
<1>0. Len(window) \in Nat OBVIOUS
<1>1. more = IF n - Len(window) > 0 THEN n - Len(window) ELSE 0
  <2>1. n - Len(window) \in Int OBVIOUS
  <2> QED BY <2>1, AtLeastZero
<1> HIDE DEF more
<1>2. more \in Nat BY <1>0, <1>1
<1>3. cells \in Seq(C) /\ Len(cells) = more /\ \A j \in 1 .. more : cells[j] = cell
  BY <1>2 DEF Cells
<1> HIDE DEF cells
<1>4. /\ w \in Seq(C) /\ Len(w) = Len(window) + more
      /\ \A j \in 1 .. Len(w) : w[j] = IF j <= Len(window) THEN window[j]
                                       ELSE cells[j - Len(window)]
  BY <1>3
<1>5. \A j \in 1 .. Len(w) : w[j] = IF j <= Len(window) THEN window[j] ELSE cell
  <2> TAKE j \in 1 .. Len(w)
  <2>1. j > Len(window) => j - Len(window) \in 1 .. more BY <1>0, <1>2, <1>4
  <2> QED BY <1>3, <1>4, <2>1
<1>6. Len(w) >= n /\ Len(w) >= Len(window) /\ (Len(window) >= n => Len(w) = Len(window))
  BY <1>0, <1>1, <1>4
<1> HIDE DEF w
<1>7. v = w BY DEF Longer, w, cells, more
<1> QED BY <1>4, <1>5, <1>6, <1>7

\* A shifted window: as long, with the cells that time has moved.
LEMMA ShiftIs ==
    ASSUME NEW C, NEW window \in Seq(C), NEW empty \in C, NEW dim \in Dimensions,
           NEW before \in Nat, NEW after \in Nat,
           NEW v, v = ShiftWindow(before, after, window, dim, empty),
           NEW n, n = Diff(before, after, dim)
    PROVE  /\ n \in Int /\ v \in Seq(C) /\ Len(v) = Len(window)
           /\ n <= 0 => v = window
           /\ n >= 0 => \A j \in 1 .. Len(v) :
                           v[j] = IF j > n THEN window[j - n] ELSE empty
<1> DEFINE w == ShiftWindow(before, after, window, dim, empty)
<1>1. n \in Int
  BY MonthHasDays DEF Diff, InDimension, Dimensions
<1>2. w = [j \in 1 .. Len(window) |->
             IF n <= 0 THEN window[j] ELSE IF j > n THEN window[j - n] ELSE empty]
  BY DEF ShiftWindow
<1> HIDE DEF w
<1>3. \A j \in 1 .. Len(window) : w[j] \in C
  <2> TAKE j \in 1 .. Len(window)
  <2>1. CASE n <= 0 BY <1>2, <2>1
  <2>2. CASE ~(n <= 0)
    <3>1. j > n => j - n \in 1 .. Len(window) BY <1>1, <2>2
    <3> QED BY <1>2, <2>2, <3>1
  <2> QED BY <2>1, <2>2
<1>4. w \in Seq(C) /\ Len(w) = Len(window) BY <1>2, <1>3
<1>5. n <= 0 => w = window
  <2> HAVE n <= 0
  <2>1. w = [j \in 1 .. Len(window) |-> window[j]] BY <1>2
  <2> QED BY <2>1
<1>6. n >= 0 => \A j \in 1 .. Len(w) : w[j] = IF j > n THEN window[j - n] ELSE empty
  <2> SUFFICES ASSUME n >= 0, NEW j \in 1 .. Len(w)
               PROVE  w[j] = IF j > n THEN window[j - n] ELSE empty
    OBVIOUS
  <2>1. CASE n = 0
    <3>1. j - n = j /\ j > n BY <2>1
    <3> QED BY <1>2, <1>4, <2>1, <3>1
  <2>2. CASE n # 0 BY <1>1, <1>2, <1>4, <2>2
  <2> QED BY <2>1, <2>2
<1> QED BY <1>1, <1>4, <1>5, <1>6 DEF w

\* Longer windows and shifted ones have the cells they had, and room for the slack.
LEMMA CellsStay ==
    ASSUME NEW window \in Seq(Int), NEW n \in Int
    PROVE  /\ \A j \in Nat : CellOf(window, j) \in Int
           /\ \A j \in Nat : CellOf(Longer(window, n, 0), j) = CellOf(window, j)
           /\ HasRoom(window) => HasRoom(Longer(window, n, 0))
<1> DEFINE w == Longer(window, n, 0)
<1>1. /\ w \in Seq(Int) /\ Len(w) >= Len(window)
      /\ \A j \in 1 .. Len(w) : w[j] = IF j <= Len(window) THEN window[j] ELSE 0
  <2> DEFINE C == Int
             z == 0
  <2>1. z \in C /\ window \in Seq(C) /\ w = Longer(window, n, z) OBVIOUS
  <2> HIDE DEF w, C, z
  <2>2. /\ w \in Seq(C) /\ Len(w) >= Len(window)
        /\ \A j \in 1 .. Len(w) : w[j] = IF j <= Len(window) THEN window[j] ELSE z
    BY <2>1, LongerIs
  <2> QED BY <2>2, Zenon DEF C, z
<1> HIDE DEF w
<1>2. Len(w) \in Nat /\ Len(window) \in Nat /\ DOMAIN w = 1 .. Len(w)
      /\ DOMAIN window = 1 .. Len(window)
  BY <1>1
<1>3. ASSUME NEW j \in Nat PROVE CellOf(window, j) \in Int /\ CellOf(w, j) = CellOf(window, j)
  <2>1. CASE j < Len(window)
    <3>1. j + 1 \in 1 .. Len(window) /\ j + 1 \in 1 .. Len(w) /\ j < Len(w) BY <1>1, <1>2, <2>1
    <3>2. window[j + 1] \in Int BY <3>1
    <3>3. w[j + 1] = window[j + 1] BY <1>1, <3>1
    <3> QED BY <2>1, <3>1, <3>2, <3>3 DEF CellOf
  <2>2. CASE ~(j < Len(window))
    <3>1. j < Len(w) => j + 1 \in 1 .. Len(w) /\ ~(j + 1 <= Len(window)) BY <1>2, <2>2
    <3> QED BY <1>1, <2>2, <3>1 DEF CellOf
  <2> QED BY <2>1, <2>2
<1>4. HasRoom(window) => HasRoom(w)
  <2>1. CASE Len(window) > SlackDays BY <1>1, <1>2, <2>1, UsageWindowsAssumption DEF HasRoom
  <2>2. CASE \A j \in DOMAIN window : window[j] = 0 BY <1>1, <1>2, <2>2 DEF HasRoom
  <2> QED BY <2>1, <2>2 DEF HasRoom
<1> QED BY <1>3, <1>4 DEF w

\* A shifted window of sums has the same cells, each moved by the time between.
LEMMA CellsShift ==
    ASSUME NEW window \in Seq(Int), NEW dim \in Dimensions, NEW before \in Nat, NEW after \in Nat,
           Diff(before, after, dim) >= 0, HasRoom(window)
    PROVE  LET w == ShiftWindow(before, after, window, dim, 0)
               n == Diff(before, after, dim)
           IN  /\ HasRoom(w)
               /\ \A j \in 0 .. SlackDays :
                     CellOf(w, j) = IF j < n THEN 0 ELSE CellOf(window, j - n)
<1> DEFINE w == ShiftWindow(before, after, window, dim, 0)
           n == Diff(before, after, dim)
<1>1. /\ n \in Int /\ w \in Seq(Int) /\ Len(w) = Len(window)
      /\ n >= 0 => \A j \in 1 .. Len(w) : w[j] = IF j > n THEN window[j - n] ELSE 0
  <2> DEFINE C == Int
             z == 0
  <2>1. /\ z \in C /\ window \in Seq(C)
        /\ w = ShiftWindow(before, after, window, dim, z) /\ n = Diff(before, after, dim)
    OBVIOUS
  <2> HIDE DEF w, n, C, z
  <2>2. /\ n \in Int /\ w \in Seq(C) /\ Len(w) = Len(window)
        /\ n >= 0 => \A j \in 1 .. Len(w) : w[j] = IF j > n THEN window[j - n] ELSE z
    BY <2>1, ShiftIs
  <2> QED BY <2>2, Zenon DEF C, z
<1>2. n \in Nat BY <1>1
<1> HIDE DEF w, n
<1>3. Len(window) \in Nat /\ DOMAIN window = 1 .. Len(window) /\ DOMAIN w = 1 .. Len(window)
      /\ SlackDays \in Nat
  BY <1>1, UsageWindowsAssumption
<1>4. \A j \in 1 .. Len(window) : w[j] = IF j > n THEN window[j - n] ELSE 0 BY <1>1, <1>2
<1>5. CASE Len(window) > SlackDays
  <2>1. HasRoom(w) BY <1>1, <1>5 DEF HasRoom
  <2>2. ASSUME NEW j \in 0 .. SlackDays
        PROVE  CellOf(w, j) = IF j < n THEN 0 ELSE CellOf(window, j - n)
    <3>1. j + 1 \in 1 .. Len(window) /\ j < Len(window) BY <1>3, <1>5
    <3>2. CellOf(w, j) = w[j + 1] BY <1>1, <3>1 DEF CellOf
    <3>3. CASE j < n BY <1>2, <1>4, <3>1, <3>2, <3>3
    <3>4. CASE ~(j < n)
      <4>1. j + 1 > n /\ (j + 1) - n = (j - n) + 1 /\ j - n < Len(window) BY <1>2, <3>1, <3>4
      <4>2. w[j + 1] = window[(j - n) + 1] BY <1>4, <3>1, <4>1
      <4> QED BY <3>2, <3>4, <4>1, <4>2 DEF CellOf
    <3> QED BY <3>3, <3>4
  <2> QED BY <2>1, <2>2 DEF w, n
<1>6. CASE \A j \in DOMAIN window : window[j] = 0
  <2>1. \A j \in 1 .. Len(window) : w[j] = 0
    <3> TAKE j \in 1 .. Len(window)
    <3>1. j > n => j - n \in 1 .. Len(window) BY <1>2, <1>3
    <3> QED BY <1>3, <1>4, <1>6, <3>1
  <2>2. HasRoom(w) BY <1>3, <2>1 DEF HasRoom
  <2>3. \A j \in 0 .. SlackDays : CellOf(w, j) = 0
    <3> TAKE j \in 0 .. SlackDays
    <3>1. j < Len(window) => j + 1 \in 1 .. Len(window) BY <1>3
    <3> QED BY <1>1, <2>1, <3>1 DEF CellOf
  <2>4. \A j \in 0 .. SlackDays : ~(j < n) => CellOf(window, j - n) = 0
    <3> SUFFICES ASSUME NEW j \in 0 .. SlackDays, ~(j < n) PROVE CellOf(window, j - n) = 0
      OBVIOUS
    <3>1. j - n < Len(window) => (j - n) + 1 \in 1 .. Len(window) BY <1>2, <1>3
    <3> QED BY <1>3, <1>6, <3>1 DEF CellOf
  <2> QED BY <2>2, <2>3, <2>4 DEF w, n
<1> QED BY <1>5, <1>6 DEF HasRoom

\* The day that a usage is accumulated at.
LEMMA ItimeIs ==
    ASSUME today \in Nat, NEW date \in 0 .. today
    PROVE  /\ Itime(date) \in Nat /\ date <= Itime(date) /\ Itime(date) <= today
           /\ MonthOfDay(Itime(date)) = MonthOfDay(date)
           /\ MonthOfDay(date) = MonthOfDay(today) => Itime(date) = today
           /\ CellAt(date, "month") = 1
           /\ CellAt(date, "day") = Itime(date) - date + 1 /\ CellAt(date, "day") \in Nat \ {0}
           /\ TimeWindowIndex(Itime(date), date, "month") = 0
           /\ TimeWindowIndex(Itime(date), date, "day") = Itime(date) - date
           /\ \A u : u.end = date /\ u.processed = today => EndOf(u) = Itime(date)
<1> DEFINE m == MonthOfDay(date)
           n == MonthOfDay(today)
<1>0. date \in Nat OBVIOUS
<1>1. /\ m \in Nat /\ n \in Nat /\ m <= n
      /\ FirstDayOf(m) <= date /\ date <= LastDayOf(m)
      /\ FirstDayOf(n) <= today /\ LastDayOf(m) \in Nat /\ FirstDayOf(n) \in Nat
      /\ MonthOfDay(LastDayOf(m)) = m /\ (m < n => LastDayOf(m) < FirstDayOf(n))
  BY <1>0, MonthHasDays, MonthsInOrder
<1>2. IsOfLastMonth(date) <=> m < n BY DEF IsOfLastMonth
<1>3. Itime(date) = IF m < n THEN LastDayOf(m) ELSE today BY <1>2 DEF Itime
<1>4. \A u : u.end = date /\ u.processed = today => EndOf(u) = Itime(date)
  BY <1>3 DEF EndOf
<1> HIDE DEF m, n
<1>5. /\ Itime(date) \in Nat /\ date <= Itime(date) /\ Itime(date) <= today
      /\ (m = n => Itime(date) = today) /\ MonthOfDay(Itime(date)) = m
  BY <1>0, <1>1, <1>3 DEF m, n
<1>6. Diff(date, Itime(date), "month") = 0 BY <1>1, <1>5 DEF Diff, InDimension, m
<1>7. Diff(date, Itime(date), "day") = Itime(date) - date BY DEF Diff, InDimension
<1>8. CellAt(date, "month") = 1 /\ CellAt(date, "day") = Itime(date) - date + 1
  BY <1>6, <1>7 DEF CellAt
<1>9. /\ TimeWindowIndex(Itime(date), date, "month") = 0
      /\ TimeWindowIndex(Itime(date), date, "day") = Itime(date) - date
  <2>1. \A k \in Nat : Max({0, k}) = k BY AtLeastZero
  <2>2. Itime(date) - date \in Nat BY <1>0, <1>5
  <2> QED BY <1>6, <1>7, <2>1, <2>2 DEF TimeWindowIndex
<1> QED BY <1>0, <1>5, <1>8, <1>9, <1>4 DEF m, n

-----------------------------------------------------------------------------
(***************************************************************************)
(* The accumulator.                                                        *)
(***************************************************************************)
\* There is a cell for each day of the slack, and one for the month.
LEMMA SlackHasCells ==
    /\ SlackDays \in Nat /\ SlackWindows("day") = SlackDays + 1
    /\ SlackWindows("month") \in Nat \ {0}
<1>1. SlackDays \in Nat /\ MonthDays \in Nat \ {0} BY UsageWindowsAssumption
<1>2. SlackWindows("day") = SlackDays + 1 BY DEF SlackWindows
<1>3. SlackDays # 0 => (SlackDays - 1) \div MonthDays \in Nat
  <2> HAVE SlackDays # 0
  <2>1. SlackDays - 1 \in Nat BY <1>1
  <2> QED BY <1>1, <2>1, MonthQuotient
<1>4. SlackWindows("month") \in Nat \ {0}
  <2>1. CASE SlackDays = 0 BY <2>1 DEF SlackWindows
  <2>2. CASE SlackDays # 0
    <3>1. SlackWindows("month") = (SlackDays - 1) \div MonthDays + 2 BY <2>2 DEF SlackWindows
    <3> QED BY <1>3, <2>2, <3>1
  <2> QED BY <2>1, <2>2
<1> QED BY <1>1, <1>2, <1>4

\* An empty cell of an instance's window holds no usage.
LEMMA EmptyIsCell == EmptyCell \in Cell /\ EmptyCell.current = 0
BY DEF EmptyCell, Cell

\* The windows of a document, or those that it begins with.
LEMMA AccumIs ==
    ASSUME NEW doc, doc = NoDocument \/ InstanceWindows(doc.windows)
    PROVE  /\ InstanceWindows(Accum(doc))
           /\ doc # NoDocument => Accum(doc) = doc.windows
           /\ doc = NoDocument =>
                 \A dim \in Dimensions : \A j \in 1 .. Len(Accum(doc)[dim]) :
                    Accum(doc)[dim][j] = EmptyCell
<1>1. CASE doc = NoDocument
  <2> DEFINE n(dim) == SlackWindows(dim)
  <2>1. Accum(doc) = [dim \in Dimensions |-> Cells(n(dim), EmptyCell)] BY <1>1 DEF Accum
  <2>2. ASSUME NEW dim \in Dimensions
        PROVE  /\ n(dim) \in Nat \ {0} /\ (dim = "day" => n(dim) > SlackDays)
               /\ Accum(doc)[dim] \in Seq(Cell) /\ Len(Accum(doc)[dim]) = n(dim)
               /\ \A j \in 1 .. Len(Accum(doc)[dim]) : Accum(doc)[dim][j] = EmptyCell
    <3>1. n(dim) \in Nat \ {0} /\ (dim = "day" => n(dim) > SlackDays)
      BY SlackHasCells DEF Dimensions
    <3> HIDE DEF n
    <3>2. Accum(doc)[dim] = [j \in 1 .. n(dim) |-> EmptyCell] BY <2>1 DEF Cells
    <3> QED BY <3>1, <3>2, EmptyIsCell
  <2> HIDE DEF n
  <2>3. "day" \in Dimensions /\ "month" \in Dimensions BY DEF Dimensions
  <2>4. Accum(doc) \in [Dimensions -> Seq(Cell)] BY <2>1, <2>2
  <2>5. Len(Accum(doc)["day"]) > SlackDays /\ Len(Accum(doc)["month"]) > 0 BY <2>2, <2>3
  <2> QED BY <1>1, <2>2, <2>4, <2>5 DEF InstanceWindows
<1>2. CASE doc # NoDocument BY <1>2 DEF Accum
<1> QED BY <1>1, <1>2

\* The windows that a usage is accumulated into: they have its cells, and what the
\* document of this month has for the month and for the days of the slack.
LEMMA PreparedIs ==
    ASSUME today \in Nat, NEW date \in 0 .. today,
           NEW doc, doc # NoDocument => doc.processed \in 0 .. today /\ InstanceWindows(doc.windows)
    PROVE  /\ InstanceWindows(Prepared(doc, date))
           /\ \A dim \in Dimensions : CellAt(date, dim) \in 1 .. Len(Prepared(doc, date)[dim])
           /\ doc = NoDocument =>
                 \A dim \in Dimensions : \A j \in 1 .. Len(Prepared(doc, date)[dim]) :
                    Prepared(doc, date)[dim][j] = EmptyCell
           /\ doc # NoDocument /\ MonthOfDay(doc.processed) = MonthOfDay(today) =>
                 Prepared(doc, date)["month"][1] = doc.windows["month"][1]
           /\ doc # NoDocument =>
                 \A d \in Nat : d <= today /\ today - d <= SlackDays =>
                    Prepared(doc, date)["day"][today - d + 1]
                       = IF d > doc.processed THEN EmptyCell
                         ELSE doc.windows["day"][doc.processed - d + 1]
<1> DEFINE size(dim) == 1 + TimeWindowIndex(Itime(date), date, dim)
           old == Accum(doc)
           long(dim) == Longer(old[dim], size(dim), EmptyCell)
           expanded == [dim \in Dimensions |-> long(dim)]
           moved(dim) == ShiftWindow(doc.processed, today, long(dim), dim, EmptyCell)
           P == Prepared(doc, date)
<1>1. /\ InstanceWindows(old) /\ (doc # NoDocument => old = doc.windows)
      /\ doc = NoDocument => \A dim \in Dimensions : \A j \in 1 .. Len(old[dim]) :
                                old[dim][j] = EmptyCell
  BY AccumIs
<1>2. \A dim \in Dimensions : size(dim) = CellAt(date, dim) /\ size(dim) \in Nat \ {0}
  <2> TAKE dim \in Dimensions
  <2>1. /\ Itime(date) \in Nat /\ date <= Itime(date)
        /\ CellAt(date, "month") = 1 /\ CellAt(date, "day") = Itime(date) - date + 1
        /\ TimeWindowIndex(Itime(date), date, "month") = 0
        /\ TimeWindowIndex(Itime(date), date, "day") = Itime(date) - date
    BY ItimeIs
  <2>2. CASE dim = "month" BY <2>1, <2>2
  <2>3. CASE dim = "day"
    <3>1. date \in Nat OBVIOUS
    <3> QED BY <2>1, <2>3, <3>1
  <2> QED BY <2>2, <2>3 DEF Dimensions
<1>3. /\ old \in [Dimensions -> Seq(Cell)] /\ Len(old["day"]) > SlackDays /\ Len(old["month"]) > 0
      /\ "day" \in Dimensions /\ "month" \in Dimensions /\ SlackDays \in Nat
  BY <1>1, SlackHasCells DEF InstanceWindows, Dimensions
<1>4. P = IF doc = NoDocument THEN expanded
          ELSE ShiftWindows(doc.processed, today, expanded, EmptyCell)
  BY DEF Prepared
<1> HIDE DEF size, old
<1>5. ASSUME NEW dim \in Dimensions
      PROVE  /\ long(dim) \in Seq(Cell) /\ Len(long(dim)) >= CellAt(date, dim)
             /\ Len(long(dim)) >= Len(old[dim])
             /\ \A j \in 1 .. Len(long(dim)) :
                   long(dim)[j] = IF j <= Len(old[dim]) THEN old[dim][j] ELSE EmptyCell
  <2> DEFINE v == long(dim)
             n == size(dim)
             window == old[dim]
  <2>1. window \in Seq(Cell) /\ n \in Int /\ EmptyCell \in Cell /\ v = Longer(window, n, EmptyCell)
        /\ n = CellAt(date, dim)
    BY <1>2, <1>3, EmptyIsCell
  <2> HIDE DEF v, n, window
  <2>2. /\ v \in Seq(Cell) /\ Len(v) >= n /\ Len(v) >= Len(window)
        /\ \A j \in 1 .. Len(v) : v[j] = IF j <= Len(window) THEN window[j] ELSE EmptyCell
    BY <2>1, LongerIs
  <2> QED BY <2>1, <2>2 DEF v, window
<1>6. \A dim \in Dimensions : expanded[dim] = long(dim) OBVIOUS
<1> HIDE DEF long
<1>7. CASE doc = NoDocument
  <2>1. P = expanded BY <1>4, <1>7
  <2>2. \A dim \in Dimensions : P[dim] = long(dim) BY <1>6, <2>1
  <2>3. P \in [Dimensions -> Seq(Cell)] BY <1>5, <2>1
  <2>4. Len(P["day"]) > SlackDays /\ Len(P["month"]) > 0
    <3>1. /\ Len(P["day"]) \in Nat /\ Len(P["month"]) \in Nat
          /\ Len(old["day"]) \in Nat /\ Len(old["month"]) \in Nat
      BY <1>3, <2>3
    <3>2. Len(P["day"]) >= Len(old["day"]) /\ Len(P["month"]) >= Len(old["month"])
      BY <1>3, <1>5, <2>2
    <3> QED BY <1>3, <3>1, <3>2
  <2>5. \A dim \in Dimensions : CellAt(date, dim) \in 1 .. Len(P[dim])
    <3> TAKE dim \in Dimensions
    <3>1. Len(P[dim]) \in Nat /\ Len(P[dim]) >= CellAt(date, dim) BY <1>5, <2>2, <2>3
    <3> QED BY <1>2, <3>1
  <2>6. \A dim \in Dimensions : \A j \in 1 .. Len(P[dim]) : P[dim][j] = EmptyCell
    <3> TAKE dim \in Dimensions
    <3> TAKE j \in 1 .. Len(P[dim])
    <3>1. P[dim][j] = IF j <= Len(old[dim]) THEN old[dim][j] ELSE EmptyCell BY <1>5, <2>2
    <3>2. Len(old[dim]) \in Nat BY <1>3
    <3>3. j <= Len(old[dim]) => j \in 1 .. Len(old[dim]) BY <3>2
    <3> QED BY <1>1, <1>7, <3>1, <3>3
  <2>7. InstanceWindows(P) BY <2>3, <2>4 DEF InstanceWindows
  <2> QED BY <1>7, <2>5, <2>6, <2>7
<1>8. CASE doc # NoDocument
  <2>0. doc.processed \in Nat /\ doc.processed <= today /\ old = doc.windows BY <1>1, <1>8
  <2>1. P = [dim \in Dimensions |->
               ShiftWindow(doc.processed, today, expanded[dim], dim, EmptyCell)]
    BY <1>4, <1>8 DEF ShiftWindows
  <2>2. \A dim \in Dimensions : P[dim] = moved(dim) BY <1>6, <2>1
  <2>3. ASSUME NEW dim \in Dimensions, NEW n, n = Diff(doc.processed, today, dim)
        PROVE  /\ P[dim] \in Seq(Cell) /\ Len(P[dim]) = Len(long(dim))
               /\ n <= 0 => P[dim] = long(dim)
               /\ n >= 0 => \A j \in 1 .. Len(P[dim]) :
                               P[dim][j] = IF j > n THEN long(dim)[j - n] ELSE EmptyCell
    <3> DEFINE v == P[dim]
               window == long(dim)
    <3>1. v = ShiftWindow(doc.processed, today, window, dim, EmptyCell) /\ window \in Seq(Cell)
      BY <1>5, <2>2
    <3> HIDE DEF v, window
    <3>2. /\ v \in Seq(Cell) /\ Len(v) = Len(window) /\ (n <= 0 => v = window)
          /\ n >= 0 => \A j \in 1 .. Len(v) : v[j] = IF j > n THEN window[j - n] ELSE EmptyCell
      BY <2>0, <2>3, <3>1, EmptyIsCell, ShiftIs
    <3> QED BY <3>2 DEF v, window
  <2> HIDE DEF moved, P
  <2>4. \A dim \in Dimensions : P[dim] \in Seq(Cell) /\ Len(P[dim]) = Len(long(dim))
                                /\ Len(P[dim]) \in Nat /\ Len(old[dim]) \in Nat
    <3> TAKE dim \in Dimensions
    <3>1. P[dim] \in Seq(Cell) /\ Len(P[dim]) = Len(long(dim)) BY <2>3
    <3>2. Len(P[dim]) \in Nat /\ Len(old[dim]) \in Nat BY <1>3, <3>1
    <3> QED BY <3>1, <3>2
  <2>5. InstanceWindows(P)
    <3>1. P \in [Dimensions -> Seq(Cell)] BY <2>1, <2>4
    <3>2. Len(P["day"]) >= Len(old["day"]) /\ Len(P["month"]) >= Len(old["month"])
      BY <1>3, <1>5, <2>4
    <3> QED BY <1>3, <2>4, <3>1, <3>2 DEF InstanceWindows
  <2>6. \A dim \in Dimensions : CellAt(date, dim) \in 1 .. Len(P[dim])
    BY <1>2, <1>5, <2>4
  <2>7. ASSUME MonthOfDay(doc.processed) = MonthOfDay(today)
        PROVE  P["month"][1] = doc.windows["month"][1]
    <3>1. Diff(doc.processed, today, "month") = 0
      BY <2>0, <2>7, MonthHasDays DEF Diff, InDimension
    <3>2. P["month"] = long("month") BY <1>3, <2>3, <3>1
    <3>3. 1 \in 1 .. Len(long("month")) /\ 1 <= Len(old["month"]) BY <1>3, <1>5, <2>4
    <3> QED BY <1>3, <1>5, <2>0, <3>2, <3>3
  <2>8. ASSUME NEW d \in Nat, d <= today, today - d <= SlackDays
        PROVE  P["day"][today - d + 1]
                  = IF d > doc.processed THEN EmptyCell
                    ELSE doc.windows["day"][doc.processed - d + 1]
    <3> DEFINE n == today - doc.processed
               j == today - d + 1
    <3>1. Diff(doc.processed, today, "day") = n BY DEF Diff, InDimension
    <3>2. n \in Nat /\ j \in 1 .. Len(P["day"]) /\ j <= Len(old["day"])
      BY <1>3, <1>5, <2>0, <2>4, <2>8
    <3>3. P["day"][j] = IF j > n THEN long("day")[j - n] ELSE EmptyCell
      BY <1>3, <2>3, <3>1, <3>2
    <3>4. CASE d > doc.processed
      <4>1. ~(j > n) BY <2>0, <2>8, <3>4
      <4> QED BY <3>3, <3>4, <4>1
    <3>5. CASE ~(d > doc.processed)
      <4>0. /\ Len(long("day")) \in Nat /\ Len(old["day"]) \in Nat
            /\ Len(old["day"]) <= Len(long("day"))
        BY <1>3, <1>5, <2>4
      <4>1. /\ j > n /\ j - n = doc.processed - d + 1 /\ j - n <= j
            /\ j - n \in 1 .. Len(long("day")) /\ j - n <= Len(old["day"])
        <5> DEFINE p == doc.processed
                   l == Len(long("day"))
                   o == Len(old["day"])
        <5>1. /\ p \in Nat /\ l \in Nat /\ o \in Nat /\ today \in Nat
              /\ d <= today /\ ~(d > p) /\ p <= today /\ today - d + 1 <= o /\ o <= l
          BY <2>0, <2>8, <3>2, <3>5, <4>0
        <5> HIDE DEF p, l, o
        <5>2. /\ today - d + 1 > today - p
              /\ (today - d + 1) - (today - p) = p - d + 1 /\ p - d + 1 <= today - d + 1
              /\ p - d + 1 \in 1 .. l /\ p - d + 1 <= o
          BY <5>1
        <5> QED BY <5>2 DEF p, l, o
      <4>2. long("day")[j - n] = old["day"][j - n] BY <1>3, <1>5, <4>1
      <4> QED BY <2>0, <3>3, <3>5, <4>1, <4>2
    <3> QED BY <3>4, <3>5
  <2> QED BY <1>8, <2>5, <2>6, <2>7, <2>8 DEF P
<1> QED BY <1>7, <1>8

\* Usage goes into one cell of each window.
Into(windows, date, q) ==
    [dim \in Dimensions |->
        LET cell == windows[dim][CellAt(date, dim)]
        IN  [windows[dim] EXCEPT ![CellAt(date, dim)] =
                [previous |-> cell.current, current |-> cell.current + q]]]

\* A formula that gets its own result puts the usage into its cells.
LEMMA AccumulatedInto ==
    ASSUME NEW i, NEW date, NEW q, Accumulate(i, date, q), ~mixed'
    PROVE  LET m == MonthOfDay(date)
               windows == Into(Prepared(summed[i][m], date), date, q)
           IN  /\ ~mixed /\ UNCHANGED <<today, aggregated, lagged>>
               /\ summed' = [summed EXCEPT ![i][m] = [processed |-> today, windows |-> windows]]
               /\ posted' = [posted EXCEPT ![i] = Append(@,
                       [end |-> date, processed |-> today, windows |-> windows])]
               /\ spent' = [spent EXCEPT ![i][date] = @ + q]
               /\ submitted' = submitted + 1
<1> DEFINE m == MonthOfDay(date)
           P == Prepared(summed[i][m], date)
           cell(dim) == P[dim][CellAt(date, dim)]
           key(dim) == AccumulateKey(PlanOfInstance[i], cell(dim), q, date,
                                     <<dim, InDimension(dim, date)>>)
           result(dim) == Memoized(memo, key(dim), cell(dim).current + q)
           newa == [dim \in Dimensions |->
                      [P[dim] EXCEPT ![CellAt(date, dim)] =
                         [previous |-> cell(dim).current, current |-> result(dim)]]]
<1>1. /\ mixed' = (mixed \/ \E dim \in Dimensions : result(dim) # cell(dim).current + q)
      /\ UNCHANGED <<today, aggregated, lagged>>
      /\ summed' = [summed EXCEPT ![i][m] = [processed |-> today, windows |-> newa]]
      /\ posted' = [posted EXCEPT ![i] = Append(@,
              [end |-> date, processed |-> today, windows |-> newa])]
      /\ spent' = [spent EXCEPT ![i][date] = @ + q]
      /\ submitted' = submitted + 1
  BY DEF Accumulate
<1> HIDE DEF P
<1>2. ~mixed /\ \A dim \in Dimensions : result(dim) = cell(dim).current + q BY <1>1
<1>3. newa = Into(P, date, q)
  <2> HIDE DEF result
  <2> QED BY <1>2 DEF Into
<1> QED BY <1>1, <1>2, <1>3 DEF P

\* The cells after it.
LEMMA IntoIs ==
    ASSUME NEW P \in [Dimensions -> Seq(Cell)], NEW q \in Nat, NEW date,
           \A dim \in Dimensions : CellAt(date, dim) \in 1 .. Len(P[dim]),
           NEW windows, windows = Into(P, date, q)
    PROVE  /\ windows \in [Dimensions -> Seq(Cell)]
           /\ \A dim \in Dimensions : Len(windows[dim]) = Len(P[dim])
           /\ \A dim \in Dimensions :
                 LET c == CellAt(date, dim)
                 IN  /\ windows[dim][c].previous = P[dim][c].current
                     /\ windows[dim][c].current = P[dim][c].current + q
                     /\ windows[dim][c].current - windows[dim][c].previous = q
                     /\ P[dim][c].current \in Int
                     /\ \A j \in 1 .. Len(P[dim]) : j # c => windows[dim][j] = P[dim][j]
<1>1. ASSUME NEW dim \in Dimensions
      PROVE  LET c == CellAt(date, dim)
             IN  /\ windows[dim] \in Seq(Cell) /\ Len(windows[dim]) = Len(P[dim])
                 /\ windows[dim][c].previous = P[dim][c].current
                 /\ windows[dim][c].current = P[dim][c].current + q
                 /\ windows[dim][c].current - windows[dim][c].previous = q
                 /\ P[dim][c].current \in Int
                 /\ \A j \in 1 .. Len(P[dim]) : j # c => windows[dim][j] = P[dim][j]
  <2> DEFINE c == CellAt(date, dim)
             window == P[dim]
             old == window[c].current
             new == [previous |-> old, current |-> old + q]
  <2>1. windows[dim] = [window EXCEPT ![c] = new] BY DEF Into
  <2>2. c \in 1 .. Len(window) /\ window \in Seq(Cell) OBVIOUS
  <2> HIDE DEF c, window
  <2>3. window[c] \in Cell BY <2>2
  <2>4. old \in Int BY <2>3 DEF Cell
  <2> HIDE DEF old
  <2>5. old + q \in Int /\ (old + q) - old = q BY <2>4
  <2>6. new \in Cell /\ new.previous = old /\ new.current = old + q BY <2>4, <2>5 DEF Cell
  <2> HIDE DEF new
  <2>7. /\ windows[dim] \in Seq(Cell) /\ Len(windows[dim]) = Len(window)
        /\ windows[dim][c] = new
        /\ \A j \in 1 .. Len(window) : j # c => windows[dim][j] = window[j]
    BY <2>1, <2>2, <2>6
  <2> QED BY <2>4, <2>5, <2>6, <2>7 DEF c, window, old
<1>2. windows = [dim \in Dimensions |-> windows[dim]] BY DEF Into
<1> QED BY <1>1, <1>2

\* The document that a usage is accumulated into is of its month.
LEMMA SummedIs ==
    ASSUME ShapeInv, SummedInv, NEW i \in Instances, NEW date \in 0 .. today
    PROVE  LET m == MonthOfDay(date)
               doc == summed[i][m]
           IN  /\ today \in Nat /\ date \in Days
               /\ m \in MonthsOfDays /\ m \in Nat /\ date \in DaysIn(m)
               /\ doc # NoDocument => doc.processed \in 0 .. today /\ InstanceWindows(doc.windows)
               /\ InstanceWindows(Prepared(doc, date))
               /\ \A dim \in Dimensions : CellAt(date, dim) \in 1 .. Len(Prepared(doc, date)[dim])
<1> DEFINE m == MonthOfDay(date)
           doc == summed[i][m]
<1>1. today \in Nat /\ date \in Nat /\ date \in Days BY UsageWindowsAssumption DEF ShapeInv, Days
<1>2. m \in MonthsOfDays /\ m \in Nat /\ date \in DaysIn(m)
  BY <1>1, MonthHasDays DEF MonthsOfDays, DaysIn, DaysOf
<1>3. doc # NoDocument => doc.processed \in FirstDayOf(m) .. today /\ InstanceWindows(doc.windows)
  BY <1>2 DEF SummedInv, InstanceIsSummed
<1>4. FirstDayOf(m) \in Nat BY <1>2, MonthsInOrder
<1> HIDE DEF m, doc
<1>5. doc # NoDocument => doc.processed \in 0 .. today BY <1>1, <1>3, <1>4
<1>6. /\ InstanceWindows(Prepared(doc, date))
      /\ \A dim \in Dimensions : CellAt(date, dim) \in 1 .. Len(Prepared(doc, date)[dim])
  BY <1>1, <1>3, <1>5, PreparedIs
<1> QED BY <1>1, <1>2, <1>3, <1>5, <1>6 DEF m, doc

\* What is posted then is a usage that adds its quantity.
LEMMA NewIsConsistent ==
    ASSUME ShapeInv, SummedInv, NEW i \in Instances, NEW date \in 0 .. today,
           NEW q \in Quantities, NEW windows,
           windows = Into(Prepared(summed[i][MonthOfDay(date)], date), date, q),
           NEW u, u = [end |-> date, processed |-> today, windows |-> windows]
    PROVE  InstanceWindows(windows) /\ Consistent(u) /\ Added(u) = q
<1> DEFINE P == Prepared(summed[i][MonthOfDay(date)], date)
<1>0. q \in Nat BY UsageWindowsAssumption
<1>1. today \in Nat /\ date \in Nat BY SummedIs
<1>2. /\ InstanceWindows(P) /\ windows = Into(P, date, q)
      /\ \A dim \in Dimensions : CellAt(date, dim) \in 1 .. Len(P[dim])
  BY SummedIs
<1> HIDE DEF P
<1>3. "day" \in Dimensions /\ "month" \in Dimensions BY DEF Dimensions
<1>4. P \in [Dimensions -> Seq(Cell)] BY <1>2 DEF InstanceWindows
<1>5. /\ windows \in [Dimensions -> Seq(Cell)]
      /\ \A dim \in Dimensions : Len(windows[dim]) = Len(P[dim])
      /\ \A dim \in Dimensions :
            windows[dim][CellAt(date, dim)].current - windows[dim][CellAt(date, dim)].previous = q
  BY <1>0, <1>2, <1>4, IntoIs
<1>6. InstanceWindows(windows) BY <1>2, <1>3, <1>5 DEF InstanceWindows
<1>7. u.end = date /\ u.processed = today /\ u.windows = windows OBVIOUS
<1>8. /\ EndOf(u) = Itime(date) /\ CellAt(date, "month") = 1
      /\ CellAt(date, "day") = Itime(date) - date + 1
  BY <1>1, <1>7, ItimeIs
<1>9. Added(u) = q BY <1>3, <1>5, <1>7, <1>8 DEF Added
<1>10. Consistent(u)
  <2>1. EndOf(u) - u.end + 1 = CellAt(date, "day") BY <1>7, <1>8
  <2>2. CellAt(date, "day") <= Len(windows["day"]) BY <1>2, <1>3, <1>5
  <2>3. u.processed \in 0 .. today /\ u.end \in 0 .. u.processed BY <1>1, <1>7
  <2> QED BY <1>3, <1>5, <1>6, <1>7, <1>9, <2>1, <2>2, <2>3 DEF Consistent
<1> QED BY <1>6, <1>9, <1>10

\* There are finitely many days, and so are those of each set of them.
LEMMA DaysAreFinite ==
    /\ IsFiniteSet(Days) /\ Days \subseteq Nat
    /\ \A m : IsFiniteSet(DaysIn(m)) /\ DaysIn(m) \subseteq Days
<1>1. IsFiniteSet(Days) /\ Days \subseteq Nat BY UsageWindowsAssumption, FS_Interval DEF Days
<1>2. \A m : DaysIn(m) \subseteq Days BY DEF DaysIn
<1> QED BY <1>1, <1>2, FS_Subset

\* What is said of a document is about the usage of its month.
LEMMA SameUsageIsSummed ==
    ASSUME NEW doc, NEW m, NEW old, NEW new, \A d \in DaysIn(m) : new[d] = old[d],
           InstanceIsSummed(doc, m, old)
    PROVE  InstanceIsSummed(doc, m, new)
<1>1. SumFunctionOnSet(new, DaysIn(m)) = SumFunctionOnSet(old, DaysIn(m))
  BY DaysAreFinite, SumsEqual
<1> QED BY <1>1 DEF InstanceIsSummed

\* The document that usage was accumulated into is the sum of its month with it.
LEMMA IntoIsSummed ==
    ASSUME ShapeInv, SummedInv, NEW i \in Instances, NEW date \in 0 .. today,
           NEW q \in Quantities, NEW windows, NEW usage,
           windows = Into(Prepared(summed[i][MonthOfDay(date)], date), date, q),
           usage = [spent[i] EXCEPT ![date] = @ + q]
    PROVE  InstanceIsSummed([processed |-> today, windows |-> windows], MonthOfDay(date), usage)
<1> DEFINE m == MonthOfDay(date)
           doc == summed[i][m]
           P == Prepared(doc, date)
           new == [processed |-> today, windows |-> windows]
<1>0. q \in Nat BY UsageWindowsAssumption
<1>1. /\ today \in Nat /\ date \in Nat /\ date \in Days /\ m \in MonthsOfDays /\ m \in Nat
      /\ date \in DaysIn(m)
      /\ doc # NoDocument => doc.processed \in 0 .. today /\ InstanceWindows(doc.windows)
      /\ InstanceWindows(P)
      /\ \A dim \in Dimensions : CellAt(date, dim) \in 1 .. Len(P[dim])
  BY SummedIs
<1>2. InstanceWindows(windows)
  <2>1. PICK u : u = [end |-> date, processed |-> today, windows |-> windows] OBVIOUS
  <2> QED BY <2>1, NewIsConsistent
<1>3. new # NoDocument /\ new.processed = today /\ new.windows = windows
  BY <1>1 DEF NoDocument
<1>4. today \in FirstDayOf(m) .. today
  <2>1. FirstDayOf(m) <= date /\ FirstDayOf(m) \in Nat BY <1>1, MonthHasDays, MonthsInOrder
  <2> QED BY <1>1, <2>1
<1>5. InstanceIsSummed(doc, m, spent[i]) BY <1>1 DEF SummedInv
<1>6. spent[i] \in [Days -> Int] BY DEF ShapeInv
<1>7. /\ \A d \in Days : usage[d] = IF d = date THEN spent[i][date] + q ELSE spent[i][d]
      /\ spent[i][date] \in Int
  BY <1>1, <1>6
<1>8. /\ "day" \in Dimensions /\ "month" \in Dimensions /\ P \in [Dimensions -> Seq(Cell)]
      /\ Len(P["day"]) > SlackDays
  BY <1>1 DEF Dimensions, InstanceWindows
<1>9. /\ doc = NoDocument =>
            \A dim \in Dimensions : \A j \in 1 .. Len(P[dim]) : P[dim][j] = EmptyCell
      /\ doc # NoDocument /\ MonthOfDay(doc.processed) = MonthOfDay(today) =>
            P["month"][1] = doc.windows["month"][1]
      /\ doc # NoDocument =>
            \A d \in Nat : d <= today /\ today - d <= SlackDays =>
               P["day"][today - d + 1] = IF d > doc.processed THEN EmptyCell
                                         ELSE doc.windows["day"][doc.processed - d + 1]
  <2> HIDE DEF doc
  <2> QED BY <1>1, PreparedIs
<1>10. windows = Into(P, date, q) OBVIOUS
<1>11. \A dim \in Dimensions : CellAt(date, dim) \in 1 .. Len(P[dim]) BY <1>1
<1>12. P \in [Dimensions -> Seq(Cell)] BY <1>8
<1> HIDE DEF P, doc
<1>13. \A dim \in Dimensions :
          /\ windows[dim][CellAt(date, dim)].current = P[dim][CellAt(date, dim)].current + q
          /\ \A j \in 1 .. Len(P[dim]) : j # CellAt(date, dim) => windows[dim][j] = P[dim][j]
  BY <1>0, <1>10, <1>11, <1>12, IntoIs
<1>14. ASSUME MonthOfDay(today) = m
       PROVE  /\ windows["month"][1].current = SumFunctionOnSet(usage, DaysIn(m))
              /\ \A d \in DaysIn(m) :
                    /\ d > today => usage[d] = 0
                    /\ today - d \in 0 .. SlackDays =>
                          windows["day"][today - d + 1].current = usage[d]
  <2>1. /\ CellAt(date, "month") = 1 /\ CellAt(date, "day") = today - date + 1
    BY <1>1, <1>14, ItimeIs
  <2>2. ASSUME doc # NoDocument
        PROVE  /\ doc.processed \in Nat /\ doc.processed <= today
               /\ MonthOfDay(doc.processed) = m
    <3>1. doc.processed \in FirstDayOf(m) .. today BY <1>5, <2>2 DEF InstanceIsSummed
    <3>2. FirstDayOf(m) \in Nat /\ today <= LastDayOf(m) /\ LastDayOf(m) \in Nat
      BY <1>1, <1>14, MonthHasDays, MonthsInOrder
    <3>3. /\ doc.processed \in Nat /\ doc.processed <= today /\ FirstDayOf(m) <= doc.processed
          /\ doc.processed <= LastDayOf(m)
      BY <1>1, <3>1, <3>2
    <3> QED BY <1>1, <3>3, MonthHasDays
  <2>3. P["month"][1].current = SumFunctionOnSet(spent[i], DaysIn(m))
    <3>1. CASE doc = NoDocument
      <4>1. \A d \in DaysIn(m) : spent[i][d] = 0 BY <1>5, <3>1 DEF InstanceIsSummed
      <4>2. SumFunctionOnSet(spent[i], DaysIn(m)) = 0 BY <4>1, DaysAreFinite, SimpleSums
      <4>3. 1 \in 1 .. Len(P["month"]) BY <1>1, <1>8, <2>1
      <4>4. P["month"][1] = EmptyCell BY <1>8, <1>9, <3>1, <4>3, SMT
      <4> QED BY <4>2, <4>4, EmptyIsCell
    <3>2. CASE doc # NoDocument
      <4>1. P["month"][1] = doc.windows["month"][1]
        BY <1>14, <1>9, <2>2, <3>2
      <4> QED BY <1>5, <2>2, <3>2, <4>1 DEF InstanceIsSummed
    <3> QED BY <3>1, <3>2
  <2>4. ASSUME NEW d \in DaysIn(m), d > today PROVE usage[d] = 0
    <3>1. d \in Days /\ d # date BY <1>1, <2>4, DaysAreFinite
    <3>2. usage[d] = spent[i][d] BY <1>7, <3>1
    <3>3. CASE doc = NoDocument BY <1>5, <3>2, <3>3 DEF InstanceIsSummed
    <3>4. CASE doc # NoDocument
      <4>0. d \in Nat BY <3>1, DaysAreFinite
      <4>1. d > doc.processed BY <1>1, <2>2, <2>4, <3>4, <4>0
      <4> QED BY <1>5, <2>2, <3>2, <3>4, <4>1 DEF InstanceIsSummed
    <3> QED BY <3>3, <3>4
  <2>5. ASSUME NEW d \in DaysIn(m), today - d \in 0 .. SlackDays
        PROVE  P["day"][today - d + 1].current = spent[i][d] /\ today - d + 1 \in 1 .. Len(P["day"])
    <3>0. d \in Nat /\ SlackDays \in Nat BY DaysAreFinite, SlackHasCells
    <3>1. d \in Nat /\ d <= today /\ today - d <= SlackDays /\ SlackDays \in Nat
      BY <1>1, <2>5, <3>0
    <3>2. today - d + 1 \in 1 .. Len(P["day"])
      <4>1. Len(P["day"]) \in Nat BY <1>8
      <4> QED BY <1>1, <1>8, <3>1, <4>1
    <3>3. CASE doc = NoDocument
      <4>1. P["day"][today - d + 1] = EmptyCell BY <1>8, <1>9, <3>2, <3>3
      <4>2. spent[i][d] = 0 BY <1>5, <3>3 DEF InstanceIsSummed
      <4> QED BY <3>2, <4>1, <4>2, EmptyIsCell
    <3>4. CASE doc # NoDocument
      <4>1. P["day"][today - d + 1]
               = IF d > doc.processed THEN EmptyCell
                 ELSE doc.windows["day"][doc.processed - d + 1]
        BY <1>9, <3>1, <3>4
      <4>2. CASE d > doc.processed
        <5>1. spent[i][d] = 0 BY <1>5, <2>2, <3>4, <4>2 DEF InstanceIsSummed
        <5> QED BY <3>2, <4>1, <4>2, <5>1, EmptyIsCell
      <4>3. CASE ~(d > doc.processed)
        <5>1. doc.processed - d \in 0 .. SlackDays BY <1>1, <2>2, <3>1, <3>4, <4>3
        <5>2. doc.windows["day"][doc.processed - d + 1].current = spent[i][d]
          BY <1>5, <2>2, <3>4, <5>1 DEF InstanceIsSummed
        <5> QED BY <3>2, <4>1, <4>3, <5>2
      <4> QED BY <4>2, <4>3
    <3> QED BY <3>3, <3>4
  <2>6. windows["month"][1].current = SumFunctionOnSet(usage, DaysIn(m))
    <3> DEFINE f == spent[i]
    <3>1. \A u \in DaysIn(m) : f[u] \in Int BY <1>6, DaysAreFinite
    <3>2. usage[date] = f[date] + q /\ \A u \in DaysIn(m) \ {date} : usage[u] = f[u]
      BY <1>1, <1>7, DaysAreFinite
    <3> HIDE DEF f
    <3>3. SumFunctionOnSet(usage, DaysIn(m)) = SumFunctionOnSet(f, DaysIn(m)) + q
      <4> DEFINE S == DaysIn(m)
      <4>1. IsFiniteSet(S) /\ date \in S /\ q \in Int BY <1>0, <1>1, DaysAreFinite
      <4>2. \A u \in S : f[u] \in Int BY <3>1
      <4>3. usage[date] = f[date] + q /\ \A u \in S \ {date} : usage[u] = f[u] BY <3>2
      <4> HIDE DEF S
      <4>4. SumFunctionOnSet(usage, S) = SumFunctionOnSet(f, S) + q
        BY <4>1, <4>2, <4>3, SumGrows
      <4> QED BY <4>4 DEF S
    <3>4. windows["month"][1].current = P["month"][1].current + q BY <1>8, <1>13, <2>1
    <3> QED BY <2>3, <3>3, <3>4 DEF f
  <2>7. ASSUME NEW d \in DaysIn(m), today - d \in 0 .. SlackDays
        PROVE  windows["day"][today - d + 1].current = usage[d]
    <3>0. d \in Days /\ d \in Nat BY DaysAreFinite
    <3>1. CASE d = date BY <1>7, <1>8, <1>13, <2>1, <2>5, <2>7, <3>0, <3>1
    <3>2. CASE d # date
      <4>1. today - d + 1 # CellAt(date, "day") BY <1>1, <2>1, <3>0, <3>2
      <4>2. windows["day"][today - d + 1] = P["day"][today - d + 1]
        BY <1>8, <1>13, <2>5, <2>7, <4>1
      <4> QED BY <1>7, <2>5, <2>7, <3>0, <3>2, <4>2
    <3> QED BY <3>1, <3>2
  <2> QED BY <2>4, <2>6, <2>7
<1> HIDE DEF new
<1>15. InstanceIsSummed(new, m, usage)
  <2> HIDE DEF m
  <2> QED BY <1>2, <1>3, <1>4, <1>14 DEF InstanceIsSummed
<1> QED BY <1>15 DEF new, m

-----------------------------------------------------------------------------
(***************************************************************************)
(* What is on its way.                                                     *)
(***************************************************************************)
\* What a queue adds to a day is an integer.
LEMMA AddedIsInt ==
    ASSUME NEW u, InstanceWindows(u.windows)
    PROVE  Added(u) \in Int /\ \A d : AddedOn(u, d) \in Int
<1>1. u.windows["month"] \in Seq(Cell) /\ Len(u.windows["month"]) > 0
  BY DEF InstanceWindows, Dimensions
<1>2. u.windows["month"][1] \in Cell BY <1>1
<1>3. Added(u) \in Int BY <1>2 DEF Added, Cell
<1> QED BY <1>3 DEF AddedOn

\* What a queue adds to a day, with one usage more, and without its first.
LEMMA PendingMore ==
    ASSUME NEW S, NEW queue \in Seq(S), NEW u \in S, NEW d, \A v \in S : AddedOn(v, d) \in Int
    PROVE  /\ Pending(queue, d) \in Int
           /\ Pending(Append(queue, u), d) = Pending(queue, d) + AddedOn(u, d)
<1> DEFINE n == Len(queue)
           more == Append(queue, u)
           f == [k \in DOMAIN queue |-> AddedOn(queue[k], d)]
           g == [k \in DOMAIN more |-> AddedOn(more[k], d)]
<1>1. /\ n \in Nat /\ DOMAIN queue = 1 .. n /\ DOMAIN more = 1 .. n + 1
      /\ more[n + 1] = u /\ \A k \in 1 .. n : more[k] = queue[k] /\ queue[k] \in S
  OBVIOUS
<1>2. Pending(queue, d) = SumFunctionOnSet(f, 1 .. n) BY <1>1 DEF Pending
<1>3. Pending(more, d) = SumFunctionOnSet(g, 1 .. n + 1) BY <1>1 DEF Pending
<1>4. \A k \in 1 .. n : f[k] = AddedOn(queue[k], d) /\ f[k] \in Int BY <1>1
<1>5. \A k \in 1 .. n + 1 : g[k] = AddedOn(more[k], d) BY <1>1
<1> HIDE DEF n, more, f, g
<1>6. \A k \in 1 .. n : g[k] = f[k] BY <1>1, <1>4, <1>5
<1>7. g[n + 1] = AddedOn(u, d) BY <1>1, <1>5
<1>8. \A k \in 1 .. n + 1 : g[k] \in Int
  <2> TAKE k \in 1 .. n + 1
  <2>1. CASE k = n + 1 BY <1>7, <2>1
  <2>2. CASE k # n + 1
    <3>1. k \in 1 .. n BY <1>1, <2>2
    <3> QED BY <1>4, <1>6, <3>1
  <2> QED BY <2>1, <2>2
<1>9. SumFunctionOnSet(g, 1 .. n + 1) = SumFunctionOnSet(f, 1 .. n) + g[n + 1]
  BY <1>1, <1>6, <1>8, SumOfMore
<1>10. SumFunctionOnSet(f, 1 .. n) \in Int
  <2>1. IsFiniteSet(1 .. n) BY <1>1, FS_Interval
  <2>2. \A k \in 1 .. n : f[k] \in Int BY <1>4
  <2> DEFINE R == 1 .. n
  <2>3. IsFiniteSet(R) /\ \A k \in R : f[k] \in Int BY <2>1, <2>2
  <2> HIDE DEF R
  <2>4. SumFunctionOnSet(f, R) \in Int BY <2>3, SumIsInt
  <2> QED BY <2>4 DEF R
<1> QED BY <1>2, <1>3, <1>7, <1>9, <1>10 DEF more

\* What a queue adds to a day, without its first usage.
LEMMA PendingRest ==
    ASSUME NEW S, NEW queue \in Seq(S), queue # <<>>, NEW d, \A v \in S : AddedOn(v, d) \in Int
    PROVE  Pending(queue, d) = Pending(Tail(queue), d) + AddedOn(Head(queue), d)
<1> DEFINE n == Len(queue) - 1
           rest == Tail(queue)
           f == [k \in DOMAIN queue |-> AddedOn(queue[k], d)]
           g == [k \in DOMAIN rest |-> AddedOn(rest[k], d)]
<1>1. /\ n \in Nat /\ DOMAIN queue = 1 .. n + 1 /\ DOMAIN rest = 1 .. n
      /\ queue[1] = Head(queue) /\ \A k \in 1 .. n : rest[k] = queue[k + 1]
      /\ \A k \in 1 .. n + 1 : queue[k] \in S
  OBVIOUS
<1>2. Pending(queue, d) = SumFunctionOnSet(f, 1 .. n + 1) BY <1>1 DEF Pending
<1>3. Pending(rest, d) = SumFunctionOnSet(g, 1 .. n) BY <1>1 DEF Pending
<1>4. \A k \in 1 .. n + 1 : f[k] = AddedOn(queue[k], d) BY <1>1
<1>5. \A k \in 1 .. n : g[k] = AddedOn(rest[k], d) BY <1>1
<1> HIDE DEF n, rest, f, g
<1>6. \A k \in 1 .. n : g[k] = f[k + 1]
  <2> TAKE k \in 1 .. n
  <2>1. k + 1 \in 1 .. n + 1 BY <1>1
  <2> QED BY <1>1, <1>4, <1>5, <2>1
<1>7. f[1] = AddedOn(Head(queue), d)
  <2>1. 1 \in 1 .. n + 1 BY <1>1
  <2> QED BY <1>1, <1>4, <2>1
<1>8. \A k \in 1 .. n + 1 : f[k] \in Int BY <1>1, <1>4
<1>9. SumFunctionOnSet(f, 1 .. n + 1) = SumFunctionOnSet(g, 1 .. n) + f[1]
  BY <1>1, <1>6, <1>8, SumOfRest
<1> QED BY <1>2, <1>3, <1>7, <1>9 DEF rest

\* The usages of a queue.
LEMMA QueueIs ==
    ASSUME ShapeInv, PostedInv, NEW i \in Instances
    PROVE  LET S == {v \in ToSet(posted[i]) : Consistent(v)}
           IN  /\ posted[i] \in Seq(S)
               /\ \A v \in S : Consistent(v) /\ \A d : AddedOn(v, d) \in Int
<1> DEFINE q == posted[i]
           T == ToSet(q)
           S == {v \in T : Consistent(v)}
<1>1. q \in Seq(T) BY DEF ShapeInv
<1>2. \A n \in 1 .. Len(q) : q[n] \in S
  <2> TAKE n \in 1 .. Len(q)
  <2>1. n \in DOMAIN q /\ q[n] \in T BY <1>1
  <2> QED BY <2>1 DEF PostedInv
<1>3. q \in Seq(S)
  <2> HIDE DEF q, T, S
  <2> QED BY <1>1, <1>2
<1>4. \A v \in S : Consistent(v) /\ \A d : AddedOn(v, d) \in Int
  BY AddedIsInt DEF Consistent
<1> QED BY <1>3, <1>4

\* What is appended to a queue is in it, and so is what was.
LEMMA QueueGrows ==
    ASSUME NEW s, s \in Seq(ToSet(s)), NEW e
    PROVE  LET t == Append(s, e)
           IN  /\ t \in Seq(ToSet(t))
               /\ \A n \in DOMAIN t : t[n] = e \/ \E k \in DOMAIN s : t[n] = s[k]
<1> DEFINE t == Append(s, e)
           S == ToSet(s) \cup {e}
<1>1. /\ s \in Seq(S) /\ DOMAIN s = 1 .. Len(s) /\ Len(s) \in Nat
  <2>1. \A n \in 1 .. Len(s) : s[n] \in S OBVIOUS
  <2> QED BY <2>1
<1>2. /\ t \in Seq(S) /\ Len(t) = Len(s) + 1 /\ DOMAIN t = 1 .. Len(s) + 1
      /\ t[Len(s) + 1] = e /\ \A n \in 1 .. Len(s) : t[n] = s[n]
  BY <1>1
<1>3. \A n \in DOMAIN t : t[n] \in ToSet(t) BY DEF ToSet
<1>4. t \in Seq(ToSet(t)) BY <1>2, <1>3
<1>5. \A n \in DOMAIN t : t[n] = e \/ \E k \in DOMAIN s : t[n] = s[k] BY <1>1, <1>2
<1> QED BY <1>4, <1>5

\* What is left of a queue was in it.
LEMMA QueueShrinks ==
    ASSUME NEW s, s \in Seq(ToSet(s)), s # <<>>
    PROVE  LET t == Tail(s)
           IN  /\ t \in Seq(ToSet(t))
               /\ \A n \in DOMAIN t : \E k \in DOMAIN s : t[n] = s[k]
               /\ \E k \in DOMAIN s : Head(s) = s[k]
<1> DEFINE t == Tail(s)
<1>1. /\ DOMAIN s = 1 .. Len(s) /\ Len(s) \in Nat /\ Len(s) # 0 OBVIOUS
<1>2. /\ t \in Seq(ToSet(s)) /\ Len(t) = Len(s) - 1 /\ DOMAIN t = 1 .. Len(s) - 1
      /\ \A n \in 1 .. Len(s) - 1 : t[n] = s[n + 1]
  BY <1>1
<1>3. \A n \in 1 .. Len(t) : t[n] \in ToSet(t) BY <1>1, <1>2 DEF ToSet
<1>4. t \in Seq(ToSet(t))
  <2> DEFINE S == ToSet(s)
             T == ToSet(t)
  <2>1. t \in Seq(S) /\ \A n \in 1 .. Len(t) : t[n] \in T BY <1>2, <1>3
  <2> HIDE DEF S, T, t
  <2>2. t \in Seq(T) BY <2>1
  <2> QED BY <2>2 DEF T
<1>5. \A n \in DOMAIN t : \E k \in DOMAIN s : t[n] = s[k]
  <2> SUFFICES ASSUME NEW n \in DOMAIN t PROVE \E k \in DOMAIN s : t[n] = s[k]
    OBVIOUS
  <2>1. n + 1 \in DOMAIN s /\ t[n] = s[n + 1] BY <1>1, <1>2
  <2> QED BY <2>1
<1>6. 1 \in DOMAIN s /\ Head(s) = s[1] BY <1>1
<1> QED BY <1>4, <1>5, <1>6


-----------------------------------------------------------------------------
(***************************************************************************)
(* The steps.                                                              *)
(***************************************************************************)
\* The queues and the documents keep their shape.
LEMMA ShapeStays ==
    ASSUME ShapeInv, [WindowsNext]_windowVars PROVE ShapeInv'
<1>1. CASE UNCHANGED windowVars BY <1>1 DEF ShapeInv, windowVars
<1>2. ASSUME NEW i \in Instances, NEW date \in 0 .. today, NEW q \in Quantities,
             Accumulate(i, date, q)
      PROVE  ShapeInv'
  <2>1. PICK e : posted' = [posted EXCEPT ![i] = Append(@, e)]
    BY <1>2 DEF Accumulate
  <2>2. PICK doc : summed' = [summed EXCEPT ![i][MonthOfDay(date)] = doc]
    BY <1>2 DEF Accumulate
  <2>3. UNCHANGED <<today, aggregated>> /\ spent' = [spent EXCEPT ![i][date] = @ + q]
    BY <1>2 DEF Accumulate
  <2>4. q \in Nat /\ date \in Days BY UsageWindowsAssumption DEF ShapeInv, Days
  <2>5. spent' \in [Instances -> [Days -> Int]]
    <3>1. spent[i] \in [Days -> Int] /\ spent[i][date] + q \in Int BY <2>4 DEF ShapeInv
    <3>2. [spent[i] EXCEPT ![date] = @ + q] \in [Days -> Int] BY <2>4, <3>1
    <3>3. spent' = [spent EXCEPT ![i] = [spent[i] EXCEPT ![date] = @ + q]] BY <2>3
    <3> QED BY <3>2, <3>3 DEF ShapeInv
  <2>6. DOMAIN summed' = Instances /\ \A j \in Instances : DOMAIN summed'[j] = MonthsOfDays
    BY <2>2 DEF ShapeInv
  <2>7. DOMAIN posted' = Instances /\ \A j \in Instances : posted'[j] \in Seq(ToSet(posted'[j]))
    BY <2>1, QueueGrows DEF ShapeInv
  <2> QED BY <2>3, <2>5, <2>6, <2>7 DEF ShapeInv
<1>3. ASSUME NEW i \in Instances, Aggregate(i) PROVE ShapeInv'
  <2>1. /\ posted[i] # <<>> /\ posted' = [posted EXCEPT ![i] = Tail(@)]
        /\ UNCHANGED <<today, summed, spent>>
    BY <1>3 DEF Aggregate
  <2>2. DOMAIN aggregated' = Keys /\ \A k \in Keys : DOMAIN aggregated'[k] = DOMAIN aggregated[k]
    BY <1>3 DEF Aggregate
  <2>3. DOMAIN posted' = Instances /\ \A j \in Instances : posted'[j] \in Seq(ToSet(posted'[j]))
    BY <2>1, QueueShrinks DEF ShapeInv
  <2> QED BY <2>1, <2>2, <2>3 DEF ShapeInv
<1>4. CASE NextDay BY <1>4, UsageWindowsAssumption DEF NextDay, ShapeInv, Days
<1> QED BY <1>1, <1>2, <1>3, <1>4 DEF WindowsNext

\* What the aggregator has got.
LEMMA ReceivedIs ==
    ASSUME ShapeInv, PostedInv
    PROVE  /\ Received \in [Instances -> [Days -> Int]]
           /\ \A i \in Instances, d \in Days :
                 /\ Received[i][d] = spent[i][d] - Pending(posted[i], d)
                 /\ spent[i][d] \in Int /\ Pending(posted[i], d) \in Int
<1>1. ASSUME NEW i \in Instances, NEW d \in Days
      PROVE  spent[i][d] \in Int /\ Pending(posted[i], d) \in Int
  <2>1. PICK S : posted[i] \in Seq(S) /\ \A v \in S : \A e : AddedOn(v, e) \in Int BY QueueIs
  <2>2. CASE posted[i] = <<>>
    <3> DEFINE f == [n \in DOMAIN posted[i] |-> AddedOn(posted[i][n], d)]
    <3>1. DOMAIN posted[i] = {} BY <2>2
    <3>2. Pending(posted[i], d) = SumFunctionOnSet(f, {}) BY <3>1 DEF Pending
    <3> QED BY <3>2, SimpleSums DEF ShapeInv
  <2>3. CASE posted[i] # <<>>
    <3>1. Head(posted[i]) \in S BY <2>1, <2>3
    <3>2. Pending(posted[i], d) \in Int BY <2>1, <3>1, PendingMore
    <3> QED BY <3>2 DEF ShapeInv
  <2> QED BY <2>2, <2>3
<1> QED BY <1>1 DEF Received

\* Accumulated usage is on its way: the aggregator has not got it.
LEMMA AccumulateStep ==
    ASSUME ShapeInv, PostedInv, SummedInv, AggregatedInv, NEW i \in Instances,
           NEW date \in 0 .. today, NEW q \in Quantities, Accumulate(i, date, q), ~mixed'
    PROVE  PostedInv' /\ SummedInv' /\ AggregatedInv'
<1> DEFINE m == MonthOfDay(date)
           windows == Into(Prepared(summed[i][m], date), date, q)
           u == [end |-> date, processed |-> today, windows |-> windows]
           doc == [processed |-> today, windows |-> windows]
<1>1. /\ UNCHANGED <<today, aggregated, lagged>>
      /\ summed' = [summed EXCEPT ![i][m] = doc]
      /\ posted' = [posted EXCEPT ![i] = Append(@, u)]
      /\ spent' = [spent EXCEPT ![i][date] = @ + q]
  BY AccumulatedInto
<1>2. PICK w : w = windows OBVIOUS
<1>3. PICK v : v = u OBVIOUS
<1>4. PICK c : c = doc OBVIOUS
<1>5. Consistent(v) /\ Added(v) = q /\ v.end = date
  <2>1. v = [end |-> date, processed |-> today, windows |-> w] BY <1>2, <1>3
  <2> HIDE DEF windows, u
  <2>2. w = Into(Prepared(summed[i][MonthOfDay(date)], date), date, q) BY <1>2 DEF windows
  <2> QED BY <2>1, <2>2, NewIsConsistent
<1>6. PICK usage : usage = [spent[i] EXCEPT ![date] = @ + q] OBVIOUS
<1>7. InstanceIsSummed(c, m, usage)
  <2>1. c = [processed |-> today, windows |-> w] BY <1>2, <1>4
  <2> HIDE DEF windows, u, doc
  <2>2. w = Into(Prepared(summed[i][MonthOfDay(date)], date), date, q) BY <1>2 DEF windows
  <2> QED BY <1>6, <2>1, <2>2, IntoIsSummed
<1>8. date \in Days /\ m \in MonthsOfDays /\ m \in Nat /\ date \in DaysIn(m) BY SummedIs
<1>9. /\ summed' = [summed EXCEPT ![i] = [summed[i] EXCEPT ![m] = c]]
      /\ posted' = [posted EXCEPT ![i] = Append(posted[i], v)]
      /\ spent' = [spent EXCEPT ![i] = usage]
  BY <1>1, <1>3, <1>4, <1>6
<1> HIDE DEF windows, u, doc, m
<1>10. PostedInv'
  <2>1. ASSUME NEW j \in Instances, NEW n \in DOMAIN posted'[j] PROVE Consistent(posted'[j][n])
    <3>1. CASE j # i BY <1>9, <2>1, <3>1 DEF ShapeInv, PostedInv
    <3>2. CASE j = i
      <4>1. posted'[j] = Append(posted[i], v) BY <1>9, <3>2 DEF ShapeInv
      <4>2. posted[i] \in Seq(ToSet(posted[i])) BY DEF ShapeInv
      <4>3. posted'[j][n] = v \/ \E k \in DOMAIN posted[i] : posted'[j][n] = posted[i][k]
        BY <2>1, <4>1, <4>2, QueueGrows
      <4> QED BY <1>5, <4>3 DEF PostedInv
    <3> QED BY <3>1, <3>2
  <2>2. UNCHANGED today BY <1>1
  <2> QED BY <2>1, <2>2 DEF PostedInv, Consistent
<1>11. SummedInv'
  <2>1. ASSUME NEW j \in Instances, NEW n \in MonthsOfDays
        PROVE  InstanceIsSummed(summed'[j][n], n, spent'[j])
    <3>0. InstanceIsSummed(summed[j][n], n, spent[j]) BY DEF SummedInv
    <3>1. CASE j # i BY <1>9, <3>0, <3>1 DEF ShapeInv
    <3>2. CASE j = i /\ n = m BY <1>7, <1>8, <1>9, <3>2 DEF ShapeInv
    <3>3. CASE j = i /\ n # m
      <4>1. summed'[j][n] = summed[i][n] /\ spent'[j] = usage BY <1>9, <3>3 DEF ShapeInv
      <4>2. \A d \in DaysIn(n) : usage[d] = spent[i][d]
        <5> TAKE d \in DaysIn(n)
        <5>1. d # date
          <6>1. n \in Nat /\ d \in Nat
            BY DaysAreFinite, MonthHasDays DEF MonthsOfDays
          <6>2. MonthOfDay(d) = n BY <6>1, MonthHasDays DEF DaysIn, DaysOf
          <6> QED BY <3>3, <6>2 DEF m
        <5>2. d \in Days /\ spent[i] \in [Days -> Int] BY DaysAreFinite DEF ShapeInv
        <5> QED BY <1>6, <5>1, <5>2
      <4> QED BY <3>0, <3>3, <4>1, <4>2, SameUsageIsSummed
    <3> QED BY <3>1, <3>2, <3>3
  <2>2. UNCHANGED today BY <1>1
  <2> QED BY <2>1, <2>2 DEF SummedInv, InstanceIsSummed
<1>12. Received' = Received
  <2>1. ASSUME NEW j \in Instances, NEW d \in Days
        PROVE  spent'[j][d] - Pending(posted'[j], d) = spent[j][d] - Pending(posted[j], d)
    <3>1. CASE j # i BY <1>9, <3>1 DEF ShapeInv
    <3>2. CASE j = i
      <4>1. posted'[j] = Append(posted[i], v) /\ spent'[j] = usage BY <1>9, <3>2 DEF ShapeInv
      <4> DEFINE S == {x \in ToSet(posted[i]) : Consistent(x)}
                 T == S \cup {v}
      <4>2. posted[i] \in Seq(S) /\ \A x \in S : \A e : AddedOn(x, e) \in Int BY QueueIs
      <4>3. \A e : AddedOn(v, e) \in Int BY <1>5, AddedIsInt DEF Consistent
      <4> HIDE DEF S
      <4>4. posted[i] \in Seq(T) /\ v \in T /\ \A x \in T : AddedOn(x, d) \in Int
        BY <4>2, <4>3
      <4> HIDE DEF T
      <4>5. Pending(Append(posted[i], v), d) = Pending(posted[i], d) + AddedOn(v, d)
        BY <4>4, PendingMore
      <4>6. spent[i][d] \in Int /\ Pending(posted[i], d) \in Int BY ReceivedIs
      <4>7. usage[d] = spent[i][d] + AddedOn(v, d)
        <5>1. spent[i] \in [Days -> Int] BY DEF ShapeInv
        <5> QED BY <1>5, <1>6, <1>8, <4>6, <5>1 DEF AddedOn
      <4>8. AddedOn(v, d) \in Int BY <4>3
      <4>9. \A x, y, z \in Int : (x + z) - (y + z) = x - y OBVIOUS
      <4> QED BY <3>2, <4>1, <4>5, <4>6, <4>7, <4>8, <4>9
    <3> QED BY <3>1, <3>2
  <2> QED BY <2>1 DEF Received
<1>13. AggregatedInv'
  <2>1. UNCHANGED <<today, aggregated, lagged>> BY <1>1
  <2> QED BY <1>12, <2>1 DEF AggregatedInv, DocumentIsSummed
<1> QED BY <1>10, <1>11, <1>13

-----------------------------------------------------------------------------
(***************************************************************************)
(* The aggregator.                                                         *)
(***************************************************************************)
\* The record that the windows of the documents are folded through.
IsState(state) == state = [docs |-> state.docs, memo |-> state.memo, mixed |-> state.mixed]

\* A window that a formula has put its own result into.
WindowWith(window, usage, newEnd, dim) ==
    LET slot == TimeWindowIndex(newEnd, usage.end, dim) + 1
        long == Longer(window, Len(usage.windows[dim]), 0)
        cell == usage.windows[dim][slot]
    IN  IF slot > Len(usage.windows[dim]) THEN long
        ELSE [long EXCEPT ![slot] = long[slot] + cell.current - cell.previous]

\* The windows of a document with the usage in both windows of one plan.
PlansWith(plans, p, usage, newEnd) ==
    [plans EXCEPT ![p] = [dim \in Dimensions |-> WindowWith(plans[p][dim], usage, newEnd, dim)]]

\* The documents with one window of one plan of one key replaced.
DocsWith(docs, k, p, dim, window) == [docs EXCEPT ![k][p][dim] = window]

\* Once mixed up, it stays so.
LEMMA AggrWindowMixes ==
    ASSUME NEW state, IsState(state), NEW usage, NEW p, NEW newEnd, NEW k, NEW dim
    PROVE  LET next == AggrWindow(state, usage, p, newEnd, k, dim)
           IN  IsState(next) /\ (state.mixed => next.mixed)
<1> DEFINE slot == TimeWindowIndex(newEnd, usage.end, dim) + 1
           window == Longer(state.docs[k][p][dim], Len(usage.windows[dim]), 0)
           cell == usage.windows[dim][slot]
           key == AggregateKey(p, window[slot], cell)
           sum == window[slot] + cell.current - cell.previous
           new == Memoized(state.memo, key, sum)
           docs1 == [state.docs EXCEPT ![k][p][dim] = window]
           docs2 == [state.docs EXCEPT ![k][p][dim] = [window EXCEPT ![slot] = new]]
           memo2 == Remember(state.memo, key, new)
           next == AggrWindow(state, usage, p, newEnd, k, dim)
<1>1. next = IF slot > Len(usage.windows[dim])
             THEN [state EXCEPT !.docs = docs1]
             ELSE [docs |-> docs2, memo |-> memo2, mixed |-> state.mixed \/ new # sum]
  BY DEF AggrWindow
<1> DEFINE mixes == state.mixed \/ new # sum
<1>2. (state.mixed => mixes) OBVIOUS
<1> HIDE DEF docs1, docs2, memo2, new, sum, slot, next, mixes
<1>3. CASE slot > Len(usage.windows[dim])
  <2>1. next = [docs |-> docs1, memo |-> state.memo, mixed |-> state.mixed]
    BY <1>1, <1>3 DEF IsState
  <2>2. next.docs = docs1 /\ next.memo = state.memo /\ next.mixed = state.mixed BY <2>1
  <2> QED BY <2>1, <2>2 DEF IsState, next
<1>4. CASE ~(slot > Len(usage.windows[dim]))
  <2>1. next = [docs |-> docs2, memo |-> memo2, mixed |-> mixes]
    BY <1>1, <1>4 DEF mixes
  <2>2. next.docs = docs2 /\ next.memo = memo2 /\ next.mixed = mixes BY <2>1
  <2> QED BY <1>2, <2>1, <2>2 DEF IsState, next
<1> QED BY <1>3, <1>4

\* One window of one document.
LEMMA AggrWindowIs ==
    ASSUME NEW state, IsState(state), NEW usage, NEW p, NEW newEnd, NEW k, NEW dim,
           NEW next, next = AggrWindow(state, usage, p, newEnd, k, dim), ~next.mixed
    PROVE  next.docs = DocsWith(state.docs, k, p, dim,
                                WindowWith(state.docs[k][p][dim], usage, newEnd, dim))
<1> DEFINE slot == TimeWindowIndex(newEnd, usage.end, dim) + 1
           window == Longer(state.docs[k][p][dim], Len(usage.windows[dim]), 0)
           cell == usage.windows[dim][slot]
           key == AggregateKey(p, window[slot], cell)
           sum == window[slot] + cell.current - cell.previous
           new == Memoized(state.memo, key, sum)
           memo2 == Remember(state.memo, key, new)
           with == WindowWith(state.docs[k][p][dim], usage, newEnd, dim)
<1>1. next = IF slot > Len(usage.windows[dim])
             THEN [state EXCEPT !.docs = [state.docs EXCEPT ![k][p][dim] = window]]
             ELSE [docs |-> [state.docs EXCEPT ![k][p][dim] = [window EXCEPT ![slot] = new]],
                   memo |-> memo2, mixed |-> state.mixed \/ new # sum]
  BY DEF AggrWindow
<1>2. with = IF slot > Len(usage.windows[dim]) THEN window ELSE [window EXCEPT ![slot] = sum]
  BY DEF WindowWith
<1> HIDE DEF memo2, new, sum, slot, window, with
<1>3. CASE slot > Len(usage.windows[dim])
  <2>1. with = window BY <1>2, <1>3
  <2> DEFINE docs1 == [state.docs EXCEPT ![k][p][dim] = window]
  <2>2. next = [state EXCEPT !.docs = docs1] BY <1>1, <1>3
  <2> HIDE DEF docs1
  <2>3. next.docs = docs1 BY <2>2 DEF IsState
  <2> QED BY <2>1, <2>3 DEF docs1, with, DocsWith
<1>4. CASE ~(slot > Len(usage.windows[dim]))
  <2> DEFINE docs2 == [state.docs EXCEPT ![k][p][dim] = [window EXCEPT ![slot] = new]]
  <2> DEFINE mixes == state.mixed \/ new # sum
  <2> HIDE DEF docs2, mixes
  <2>1. next = [docs |-> docs2, memo |-> memo2, mixed |-> mixes]
    BY <1>1, <1>4 DEF docs2, mixes
  <2>2. next.docs = docs2 /\ next.mixed = mixes BY <2>1
  <2>3. next.docs = docs2 /\ new = sum BY <2>2 DEF mixes
  <2>4. with = [window EXCEPT ![slot] = new] BY <1>2, <1>4, <2>3
  <2> QED BY <2>3, <2>4 DEF docs2, with, DocsWith
<1> QED BY <1>3, <1>4

\* Documents of some keys, whose windows are of a kind.
Documents(K, W) == [K -> [Plans -> [Dimensions -> W]]]

\* The documents with a usage in the windows of one plan of one key.
DocWith(docs, k, p, usage, newEnd) ==
    [docs EXCEPT ![k] = PlansWith(docs[k], p, usage, newEnd)]

\* The windows of a document.
LEMMA AggrWindowsIs ==
    ASSUME NEW K, NEW W, NEW state, IsState(state), state.docs \in Documents(K, W),
           NEW usage, NEW p \in Plans, NEW newEnd, NEW k \in K,
           NEW next, next = AggrWindows(state, usage, p, newEnd, k), ~next.mixed
    PROVE  /\ IsState(next) /\ ~state.mixed
           /\ next.docs = DocWith(state.docs, k, p, usage, newEnd)
<1>1. PICK day : day = AggrWindow(state, usage, p, newEnd, k, "day") OBVIOUS
<1>2. next = AggrWindow(day, usage, p, newEnd, k, "month") BY <1>1 DEF AggrWindows
<1>3. IsState(day) /\ (state.mixed => day.mixed) BY <1>1, AggrWindowMixes
<1>4. IsState(next) /\ (day.mixed => next.mixed) BY <1>2, <1>3, AggrWindowMixes
<1> DEFINE plans == state.docs[k]
           wd == WindowWith(plans[p]["day"], usage, newEnd, "day")
           wm == WindowWith(plans[p]["month"], usage, newEnd, "month")
           windows == plans[p]
           with == [dim \in Dimensions |-> WindowWith(plans[p][dim], usage, newEnd, dim)]
<1>5. ~next.mixed /\ ~day.mixed BY <1>3, <1>4
<1>6. day.docs = [state.docs EXCEPT ![k][p]["day"] = wd]
  <2>1. day.docs = DocsWith(state.docs, k, p, "day",
                            WindowWith(state.docs[k][p]["day"], usage, newEnd, "day"))
    BY <1>1, <1>5, AggrWindowIs
  <2> QED BY <2>1 DEF DocsWith
<1>7. next.docs = [day.docs EXCEPT ![k][p]["month"] =
                     WindowWith(day.docs[k][p]["month"], usage, newEnd, "month")]
  <2>1. next.docs = DocsWith(day.docs, k, p, "month",
                             WindowWith(day.docs[k][p]["month"], usage, newEnd, "month"))
    BY <1>2, <1>3, <1>5, AggrWindowIs
  <2> QED BY <2>1 DEF DocsWith
<1>8. /\ "day" \in Dimensions /\ "month" \in Dimensions /\ Dimensions = {"day", "month"}
      /\ plans \in [Plans -> [Dimensions -> W]] /\ windows \in [Dimensions -> W]
  BY DEF Dimensions, Documents
<1>9. with = [[windows EXCEPT !["day"] = wd] EXCEPT !["month"] = wm]
  <2>1. \A dim \in Dimensions :
           with[dim] = [[windows EXCEPT !["day"] = wd] EXCEPT !["month"] = wm][dim]
    BY <1>8
  <2>2. /\ with = [dim \in Dimensions |-> with[dim]]
        /\ [[windows EXCEPT !["day"] = wd] EXCEPT !["month"] = wm]
           = [dim \in Dimensions |->
                [[windows EXCEPT !["day"] = wd] EXCEPT !["month"] = wm][dim]]
    BY <1>8
  <2> QED BY <2>1, <2>2
<1> HIDE DEF wd, with
<1>10. /\ day.docs[k] = [plans EXCEPT ![p] = [windows EXCEPT !["day"] = wd]]
       /\ day.docs = [state.docs EXCEPT ![k] = [plans EXCEPT ![p] = [windows EXCEPT !["day"] = wd]]]
  <2> DEFINE first == [windows EXCEPT !["day"] = wd]
  <2>1. day.docs = [state.docs EXCEPT ![k] = [plans EXCEPT ![p] = first]] BY <1>6
  <2> HIDE DEF first
  <2>2. day.docs[k] = [plans EXCEPT ![p] = first] BY <2>1 DEF Documents
  <2> QED BY <2>1, <2>2 DEF first
<1>11. /\ day.docs[k][p] = [windows EXCEPT !["day"] = wd]
       /\ day.docs[k][p]["month"] = windows["month"]
  <2> DEFINE first == [windows EXCEPT !["day"] = wd]
  <2> HIDE DEF first
  <2>1. day.docs[k] = [plans EXCEPT ![p] = first] BY <1>10 DEF first
  <2>2. day.docs[k][p] = first BY <1>8, <2>1
  <2>3. first["month"] = windows["month"] BY <1>8 DEF first
  <2> QED BY <2>2, <2>3 DEF first
<1>12. next.docs = [day.docs EXCEPT ![k] = [day.docs[k] EXCEPT ![p] =
                      [day.docs[k][p] EXCEPT !["month"] = wm]]]
  BY <1>7, <1>11
<1> HIDE DEF wm
<1>13. [day.docs[k][p] EXCEPT !["month"] = wm] = with BY <1>9, <1>11
<1>14. [day.docs[k] EXCEPT ![p] = with] = [plans EXCEPT ![p] = with] BY <1>8, <1>10
<1>15. next.docs = [state.docs EXCEPT ![k] = [plans EXCEPT ![p] = with]]
  BY <1>10, <1>12, <1>13, <1>14
<1>16. [plans EXCEPT ![p] = with] = PlansWith(plans, p, usage, newEnd) BY DEF PlansWith, with
<1> QED BY <1>3, <1>4, <1>15, <1>16 DEF DocWith

\* What the sum of a cell of a usage makes of a window.
AddsCell(v, window, cells, slot) ==
    /\ slot \in Nat \ {0}
    /\ slot <= Len(cells) =>
          /\ cells[slot].current - cells[slot].previous \in Int
          /\ \A j \in Nat :
                CellOf(v, j) = CellOf(window, j)
                   + (IF j = slot - 1 THEN cells[slot].current - cells[slot].previous ELSE 0)

\* A window with the quantity of a usage in the cell of its day or month.
LEMMA WindowWithIs ==
    ASSUME NEW newEnd \in Nat, NEW usage, usage.end \in Nat,
           usage.windows \in [Dimensions -> Seq(Cell)], NEW dim \in Dimensions,
           NEW window \in Seq(Int), NEW v, v = WindowWith(window, usage, newEnd, dim),
           NEW slot, slot = TimeWindowIndex(newEnd, usage.end, dim) + 1,
           NEW cells, cells = usage.windows[dim]
    PROVE  /\ v \in Seq(Int) /\ Len(v) >= Len(window) /\ Len(v) >= Len(cells)
           /\ AddsCell(v, window, cells, slot)
<1> DEFINE long == Longer(window, Len(cells), 0)
           q == cells[slot].current - cells[slot].previous
<1>1. slot \in Nat \ {0}
  <2>0. MonthOfDay(newEnd) \in Nat /\ MonthOfDay(usage.end) \in Nat BY MonthHasDays
  <2>1. Diff(usage.end, newEnd, dim) \in Int BY <2>0 DEF Diff, InDimension
  <2>2. PICK n : n = Diff(usage.end, newEnd, dim) OBVIOUS
  <2>3. slot = Max({0, n}) + 1 BY <2>2 DEF TimeWindowIndex
  <2>4. Max({0, n}) \in Nat BY <2>1, <2>2, AtLeastZero
  <2> QED BY <2>3, <2>4
<1>2. cells \in Seq(Cell) /\ Len(cells) \in Nat OBVIOUS
<1>3. /\ long \in Seq(Int) /\ Len(long) >= Len(window) /\ Len(long) >= Len(cells)
      /\ \A j \in Nat : CellOf(long, j) = CellOf(window, j)
  <2> DEFINE C == Int
             z == 0
  <2>0. window \in Seq(C) /\ z \in C /\ Len(cells) \in Int BY <1>2
  <2>1. long = Longer(window, Len(cells), z) OBVIOUS
  <2> HIDE DEF C, z, long
  <2>2. long \in Seq(C) /\ Len(long) >= Len(window) /\ Len(long) >= Len(cells)
    BY <2>0, <2>1, LongerIs
  <2>3. \A j \in Nat : CellOf(Longer(window, Len(cells), 0), j) = CellOf(window, j)
    BY <2>0, CellsStay
  <2> QED BY <2>2, <2>3 DEF C, long
<1>4. v = IF slot > Len(cells) THEN long
          ELSE [long EXCEPT ![slot] = long[slot] + cells[slot].current - cells[slot].previous]
  BY DEF WindowWith
<1> HIDE DEF long
<1>5. CASE slot > Len(cells) BY <1>1, <1>2, <1>3, <1>4, <1>5 DEF AddsCell
<1>6. CASE slot <= Len(cells)
  <2>1. cells[slot] \in Cell BY <1>1, <1>2, <1>6
  <2>2. cells[slot].current \in Int /\ cells[slot].previous \in Int /\ q \in Int
    BY <2>1 DEF Cell
  <2>3. slot \in 1 .. Len(long) /\ Len(long) \in Nat /\ long[slot] \in Int BY <1>1, <1>2, <1>3, <1>6
  <2>4. long[slot] + cells[slot].current - cells[slot].previous = long[slot] + q BY <2>2, <2>3
  <2>5. v = [long EXCEPT ![slot] = long[slot] + q] /\ long[slot] + q \in Int
    BY <1>1, <1>2, <1>4, <1>6, <2>2, <2>3, <2>4
  <2> HIDE DEF q
  <2>6. v \in Seq(Int) /\ Len(v) = Len(long)
    BY <1>3, <2>3, <2>5
  <2>7. ASSUME NEW j \in Nat
        PROVE  CellOf(v, j) = CellOf(window, j) + (IF j = slot - 1 THEN q ELSE 0)
    <3>1. CellOf(long, j) = CellOf(window, j) /\ CellOf(window, j) \in Int BY <1>3, CellsStay
    <3>2. CASE j = slot - 1
      <4>1. j < Len(long) /\ j + 1 = slot BY <1>1, <2>3, <3>2
      <4>2. CellOf(long, j) = long[slot] /\ CellOf(v, j) = long[slot] + q
        BY <1>3, <2>3, <2>5, <2>6, <4>1 DEF CellOf
      <4> QED BY <3>1, <3>2, <4>2
    <3>3. CASE j # slot - 1
      <4>1. j + 1 # slot BY <1>1, <3>3
      <4>2. CellOf(v, j) = CellOf(long, j) BY <1>3, <2>3, <2>5, <2>6, <4>1 DEF CellOf
      <4> QED BY <3>1, <3>3, <4>2
    <3> QED BY <3>2, <3>3
  <2> QED BY <1>1, <1>2, <1>3, <2>2, <2>6, <2>7 DEF q, AddsCell
<1> QED BY <1>1, <1>2, <1>5, <1>6 DEF AddsCell

\* The windows of the other plans are not touched.
OnlyIn(p, new, plans, usage, newEnd) ==
    /\ \A r \in Plans \ {p} : new[r] = plans[r]
    /\ \A dim \in Dimensions : new[p][dim] = WindowWith(plans[p][dim], usage, newEnd, dim)

\* The windows of the plans stay windows.
LEMMA PlansWithIs ==
    ASSUME NEW newEnd \in Nat, NEW usage, usage.end \in Nat,
           usage.windows \in [Dimensions -> Seq(Cell)],
           NEW plans \in [Plans -> [Dimensions -> Seq(Int)]], NEW p \in Plans,
           NEW new, new = PlansWith(plans, p, usage, newEnd)
    PROVE  /\ new \in [Plans -> [Dimensions -> Seq(Int)]]
           /\ \A r \in Plans, dim \in Dimensions : Len(new[r][dim]) >= Len(plans[r][dim])
           /\ OnlyIn(p, new, plans, usage, newEnd)
<1> DEFINE with == [dim \in Dimensions |-> WindowWith(plans[p][dim], usage, newEnd, dim)]
<1>1. \A dim \in Dimensions : with[dim] \in Seq(Int) /\ Len(with[dim]) >= Len(plans[p][dim])
  <2> TAKE dim \in Dimensions
  <2>1. plans[p][dim] \in Seq(Int) OBVIOUS
  <2>2. PICK v : v = WindowWith(plans[p][dim], usage, newEnd, dim) OBVIOUS
  <2>3. v \in Seq(Int) /\ Len(v) >= Len(plans[p][dim]) BY <2>1, <2>2, WindowWithIs
  <2> QED BY <2>2, <2>3
<1>2. with \in [Dimensions -> Seq(Int)] BY <1>1
<1>3. \A dim \in Dimensions : with[dim] = WindowWith(plans[p][dim], usage, newEnd, dim) OBVIOUS
<1>4. new = [plans EXCEPT ![p] = with] BY DEF PlansWith
<1> HIDE DEF with
<1>5. \A r \in Plans \ {p}, dim \in Dimensions : Len(plans[r][dim]) \in Nat OBVIOUS
<1>6. new[p] = with /\ \A r \in Plans \ {p} : new[r] = plans[r] BY <1>4
<1>7. \A r \in Plans, dim \in Dimensions : Len(new[r][dim]) >= Len(plans[r][dim])
  BY <1>1, <1>5, <1>6
<1> QED BY <1>2, <1>3, <1>4, <1>6, <1>7 DEF OnlyIn

\* An instance has a plan, and three keys.
LEMMA KeysDiffer ==
    ASSUME NEW i \in Instances
    PROVE  /\ PlanOfInstance[i] \in Plans
           /\ "organization" # SpaceOf[i] /\ "organization" # ConsumerOf[i]
           /\ SpaceOf[i] # ConsumerOf[i] /\ KeysOfInstance(i) \subseteq Keys
<1>1. /\ SpaceOf[i] \in Range(SpaceOf) /\ ConsumerOf[i] \in Range(ConsumerOf)
      /\ PlanOfInstance[i] \in Range(PlanOfInstance)
  BY UsageWindowsAssumption DEF Range
<1> QED BY <1>1, UsageWindowsAssumption DEF Plans, Keys, KeysOfInstance

\* Once mixed up, they stay so for all windows.
LEMMA AggrWindowsMix ==
    ASSUME NEW state, IsState(state), NEW usage, NEW p, NEW newEnd, NEW k,
           NEW next, next = AggrWindows(state, usage, p, newEnd, k)
    PROVE  IsState(next) /\ (state.mixed => next.mixed)
<1>1. PICK day : day = AggrWindow(state, usage, p, newEnd, k, "day") OBVIOUS
<1>2. IsState(day) /\ (state.mixed => day.mixed) BY <1>1, AggrWindowMixes
<1>3. next = AggrWindow(day, usage, p, newEnd, k, "month") BY <1>1 DEF AggrWindows
<1>4. IsState(next) /\ (day.mixed => next.mixed) BY <1>2, <1>3, AggrWindowMixes
<1> QED BY <1>2, <1>4

\* Once mixed up, they stay so for all documents of a usage.
LEMMA AggrMixes ==
    ASSUME NEW i, NEW usage, NEW newEnd, mixed
    PROVE  Aggr(i, usage, newEnd).mixed
<1> DEFINE docs == [k \in KeysOfInstance(i) |->
                      Shifted(aggregated[k][MonthOfDay(usage.end)], newEnd)]
           p == PlanOfInstance[i]
<1>0. PICK start : start = [docs |-> docs, memo |-> memo, mixed |-> mixed] OBVIOUS
<1>1. PICK org : org = AggrWindows(start, usage, p, newEnd, "organization") OBVIOUS
<1>2. PICK space : space = AggrWindows(org, usage, p, newEnd, SpaceOf[i]) OBVIOUS
<1>3. PICK new : new = AggrWindows(space, usage, p, newEnd, ConsumerOf[i]) OBVIOUS
<1>4. new = Aggr(i, usage, newEnd) BY <1>0, <1>1, <1>2, <1>3 DEF Aggr
<1> HIDE DEF docs, p
<1>5. IsState(start) /\ start.mixed BY <1>0 DEF IsState
<1>6. IsState(org) /\ org.mixed BY <1>1, <1>5, AggrWindowsMix
<1>7. IsState(space) /\ space.mixed BY <1>2, <1>6, AggrWindowsMix
<1>8. new.mixed BY <1>3, <1>7, AggrWindowsMix
<1> QED BY <1>4, <1>8

\* Windows that a usage is put into stay windows of the same kind.
StayWindows(W, p, usage, newEnd) ==
    \A plans \in [Plans -> [Dimensions -> W]] :
       PlansWith(plans, p, usage, newEnd) \in [Plans -> [Dimensions -> W]]

\* The windows of one document, then of another, and of the third.
LEMMA ThreeDocuments ==
    ASSUME NEW W, NEW o, NEW s, NEW c, o # s, o # c, s # c,
           NEW K, K = {o, s, c}, NEW p \in Plans, NEW usage, NEW newEnd,
           StayWindows(W, p, usage, newEnd),
           NEW start, IsState(start), start.docs \in Documents(K, W),
           NEW org, org = AggrWindows(start, usage, p, newEnd, o),
           NEW space, space = AggrWindows(org, usage, p, newEnd, s),
           NEW new, new = AggrWindows(space, usage, p, newEnd, c), ~new.mixed
    PROVE  \A k \in K : new.docs[k] = PlansWith(start.docs[k], p, usage, newEnd)
<1>1. ASSUME NEW docs \in Documents(K, W), NEW k \in K
      PROVE  LET next == DocWith(docs, k, p, usage, newEnd)
             IN  /\ next \in Documents(K, W)
                 /\ next[k] = PlansWith(docs[k], p, usage, newEnd)
                 /\ \A l \in K : l # k => next[l] = docs[l]
  <2>1. docs[k] \in [Plans -> [Dimensions -> W]] BY DEF Documents
  <2> DEFINE with == PlansWith(docs[k], p, usage, newEnd)
  <2>2. with \in [Plans -> [Dimensions -> W]] BY <2>1 DEF StayWindows
  <2> HIDE DEF with
  <2>3. DocWith(docs, k, p, usage, newEnd) = [docs EXCEPT ![k] = with] BY DEF DocWith, with
  <2>4. /\ [docs EXCEPT ![k] = with] \in Documents(K, W)
        /\ [docs EXCEPT ![k] = with][k] = with
        /\ \A l \in K : l # k => [docs EXCEPT ![k] = with][l] = docs[l]
    BY <2>2 DEF Documents
  <2> QED BY <2>3, <2>4 DEF with
<1>2. o \in K /\ s \in K /\ c \in K OBVIOUS
<1>3. IsState(org) BY AggrWindowsMix
<1>4. IsState(space) BY <1>3, AggrWindowsMix
<1>5. ~space.mixed BY <1>4, AggrWindowsMix
<1>6. ~org.mixed BY <1>3, <1>5, AggrWindowsMix
<1>7. o \in K /\ s \in K /\ c \in K BY <1>2
<1>8. org.docs = DocWith(start.docs, o, p, usage, newEnd)
  <2>1. o \in K BY <1>2
  <2> QED BY <1>6, <2>1, AggrWindowsIs
<1>9. org.docs \in Documents(K, W) BY <1>1, <1>2, <1>8
<1>10. space.docs = DocWith(org.docs, s, p, usage, newEnd)
  BY <1>2, <1>3, <1>5, <1>9, AggrWindowsIs
<1>11. space.docs \in Documents(K, W) BY <1>1, <1>2, <1>9, <1>10
<1>12. new.docs = DocWith(space.docs, c, p, usage, newEnd)
  BY <1>2, <1>4, <1>11, AggrWindowsIs
<1>13. /\ org.docs[o] = PlansWith(start.docs[o], p, usage, newEnd)
       /\ org.docs[s] = start.docs[s] /\ org.docs[c] = start.docs[c]
  BY <1>1, <1>2, <1>8
<1>14. /\ space.docs[s] = PlansWith(org.docs[s], p, usage, newEnd)
       /\ space.docs[o] = org.docs[o] /\ space.docs[c] = org.docs[c]
  <2>1. PICK d : d = org.docs OBVIOUS
  <2>2. d \in Documents(K, W) /\ space.docs = DocWith(d, s, p, usage, newEnd) BY <1>9, <1>10, <2>1
  <2>3. space.docs[s] = PlansWith(d[s], p, usage, newEnd) BY <1>1, <1>7, <2>2
  <2>4. space.docs[o] = d[o] /\ space.docs[c] = d[c] BY <1>1, <1>7, <2>2
  <2> QED BY <2>1, <2>3, <2>4
<1>15. /\ new.docs[c] = PlansWith(space.docs[c], p, usage, newEnd)
       /\ new.docs[o] = space.docs[o] /\ new.docs[s] = space.docs[s]
  <2>1. PICK d : d = space.docs OBVIOUS
  <2>2. d \in Documents(K, W) /\ new.docs = DocWith(d, c, p, usage, newEnd) BY <1>11, <1>12, <2>1
  <2>3. new.docs[c] = PlansWith(d[c], p, usage, newEnd) BY <1>1, <1>7, <2>2
  <2>4. new.docs[o] = d[o] /\ new.docs[s] = d[s] BY <1>1, <1>7, <2>2
  <2> QED BY <2>1, <2>3, <2>4
<1> QED BY <1>13, <1>14, <1>15

\* A usage is put into the windows of its plan of each of its documents.
LEMMA AggrIs ==
    ASSUME NEW i \in Instances, NEW newEnd \in Nat, NEW usage, usage.end \in Nat,
           usage.windows \in [Dimensions -> Seq(Cell)],
           \A k \in KeysOfInstance(i) :
              Shifted(aggregated[k][MonthOfDay(usage.end)], newEnd)
                 \in [Plans -> [Dimensions -> Seq(Int)]],
           NEW new, new = Aggr(i, usage, newEnd), ~new.mixed
    PROVE  \A k \in KeysOfInstance(i) :
              new.docs[k] = PlansWith(Shifted(aggregated[k][MonthOfDay(usage.end)], newEnd),
                                      PlanOfInstance[i], usage, newEnd)
<1> DEFINE K == KeysOfInstance(i)
           W == Seq(Int)
           docs == [k \in K |-> Shifted(aggregated[k][MonthOfDay(usage.end)], newEnd)]
           p == PlanOfInstance[i]
<1>0. PICK start : start = [docs |-> docs, memo |-> memo, mixed |-> mixed] OBVIOUS
<1>1. PICK org : org = AggrWindows(start, usage, p, newEnd, "organization") OBVIOUS
<1>2. PICK space : space = AggrWindows(org, usage, p, newEnd, SpaceOf[i]) OBVIOUS
<1>3. new = AggrWindows(space, usage, p, newEnd, ConsumerOf[i])
  BY <1>0, <1>1, <1>2 DEF Aggr
<1>4. p \in Plans /\ K = {"organization", SpaceOf[i], ConsumerOf[i]}
  BY KeysDiffer DEF KeysOfInstance
<1>5. docs \in Documents(K, W) BY DEF Documents
<1>6. \A k \in K : docs[k] = Shifted(aggregated[k][MonthOfDay(usage.end)], newEnd) OBVIOUS
<1>7. ASSUME NEW plans \in [Plans -> [Dimensions -> W]]
      PROVE  PlansWith(plans, p, usage, newEnd) \in [Plans -> [Dimensions -> W]]
  <2>1. PICK v : v = PlansWith(plans, p, usage, newEnd) OBVIOUS
  <2>2. v \in [Plans -> [Dimensions -> Seq(Int)]] BY <1>4, <2>1, PlansWithIs
  <2> QED BY <2>1, <2>2
<1>8. PICK pl : pl = p OBVIOUS
<1>9. PICK S : S = W OBVIOUS
<1>10. PICK L : L = K OBVIOUS
<1> HIDE DEF docs, p, K, W
<1>11. IsState(start) /\ start.docs = docs BY <1>0 DEF IsState
<1>12. \A k \in L : new.docs[k] = PlansWith(start.docs[k], pl, usage, newEnd)
  <2>1. /\ "organization" # SpaceOf[i] /\ "organization" # ConsumerOf[i]
        /\ SpaceOf[i] # ConsumerOf[i]
    BY KeysDiffer
  <2>2. L = {"organization", SpaceOf[i], ConsumerOf[i]} /\ pl \in Plans
    BY <1>4, <1>8, <1>10
  <2>3. start.docs \in Documents(L, S) BY <1>5, <1>9, <1>10, <1>11
  <2>4. StayWindows(S, pl, usage, newEnd) BY <1>7, <1>8, <1>9 DEF StayWindows
  <2>5. org = AggrWindows(start, usage, pl, newEnd, "organization") BY <1>1, <1>8
  <2>6. space = AggrWindows(org, usage, pl, newEnd, SpaceOf[i]) BY <1>2, <1>8
  <2>7. new = AggrWindows(space, usage, pl, newEnd, ConsumerOf[i]) BY <1>3, <1>8
  <2>8. IsState(start) BY <1>11
  <2>9. L = {"organization", SpaceOf[i], ConsumerOf[i]} BY <2>2
  <2>10. pl \in Plans BY <2>2
  <2>11. ~new.mixed OBVIOUS
  <2>12. PICK o, s, c : o = "organization" /\ s = SpaceOf[i] /\ c = ConsumerOf[i] OBVIOUS
  <2>13. o # s /\ o # c /\ s # c /\ L = {o, s, c} BY <2>1, <2>9, <2>12
  <2>14. /\ org = AggrWindows(start, usage, pl, newEnd, o)
         /\ space = AggrWindows(org, usage, pl, newEnd, s)
         /\ new = AggrWindows(space, usage, pl, newEnd, c)
    BY <2>5, <2>6, <2>7, <2>12
  <2> QED BY ONLY <2>3, <2>4, <2>8, <2>10, <2>11, <2>13, <2>14, ThreeDocuments
<1> QED BY <1>6, <1>8, <1>10, <1>11, <1>12 DEF K, p

\* There are finitely many plans, those of the instances.
LEMMA PlansAreFinite == IsFiniteSet(Plans)
<1> DEFINE f == [i \in Instances |-> PlanOfInstance[i]]
<1>1. Plans = {f[i] : i \in Instances}
  BY UsageWindowsAssumption DEF Plans, Range
<1>2. f \in [Instances -> Plans] BY <1>1
<1> HIDE DEF f
<1>3. f \in Surjection(Instances, Plans) BY <1>1, <1>2 DEF Surjection
<1> QED BY <1>3, UsageWindowsAssumption, FS_Surjection

\* The sums over the plans are integers, and those of equal cells are equal.
LEMMA SumOfPlansIs ==
    ASSUME NEW plans \in [Plans -> [Dimensions -> Seq(Int)]], NEW dim \in Dimensions, NEW j \in Nat
    PROVE  /\ SumOfPlans(plans, dim, j) \in Int
           /\ \A p \in Plans : CellOf(plans[p][dim], j) \in Int
           /\ (\A p \in Plans : CellOf(plans[p][dim], j) = 0) => SumOfPlans(plans, dim, j) = 0
<1> DEFINE f == [p \in Plans |-> CellOf(plans[p][dim], j)]
<1>1. \A p \in Plans : CellOf(plans[p][dim], j) \in Int
  <2> TAKE p \in Plans
  <2>1. plans[p][dim] \in Seq(Int) OBVIOUS
  <2> QED BY <2>1, CellsStay
<1>2. \A p \in Plans : f[p] \in Int BY <1>1
<1>3. SumOfPlans(plans, dim, j) = SumFunctionOnSet(f, Plans) BY DEF SumOfPlans
<1>4. (\A p \in Plans : CellOf(plans[p][dim], j) = 0) => \A p \in Plans : f[p] = 0 OBVIOUS
<1> HIDE DEF f
<1>5. SumFunctionOnSet(f, Plans) \in Int BY <1>2, PlansAreFinite, SumIsInt
<1>6. (\A p \in Plans : f[p] = 0) => SumFunctionOnSet(f, Plans) = 0
  BY PlansAreFinite, SimpleSums
<1> QED BY <1>1, <1>3, <1>4, <1>5, <1>6

\* Plans with the same cell have the same sum of it.
LEMMA EqualPlansSum ==
    ASSUME NEW old, NEW new, NEW dim, NEW j, NEW k,
           \A p \in Plans : CellOf(new[p][dim], j) = CellOf(old[p][dim], k)
    PROVE  SumOfPlans(new, dim, j) = SumOfPlans(old, dim, k)
<1> DEFINE f == [p \in Plans |-> CellOf(new[p][dim], j)]
           g == [p \in Plans |-> CellOf(old[p][dim], k)]
<1>1. \A p \in Plans : f[p] = g[p] OBVIOUS
<1>2. SumOfPlans(new, dim, j) = SumFunctionOnSet(f, Plans)
      /\ SumOfPlans(old, dim, k) = SumFunctionOnSet(g, Plans)
  BY DEF SumOfPlans
<1> HIDE DEF f, g
<1> QED BY <1>1, <1>2, PlansAreFinite, SumsEqual

\* The sum over the plans is larger by a quantity in one cell, and only there.
GrowsAt(new, plans, dim, slot, q) ==
    /\ slot \in Nat \ {0}
    /\ \A j \in Nat : SumOfPlans(new, dim, j)
                        = SumOfPlans(plans, dim, j) + (IF j = slot - 1 THEN q ELSE 0)

\* A usage adds to one cell of the sum over the plans.
LEMMA PlansGrow ==
    ASSUME NEW newEnd \in Nat, NEW usage, usage.end \in Nat,
           usage.windows \in [Dimensions -> Seq(Cell)],
           NEW plans \in [Plans -> [Dimensions -> Seq(Int)]], NEW p \in Plans,
           NEW new, new = PlansWith(plans, p, usage, newEnd), NEW dim \in Dimensions,
           NEW slot, slot = TimeWindowIndex(newEnd, usage.end, dim) + 1,
           slot <= Len(usage.windows[dim]),
           NEW q, q = usage.windows[dim][slot].current - usage.windows[dim][slot].previous
    PROVE  q \in Int /\ GrowsAt(new, plans, dim, slot, q)
<1> SUFFICES ASSUME NEW j \in Nat
             PROVE  /\ q \in Int /\ slot \in Nat \ {0}
                    /\ SumOfPlans(new, dim, j)
                          = SumOfPlans(plans, dim, j) + (IF j = slot - 1 THEN q ELSE 0)
  BY DEF GrowsAt
<1> DEFINE f == [r \in Plans |-> CellOf(plans[r][dim], j)]
           g == [r \in Plans |-> CellOf(new[r][dim], j)]
           more == IF j = slot - 1 THEN q ELSE 0
<1>1. PICK cells : cells = usage.windows[dim] OBVIOUS
<1>2. PICK v : v = WindowWith(plans[p][dim], usage, newEnd, dim) OBVIOUS
<1>3. plans[p][dim] \in Seq(Int) OBVIOUS
<1>4. /\ slot \in Nat \ {0} /\ q \in Int
      /\ CellOf(v, j) = CellOf(plans[p][dim], j) + more
  <2>1. PICK w : w = plans[p][dim] OBVIOUS
  <2>2. w \in Seq(Int) /\ v = WindowWith(w, usage, newEnd, dim) BY <1>2, <1>3, <2>1
  <2>3. AddsCell(v, w, cells, slot)
    BY <1>1, <2>2, WindowWithIs
  <2> QED BY <1>1, <2>1, <2>3 DEF AddsCell
<1>5. more \in Int BY <1>4
<1>6. new[p][dim] = v /\ \A r \in Plans \ {p} : new[r] = plans[r]
  <2>1. OnlyIn(p, new, plans, usage, newEnd) BY PlansWithIs
  <2> QED BY <1>2, <2>1 DEF OnlyIn
<1> HIDE DEF more
<1>7. g[p] = f[p] + more /\ \A r \in Plans \ {p} : g[r] = f[r] BY <1>4, <1>6
<1>8. \A r \in Plans : f[r] \in Int BY SumOfPlansIs
<1>9. /\ SumOfPlans(plans, dim, j) = SumFunctionOnSet(f, Plans)
      /\ SumOfPlans(new, dim, j) = SumFunctionOnSet(g, Plans)
  BY DEF SumOfPlans
<1> HIDE DEF f, g
<1>10. SumFunctionOnSet(g, Plans) = SumFunctionOnSet(f, Plans) + more
  BY <1>5, <1>7, <1>8, PlansAreFinite, SumGrows
<1> QED BY <1>4, <1>9, <1>10 DEF more

-----------------------------------------------------------------------------
\* The usage of the instances of a key, on some days.
LEMMA UsageOnIs ==
    ASSUME NEW usage \in [Instances -> [Days -> Int]], NEW k, NEW days \in SUBSET Days
    PROVE  /\ UsageOn(usage, k, days) \in Int
           /\ IsFiniteSet(InstancesOf(k)) /\ InstancesOf(k) \subseteq Instances
           /\ \A i \in Instances : SumFunctionOnSet(usage[i], days) \in Int
           /\ (\A i \in InstancesOf(k), d \in days : usage[i][d] = 0) =>
                 UsageOn(usage, k, days) = 0
<1> DEFINE f == [i \in InstancesOf(k) |-> SumFunctionOnSet(usage[i], days)]
<1>1. IsFiniteSet(days) BY DaysAreFinite, FS_Subset
<1>2. InstancesOf(k) \subseteq Instances BY DEF InstancesOf
<1>3. IsFiniteSet(InstancesOf(k)) BY <1>2, UsageWindowsAssumption, FS_Subset
<1>4. ASSUME NEW i \in Instances
      PROVE  /\ SumFunctionOnSet(usage[i], days) \in Int
             /\ (\A d \in days : usage[i][d] = 0) => SumFunctionOnSet(usage[i], days) = 0
  <2>1. PICK h : h = usage[i] OBVIOUS
  <2>2. \A d \in days : h[d] \in Int BY <2>1
  <2>3. SumFunctionOnSet(h, days) \in Int BY <1>1, <2>2, SumIsInt
  <2>4. (\A d \in days : h[d] = 0) => SumFunctionOnSet(h, days) = 0 BY <1>1, SimpleSums
  <2> QED BY <2>1, <2>3, <2>4
<1>5. \A i \in InstancesOf(k) : f[i] \in Int BY <1>2, <1>4
<1>6. UsageOn(usage, k, days) = SumFunctionOnSet(f, InstancesOf(k)) BY DEF UsageOn
<1>7. (\A i \in InstancesOf(k), d \in days : usage[i][d] = 0) =>
         \A i \in InstancesOf(k) : f[i] = 0
  BY <1>2, <1>4
<1> HIDE DEF f
<1>8. SumFunctionOnSet(f, InstancesOf(k)) \in Int BY <1>3, <1>5, SumIsInt
<1>9. (\A i \in InstancesOf(k) : f[i] = 0) => SumFunctionOnSet(f, InstancesOf(k)) = 0
  BY <1>3, SimpleSums
<1> QED BY <1>2, <1>3, <1>4, <1>6, <1>7, <1>8, <1>9

\* Equal usage on some days is the same usage of the instances of a key.
LEMMA EqualUsageOn ==
    ASSUME NEW usage \in [Instances -> [Days -> Int]], NEW more \in [Instances -> [Days -> Int]],
           NEW k, NEW days \in SUBSET Days,
           \A i \in InstancesOf(k), d \in days : more[i][d] = usage[i][d]
    PROVE  UsageOn(more, k, days) = UsageOn(usage, k, days)
<1> DEFINE f == [i \in InstancesOf(k) |-> SumFunctionOnSet(usage[i], days)]
           g == [i \in InstancesOf(k) |-> SumFunctionOnSet(more[i], days)]
<1>1. IsFiniteSet(days) BY DaysAreFinite, FS_Subset
<1>2. IsFiniteSet(InstancesOf(k)) BY UsageOnIs
<1>3. \A i \in InstancesOf(k) : g[i] = f[i]
  <2> TAKE i \in InstancesOf(k)
  <2>1. PICK h, l : h = usage[i] /\ l = more[i] OBVIOUS
  <2>2. \A d \in days : l[d] = h[d] BY <2>1
  <2>3. SumFunctionOnSet(l, days) = SumFunctionOnSet(h, days) BY <1>1, <2>2, SumsEqual
  <2> QED BY <2>1, <2>3
<1>4. /\ UsageOn(usage, k, days) = SumFunctionOnSet(f, InstancesOf(k))
      /\ UsageOn(more, k, days) = SumFunctionOnSet(g, InstancesOf(k))
  BY DEF UsageOn
<1> HIDE DEF f, g
<1> QED BY <1>2, <1>3, <1>4, SumsEqual

\* Usage is added to one day of an instance.
AddsOn(more, usage, i, day, q) ==
    \A j \in Instances, d \in Days :
       more[j][d] = IF j = i /\ d = day THEN usage[j][d] + q ELSE usage[j][d]

\* A usage of one of the instances and days adds its quantity.
LEMMA UsageOnGrows ==
    ASSUME NEW usage \in [Instances -> [Days -> Int]], NEW more \in [Instances -> [Days -> Int]],
           NEW k, NEW days \in SUBSET Days, NEW i \in InstancesOf(k), NEW day \in days,
           NEW q \in Int, AddsOn(more, usage, i, day, q)
    PROVE  UsageOn(more, k, days) = UsageOn(usage, k, days) + q
<1> DEFINE I == InstancesOf(k)
           f == [j \in I |-> SumFunctionOnSet(usage[j], days)]
           g == [j \in I |-> SumFunctionOnSet(more[j], days)]
<1>1. IsFiniteSet(days) BY DaysAreFinite, FS_Subset
<1>2. /\ IsFiniteSet(I) /\ I \subseteq Instances
      /\ \A j \in Instances : SumFunctionOnSet(usage[j], days) \in Int
  BY UsageOnIs
<1>3. ASSUME NEW j \in I, j # i PROVE g[j] = f[j]
  <2>1. PICK h, l : h = usage[j] /\ l = more[j] OBVIOUS
  <2>2. \A d \in days : l[d] = h[d] BY <1>2, <1>3, <2>1 DEF AddsOn
  <2>3. SumFunctionOnSet(l, days) = SumFunctionOnSet(h, days) BY <1>1, <2>2, SumsEqual
  <2> QED BY <2>1, <2>3
<1>4. g[i] = f[i] + q
  <2>1. PICK h, l : h = usage[i] /\ l = more[i] OBVIOUS
  <2>2. \A d \in days : h[d] \in Int BY <1>2, <2>1
  <2>3. l[day] = h[day] + q /\ \A d \in days \ {day} : l[d] = h[d] BY <1>2, <2>1 DEF AddsOn
  <2>4. SumFunctionOnSet(l, days) = SumFunctionOnSet(h, days) + q
    BY <1>1, <2>2, <2>3, SumGrows
  <2> QED BY <2>1, <2>4
<1>5. /\ UsageOn(usage, k, days) = SumFunctionOnSet(f, I)
      /\ UsageOn(more, k, days) = SumFunctionOnSet(g, I)
  BY DEF UsageOn
<1>6. \A j \in I : f[j] \in Int BY <1>2
<1>7. i \in I OBVIOUS
<1> HIDE DEF f, g, I
<1> QED BY <1>2, <1>3, <1>4, <1>5, <1>6, <1>7, SumGrows

\* The usage on one day.
LEMMA UsageOnDay ==
    ASSUME NEW usage \in [Instances -> [Days -> Int]], NEW more \in [Instances -> [Days -> Int]],
           NEW k, NEW i \in InstancesOf(k), NEW day \in Days, NEW q \in Int,
           AddsOn(more, usage, i, day, q),
           NEW e \in Days
    PROVE  UsageOn(more, k, {e}) = UsageOn(usage, k, {e}) + (IF e = day THEN q ELSE 0)
<1>1. PICK S : S = {e} OBVIOUS
<1>2. S \in SUBSET Days BY <1>1
<1>3. CASE e = day
  <2>1. day \in S BY <1>1, <1>3
  <2>2. UsageOn(more, k, S) = UsageOn(usage, k, S) + q BY <1>2, <2>1, UsageOnGrows
  <2> QED BY <1>1, <1>3, <2>2
<1>4. CASE e # day
  <2>1. \A j \in InstancesOf(k), d \in S : more[j][d] = usage[j][d]
    BY <1>1, <1>4 DEF InstancesOf, AddsOn
  <2>2. UsageOn(more, k, S) = UsageOn(usage, k, S) BY <1>2, <2>1, EqualUsageOn
  <2>3. UsageOn(usage, k, S) \in Int BY <1>2, UsageOnIs
  <2> QED BY <1>1, <1>4, <2>2, <2>3
<1> QED BY <1>3, <1>4

-----------------------------------------------------------------------------
(***************************************************************************)
(* A document of the aggregator, shifted to a day.                         *)
(***************************************************************************)
\* The first windows of the plans have one cell, with nothing in it.
LEMMA NewAggregateIs ==
    /\ NewAggregate \in PlanWindows
    /\ \A p \in Plans, dim \in Dimensions :
          /\ HasRoom(NewAggregate[p][dim])
          /\ \A j \in Nat : CellOf(NewAggregate[p][dim], j) = 0
<1> DEFINE w == <<0>>
<1>1. w \in Seq(Int) /\ Len(w) = 1 /\ DOMAIN w = {1} /\ w[1] = 0 OBVIOUS
<1>2. HasRoom(w) BY <1>1 DEF HasRoom
<1>3. \A j \in Nat : CellOf(w, j) = 0
  <2> TAKE j \in Nat
  <2>1. j < Len(w) => j + 1 = 1 BY <1>1
  <2> HIDE DEF w
  <2> QED BY <1>1, <2>1 DEF CellOf
<1>4. NewAggregate = [p \in Plans |-> [dim \in Dimensions |-> w]] BY DEF NewAggregate
<1> HIDE DEF w
<1>5. \A p \in Plans, dim \in Dimensions : NewAggregate[p][dim] = w BY <1>4
<1>6. NewAggregate \in [Plans -> [Dimensions -> Seq(Int)]] BY <1>1, <1>4
<1>7. NewAggregate \in PlanWindows
  <2>1. \A p \in Plans, dim \in Dimensions : Len(NewAggregate[p][dim]) > 0 BY <1>1, <1>5
  <2> QED BY <1>6, <2>1 DEF PlanWindows
<1> QED BY <1>2, <1>3, <1>5, <1>7

\* Whatever the day, the windows stay windows, and those of the month stay the
\* same within it.
LEMMA ShiftedIs ==
    ASSUME NEW doc, NEW day \in Nat,
           doc # NoDocument => doc.processed \in Nat /\ doc.plans \in PlanWindows,
           NEW new, new = Shifted(doc, day)
    PROVE  /\ new \in PlanWindows
           /\ doc = NoDocument => new = NewAggregate
           /\ doc # NoDocument /\ MonthOfDay(day) <= MonthOfDay(doc.processed) =>
                 \A p \in Plans : new[p]["month"] = doc.plans[p]["month"]
           /\ doc # NoDocument /\ day < doc.processed => new = doc.plans
           /\ doc # NoDocument /\ ~(day < doc.processed) =>
                 \A p \in Plans :
                    new[p]["day"] = ShiftWindow(doc.processed, day, doc.plans[p]["day"], "day", 0)
<1>1. CASE doc = NoDocument BY <1>1, NewAggregateIs DEF Shifted
<1>2. CASE doc # NoDocument /\ day < doc.processed BY <1>2 DEF Shifted
<1>3. CASE doc # NoDocument /\ ~(day < doc.processed)
  <2> DEFINE old == doc.plans
             w(p, dim) == ShiftWindow(doc.processed, day, old[p][dim], dim, 0)
  <2>0. /\ doc.processed \in Nat /\ old \in [Plans -> [Dimensions -> Seq(Int)]]
        /\ \A p \in Plans, dim \in Dimensions : Len(old[p][dim]) > 0
        /\ "day" \in Dimensions /\ "month" \in Dimensions
    BY <1>3 DEF PlanWindows, Dimensions
  <2>1. new = [p \in Plans |-> [dim \in Dimensions |-> w(p, dim)]]
    BY <1>3 DEF Shifted, ShiftWindows
  <2>2. ASSUME NEW p \in Plans, NEW dim \in Dimensions
        PROVE  /\ w(p, dim) \in Seq(Int) /\ Len(w(p, dim)) = Len(old[p][dim])
               /\ Diff(doc.processed, day, dim) <= 0 => w(p, dim) = old[p][dim]
    <3> DEFINE C == Int
               z == 0
    <3>1. PICK v : v = w(p, dim) OBVIOUS
    <3>2. PICK n : n = Diff(doc.processed, day, dim) OBVIOUS
    <3>3. PICK window : window = old[p][dim] OBVIOUS
    <3>4. window \in Seq(C) /\ z \in C BY <2>0, <3>3
    <3>5. v = ShiftWindow(doc.processed, day, window, dim, z) BY <3>1, <3>3
    <3>6. doc.processed \in Nat BY <2>0
    <3> HIDE DEF w, C, z, old
    <3>7. v \in Seq(C) /\ Len(v) = Len(window) /\ (n <= 0 => v = window)
      BY <3>2, <3>4, <3>5, <3>6, ShiftIs
    <3> QED BY <3>1, <3>2, <3>3, <3>7 DEF C
  <2> HIDE DEF w, old
  <2>3. new \in PlanWindows BY <2>0, <2>1, <2>2 DEF PlanWindows
  <2>4. ASSUME MonthOfDay(day) <= MonthOfDay(doc.processed), NEW p \in Plans
        PROVE  new[p]["month"] = old[p]["month"]
    <3>1. MonthOfDay(day) \in Nat /\ MonthOfDay(doc.processed) \in Nat BY <2>0, MonthHasDays
    <3>2. Diff(doc.processed, day, "month") <= 0 BY <2>4, <3>1 DEF Diff, InDimension
    <3> QED BY <2>0, <2>1, <2>2, <3>2
  <2>5. \A p \in Plans : new[p]["day"] = w(p, "day") BY <2>0, <2>1
  <2> QED BY <1>3, <2>3, <2>4, <2>5 DEF w, old
<1> QED BY <1>1, <1>2, <1>3

\* The sums of the days move with them.
LEMMA ShiftedDays ==
    ASSUME NEW doc, NEW day \in Nat, doc # NoDocument, doc.processed \in Nat,
           doc.processed <= day, doc.plans \in PlanWindows,
           \A p \in Plans : HasRoom(doc.plans[p]["day"]),
           NEW new, new = Shifted(doc, day), NEW n, n = day - doc.processed
    PROVE  /\ \A p \in Plans : HasRoom(new[p]["day"])
           /\ \A j \in 0 .. SlackDays :
                 SumOfPlans(new, "day", j)
                    = IF j < n THEN 0 ELSE SumOfPlans(doc.plans, "day", j - n)
<1> DEFINE old == doc.plans
<1>1. /\ n \in Nat /\ SlackDays \in Nat /\ "day" \in Dimensions
      /\ Diff(doc.processed, day, "day") = n
      /\ old \in [Plans -> [Dimensions -> Seq(Int)]]
  BY SlackHasCells DEF Diff, InDimension, PlanWindows, Dimensions
<1>2. new \in [Plans -> [Dimensions -> Seq(Int)]]
  <2>1. new \in PlanWindows BY ShiftedIs
  <2> QED BY <2>1 DEF PlanWindows
<1>3. \A p \in Plans :
         new[p]["day"] = ShiftWindow(doc.processed, day, old[p]["day"], "day", 0)
  BY ShiftedIs
<1>4. ASSUME NEW p \in Plans
      PROVE  /\ HasRoom(new[p]["day"])
             /\ \A j \in 0 .. SlackDays :
                   CellOf(new[p]["day"], j) = IF j < n THEN 0 ELSE CellOf(old[p]["day"], j - n)
  <2>1. PICK window : window = old[p]["day"] OBVIOUS
  <2>2. window \in Seq(Int) /\ HasRoom(window) BY <1>1, <2>1
  <2>3. Diff(doc.processed, day, "day") >= 0 BY <1>1
  <2>4. new[p]["day"] = ShiftWindow(doc.processed, day, window, "day", 0) BY <1>3, <2>1
  <2>5. PICK c : c = doc.processed OBVIOUS
  <2>6. PICK w : w = ShiftWindow(c, day, window, "day", 0) OBVIOUS
  <2>7. c \in Nat /\ Diff(c, day, "day") = n BY <1>1, <2>5
  <2>8. /\ HasRoom(w)
        /\ \A j \in 0 .. SlackDays : CellOf(w, j) = IF j < n THEN 0 ELSE CellOf(window, j - n)
    BY <1>1, <2>2, <2>6, <2>7, CellsShift
  <2> QED BY <2>1, <2>4, <2>5, <2>6, <2>8
<1> HIDE DEF old
<1>5. ASSUME NEW j \in 0 .. SlackDays
      PROVE  SumOfPlans(new, "day", j) = IF j < n THEN 0 ELSE SumOfPlans(old, "day", j - n)
  <2>1. j \in Nat BY <1>1
  <2>2. CASE j < n
    <3>1. \A p \in Plans : CellOf(new[p]["day"], j) = 0 BY <1>4, <2>2
    <3>2. SumOfPlans(new, "day", j) = 0 BY <1>1, <1>2, <2>1, <3>1, SumOfPlansIs
    <3> QED BY <2>2, <3>2
  <2>3. CASE ~(j < n)
    <3>1. \A p \in Plans : CellOf(new[p]["day"], j) = CellOf(old[p]["day"], j - n)
      BY <1>4, <2>3
    <3>2. SumOfPlans(new, "day", j) = SumOfPlans(old, "day", j - n) BY <3>1, EqualPlansSum
    <3> QED BY <2>3, <3>2
  <2> QED BY <2>2, <2>3
<1> QED BY <1>4, <1>5 DEF old

\* A document that is shifted within its month holds the same usage.
LEMMA ShiftedIsSummed ==
    ASSUME today \in Days, NEW usage \in [Instances -> [Days -> Int]], NEW k,
           NEW m \in MonthsOfDays, NEW doc, DocumentIsSummed(doc, k, m, usage),
           NEW day \in Nat, MonthOfDay(day) = m, NEW new, new = Shifted(doc, day)
    PROVE  /\ new \in PlanWindows
           /\ MonthIsSummed(new, k, m, usage)
           /\ ~lagged /\ (doc = NoDocument \/ NewestDay(doc, m) <= day) =>
                 DaysAreSummed(new, day, k, m, usage)
<1>1. /\ m \in Nat /\ FirstDayOf(m) \in Nat /\ LastDayOf(m) \in Nat
      /\ FirstDayOf(m) <= day /\ day <= LastDayOf(m) /\ today \in Nat
      /\ "day" \in Dimensions /\ "month" \in Dimensions /\ SlackDays \in Nat
      /\ DaysIn(m) \in SUBSET Days /\ DaysIn(m) \subseteq Nat
  BY DaysAreFinite, MonthHasDays, MonthsInOrder, SlackHasCells DEF MonthsOfDays, Dimensions
<1>2. doc # NoDocument => doc.processed \in Nat /\ FirstDayOf(m) <= doc.processed
                          /\ doc.plans \in PlanWindows
  BY <1>1 DEF DocumentIsSummed
<1>3. new \in PlanWindows BY <1>2, ShiftedIs
<1>4. new \in [Plans -> [Dimensions -> Seq(Int)]] BY <1>3 DEF PlanWindows
<1>5. MonthIsSummed(new, k, m, usage)
  <2>1. CASE doc = NoDocument
    <3>1. new = NewAggregate BY <2>1, ShiftedIs
    <3>2. \A p \in Plans : CellOf(new[p]["month"], 0) = 0 BY <1>1, <3>1, NewAggregateIs
    <3>3. SumOfPlans(new, "month", 0) = 0 BY <1>1, <1>4, <3>2, SumOfPlansIs
    <3>4. \A i \in InstancesOf(k), d \in DaysIn(m) : usage[i][d] = 0
      BY <2>1 DEF DocumentIsSummed
    <3>5. UsageOn(usage, k, DaysIn(m)) = 0 BY <1>1, <3>4, UsageOnIs
    <3> QED BY <3>3, <3>5 DEF MonthIsSummed
  <2>2. CASE doc # NoDocument
    <3>1. MonthOfDay(day) <= MonthOfDay(doc.processed)
      BY <1>1, <1>2, <2>2, MonthsInOrder
    <3>2. \A p \in Plans : new[p]["month"] = doc.plans[p]["month"]
      BY <1>2, <2>2, <3>1, ShiftedIs
    <3>3. \A p \in Plans : CellOf(new[p]["month"], 0) = CellOf(doc.plans[p]["month"], 0)
      BY <3>2
    <3>4. SumOfPlans(new, "month", 0) = SumOfPlans(doc.plans, "month", 0)
      BY <3>3, EqualPlansSum
    <3>5. MonthIsSummed(doc.plans, k, m, usage) BY <2>2 DEF DocumentIsSummed
    <3> QED BY <3>4, <3>5 DEF MonthIsSummed
  <2> QED BY <2>1, <2>2
<1>6. ASSUME ~lagged, doc = NoDocument \/ NewestDay(doc, m) <= day
      PROVE  DaysAreSummed(new, day, k, m, usage)
  <2>1. ASSUME NEW d \in DaysIn(m), \A i \in InstancesOf(k) : usage[i][d] = 0
        PROVE  UsageOn(usage, k, {d}) = 0
    <3>1. {d} \in SUBSET Days BY <1>1
    <3>2. \A i \in InstancesOf(k), e \in {d} : usage[i][e] = 0 BY <2>1
    <3> QED BY <3>1, <3>2, UsageOnIs
  <2>2. CASE doc = NoDocument
    <3>1. new = NewAggregate BY <2>2, ShiftedIs
    <3>2. \A p \in Plans : HasRoom(new[p]["day"]) BY <1>1, <3>1, NewAggregateIs
    <3>3. \A i \in InstancesOf(k), d \in DaysIn(m) : usage[i][d] = 0
      BY <2>2 DEF DocumentIsSummed
    <3>4. ASSUME NEW d \in DaysIn(m), day - d \in 0 .. SlackDays
          PROVE  SumOfPlans(new, "day", day - d) = UsageOn(usage, k, {d})
      <4>1. PICK j : j = day - d OBVIOUS
      <4>2. j \in Nat BY <1>1, <3>4, <4>1
      <4>3. \A p \in Plans : CellOf(new[p]["day"], j) = 0
        BY <1>1, <3>1, <4>2, NewAggregateIs
      <4>4. SumOfPlans(new, "day", j) = 0 BY <1>1, <1>4, <4>2, <4>3, SumOfPlansIs
      <4>5. UsageOn(usage, k, {d}) = 0 BY <2>1, <3>3
      <4> QED BY <4>1, <4>4, <4>5
    <3> QED BY <3>2, <3>3, <3>4 DEF DaysAreSummed
  <2>3. CASE doc # NoDocument /\ day < doc.processed
    <3>1. NewestDay(doc, m) = day BY <1>1, <1>2, <1>6, <2>3 DEF NewestDay
    <3>2. new = doc.plans BY <1>2, <2>3, ShiftedIs
    <3> QED BY <1>6, <2>3, <3>1, <3>2 DEF DocumentIsSummed
  <2>4. CASE doc # NoDocument /\ ~(day < doc.processed)
    <3>1. doc.processed <= day /\ NewestDay(doc, m) = doc.processed
      BY <1>1, <1>2, <2>4 DEF NewestDay
    <3>2. DaysAreSummed(doc.plans, doc.processed, k, m, usage)
      BY <1>6, <2>4, <3>1 DEF DocumentIsSummed
    <3>3. PICK n : n = day - doc.processed OBVIOUS
    <3>4. \A p \in Plans : HasRoom(doc.plans[p]["day"]) BY <3>2 DEF DaysAreSummed
    <3>5. /\ \A p \in Plans : HasRoom(new[p]["day"])
          /\ \A j \in 0 .. SlackDays :
                SumOfPlans(new, "day", j)
                   = IF j < n THEN 0 ELSE SumOfPlans(doc.plans, "day", j - n)
      BY <1>2, <2>4, <3>1, <3>3, <3>4, ShiftedDays
    <3>6. ASSUME NEW d \in DaysIn(m), d > day PROVE \A i \in InstancesOf(k) : usage[i][d] = 0
      <4>1. d > doc.processed BY <1>1, <1>2, <2>4, <3>1, <3>6
      <4> QED BY <3>2, <4>1 DEF DaysAreSummed
    <3>7. ASSUME NEW d \in DaysIn(m), day - d \in 0 .. SlackDays
          PROVE  SumOfPlans(new, "day", day - d) = UsageOn(usage, k, {d})
      <4>1. PICK j : j = day - d OBVIOUS
      <4>2. PICK c : c = doc.processed OBVIOUS
      <4>3. d \in Nat /\ c \in Nat /\ c <= day /\ n = day - c
        BY <1>1, <1>2, <2>4, <3>1, <3>3, <4>2
      <4>4. SumOfPlans(new, "day", j) = IF j < n THEN 0 ELSE SumOfPlans(doc.plans, "day", j - n)
        BY <3>5, <3>7, <4>1
      <4>5. CASE j < n
        <5>1. d > c BY <4>1, <4>3, <4>5
        <5>2. UsageOn(usage, k, {d}) = 0 BY <2>1, <3>2, <4>2, <5>1 DEF DaysAreSummed
        <5> QED BY <4>1, <4>4, <4>5, <5>2
      <4>6. CASE ~(j < n)
        <5>1. j - n = c - d /\ c - d \in 0 .. SlackDays BY <1>1, <3>7, <4>1, <4>3, <4>6
        <5>2. SumOfPlans(doc.plans, "day", c - d) = UsageOn(usage, k, {d})
          BY <3>2, <4>2, <5>1 DEF DaysAreSummed
        <5> QED BY <4>1, <4>4, <4>6, <5>1, <5>2
      <4> QED BY <4>5, <4>6
    <3> QED BY <3>5, <3>6, <3>7 DEF DaysAreSummed
  <2> QED BY <2>2, <2>3, <2>4
<1> QED BY <1>3, <1>5, <1>6

\* The time of a usage, and the cells that it goes into.
LEMMA UsageEndIs ==
    ASSUME today \in Days, NEW u, Consistent(u), NEW m, m = MonthOfDay(u.end),
           NEW newEnd, newEnd = CalculateUsageEnd(u)
    PROVE  /\ today \in Nat /\ u.end \in 0 .. today /\ u.end \in Days /\ u.end \in Nat
           /\ u.processed \in 0 .. today
           /\ m \in MonthsOfDays /\ m \in Nat /\ u.end \in DaysIn(m)
           /\ today \in FirstDayOf(m) .. today
           /\ newEnd \in Nat /\ u.end <= newEnd /\ MonthOfDay(newEnd) = m
           /\ TimeWindowIndex(newEnd, u.end, "month") = 0
           /\ TimeWindowIndex(newEnd, u.end, "day") = newEnd - u.end
           /\ Itime(u.end) \in Nat
           /\ Diff(u.processed, Itime(u.end), "month") <= 0
           /\ u.processed = today =>
                 /\ Diff(u.processed, Itime(u.end), "day") <= 0
                 /\ newEnd = EndOf(u)
                 /\ newEnd = IF today < LastDayOf(m) THEN today ELSE LastDayOf(m)
<1> DEFINE n == MonthOfDay(today)
           c == u.processed
           d == u.end
           o == MonthOfDay(c)
<1>1. /\ today \in Nat /\ today \in Days /\ c \in Nat /\ d \in Nat /\ d <= c /\ c <= today
      /\ c \in 0 .. today /\ d \in 0 .. today
  <2>1. today \in Nat BY DaysAreFinite
  <2>2. c \in 0 .. today /\ d \in 0 .. c BY DEF Consistent
  <2> HIDE DEF c, d
  <2> QED BY <2>1, <2>2
<1>2. d \in Days BY <1>1, UsageWindowsAssumption DEF Days
<1>3. m \in MonthsOfDays /\ m \in Nat /\ d \in DaysIn(m)
  BY <1>1, <1>2, MonthHasDays DEF MonthsOfDays, DaysIn, DaysOf
<1>4. /\ Itime(d) \in Nat /\ Itime(d) <= today /\ MonthOfDay(Itime(d)) = m
      /\ m = n => Itime(d) = today
  BY <1>1, ItimeIs
<1>5. /\ n \in Nat /\ o \in Nat /\ m <= o /\ o <= n
      /\ FirstDayOf(m) <= d /\ d <= LastDayOf(m) /\ FirstDayOf(m) \in Nat /\ LastDayOf(m) \in Nat
      /\ MonthOfDay(LastDayOf(m)) = m /\ today <= LastDayOf(n) /\ FirstDayOf(n) <= today
      /\ (m < n => LastDayOf(m) < FirstDayOf(n)) /\ FirstDayOf(n) \in Nat
  BY <1>1, <1>3, MonthHasDays, MonthsInOrder
<1>6. newEnd = IF m < n THEN LastDayOf(m) ELSE c BY DEF CalculateUsageEnd, IsOfLastMonth
<1>7. EndOf(u) = IF m < o THEN LastDayOf(m) ELSE c BY DEF EndOf
<1>8. MonthOfDay(c) = o /\ MonthOfDay(d) = m /\ MonthOfDay(today) = n OBVIOUS
<1>9. c = today => o = n OBVIOUS
<1> HIDE DEF n, o, c, d
<1>10. newEnd \in Nat /\ d <= newEnd /\ MonthOfDay(newEnd) = m
  <2>1. CASE m < n BY <1>1, <1>5, <1>6, <2>1
  <2>2. CASE ~(m < n)
    <3>1. o = m BY <1>3, <1>5, <2>2
    <3> QED BY <1>1, <1>6, <1>8, <2>2, <3>1
  <2> QED BY <2>1, <2>2
<1>11. /\ Diff(d, newEnd, "month") = 0 /\ Diff(d, newEnd, "day") = newEnd - d
  BY <1>3, <1>8, <1>10 DEF Diff, InDimension
<1>12. /\ TimeWindowIndex(newEnd, d, "month") = 0
       /\ TimeWindowIndex(newEnd, d, "day") = newEnd - d
  <2>1. newEnd - d \in Int /\ newEnd - d >= 0 BY <1>1, <1>10
  <2>2. PICK l : l = newEnd - d OBVIOUS
  <2>3. Max({0, l}) = l BY <2>1, <2>2, AtLeastZero
  <2>4. Max({0, 0}) = 0 BY AtLeastZero
  <2>5. TimeWindowIndex(newEnd, d, "day") = Max({0, l}) BY <1>11, <2>2 DEF TimeWindowIndex
  <2>6. TimeWindowIndex(newEnd, d, "month") = Max({0, 0}) BY <1>11 DEF TimeWindowIndex
  <2> QED BY <2>2, <2>3, <2>4, <2>5, <2>6
<1>13. Diff(c, Itime(d), "month") <= 0 BY <1>3, <1>4, <1>5, <1>8 DEF Diff, InDimension
<1>14. ASSUME c = today
       PROVE  /\ Diff(c, Itime(d), "day") <= 0
              /\ newEnd = EndOf(u)
              /\ newEnd = IF today < LastDayOf(m) THEN today ELSE LastDayOf(m)
  <2>1. Diff(c, Itime(d), "day") <= 0 BY <1>1, <1>4, <1>14 DEF Diff, InDimension
  <2>2. newEnd = EndOf(u) BY <1>6, <1>7, <1>9, <1>14
  <2>3. newEnd = IF today < LastDayOf(m) THEN today ELSE LastDayOf(m)
    <3>1. CASE m < n BY <1>1, <1>5, <1>6, <3>1
    <3>2. CASE ~(m < n)
      <4>1. m = n BY <1>3, <1>5, <3>2
      <4> QED BY <1>1, <1>5, <1>6, <1>14, <3>2, <4>1
    <3> QED BY <3>1, <3>2
  <2> QED BY <2>1, <2>2, <2>3
<1>15. today \in FirstDayOf(m) .. today BY <1>1, <1>5
<1> QED BY <1>1, <1>2, <1>3, <1>4, <1>10, <1>12, <1>13, <1>14, <1>15 DEF c, d

\* What a usage adds to its cells, by its month and by its day.
LEMMA UsageAdds ==
    ASSUME today \in Days, NEW u, Consistent(u), NEW newEnd, newEnd = CalculateUsageEnd(u),
           NEW days, days = TimeWindowIndex(newEnd, u.end, "day") + 1,
           NEW months, months = TimeWindowIndex(newEnd, u.end, "month") + 1
    PROVE  /\ u.windows \in [Dimensions -> Seq(Cell)] /\ Len(u.windows["day"]) > SlackDays
           /\ Added(u) \in Int
           /\ months <= Len(u.windows["month"]) /\ months = 1
           /\ u.windows["month"][months].current - u.windows["month"][months].previous = Added(u)
           /\ days = newEnd - u.end + 1
           /\ u.processed = today =>
                 /\ days <= Len(u.windows["day"])
                 /\ u.windows["day"][days].current - u.windows["day"][days].previous = Added(u)
<1>1. PICK m : m = MonthOfDay(u.end) OBVIOUS
<1>2. /\ TimeWindowIndex(newEnd, u.end, "month") = 0
      /\ TimeWindowIndex(newEnd, u.end, "day") = newEnd - u.end
      /\ u.processed = today => newEnd = EndOf(u)
  BY <1>1, UsageEndIs
<1>3. InstanceWindows(u.windows) BY DEF Consistent
<1>4. months = 1 /\ days = newEnd - u.end + 1 BY <1>2
<1>5. Added(u) \in Int BY <1>3, AddedIsInt
<1>6. Len(u.windows["month"]) \in Nat BY <1>3 DEF InstanceWindows, Dimensions
<1>7. u.processed = today =>
         /\ days <= Len(u.windows["day"])
         /\ u.windows["day"][days].current - u.windows["day"][days].previous = Added(u)
  BY <1>2, <1>4 DEF Consistent
<1>8. months <= Len(u.windows["month"]) BY <1>3, <1>4, <1>6 DEF InstanceWindows
<1> QED BY <1>3, <1>4, <1>5, <1>7, <1>8 DEF InstanceWindows, Added

\* A document with a usage in it holds that usage too.
LEMMA UsageIsIn ==
    ASSUME today \in Days, NEW usage \in [Instances -> [Days -> Int]],
           NEW more \in [Instances -> [Days -> Int]], NEW k, NEW i \in InstancesOf(k),
           NEW u, Consistent(u), NEW m, m = MonthOfDay(u.end),
           NEW newEnd, newEnd = CalculateUsageEnd(u),
           NEW doc, DocumentIsSummed(doc, k, m, usage),
           NEW old, old = Shifted(doc, newEnd), NEW p \in Plans,
           NEW new, new = PlansWith(old, p, u, newEnd),
           AddsOn(more, usage, i, u.end, Added(u))
    PROVE  /\ new \in PlanWindows
           /\ MonthIsSummed(new, k, m, more)
           /\ ~lagged /\ u.processed = today => DaysAreSummed(new, newEnd, k, m, more)
<1>1. /\ today \in Nat /\ u.end \in Nat /\ u.end \in Days /\ m \in MonthsOfDays /\ m \in Nat
      /\ u.end \in DaysIn(m) /\ newEnd \in Nat /\ u.end <= newEnd /\ MonthOfDay(newEnd) = m
      /\ u.processed = today => newEnd = IF today < LastDayOf(m) THEN today ELSE LastDayOf(m)
  BY UsageEndIs
<1>2. PICK days : days = TimeWindowIndex(newEnd, u.end, "day") + 1 OBVIOUS
<1>3. PICK months : months = TimeWindowIndex(newEnd, u.end, "month") + 1 OBVIOUS
<1>4. /\ u.windows \in [Dimensions -> Seq(Cell)] /\ Len(u.windows["day"]) > SlackDays
      /\ Added(u) \in Int
      /\ months <= Len(u.windows["month"]) /\ months = 1
      /\ u.windows["month"][months].current - u.windows["month"][months].previous = Added(u)
      /\ days = newEnd - u.end + 1
      /\ u.processed = today =>
            /\ days <= Len(u.windows["day"])
            /\ u.windows["day"][days].current - u.windows["day"][days].previous = Added(u)
  BY <1>2, <1>3, UsageAdds
<1>5. PICK q : q = Added(u) OBVIOUS
<1>6. /\ old \in PlanWindows
      /\ MonthIsSummed(old, k, m, usage)
      /\ ~lagged /\ (doc = NoDocument \/ NewestDay(doc, m) <= newEnd) =>
            DaysAreSummed(old, newEnd, k, m, usage)
  BY <1>1, ShiftedIsSummed
<1>7. "day" \in Dimensions /\ "month" \in Dimensions BY DEF Dimensions
<1>8. old \in [Plans -> [Dimensions -> Seq(Int)]] BY <1>6 DEF PlanWindows
<1>9. /\ new \in [Plans -> [Dimensions -> Seq(Int)]]
      /\ \A r \in Plans, dim \in Dimensions : Len(new[r][dim]) >= Len(old[r][dim])
      /\ OnlyIn(p, new, old, u, newEnd)
  BY <1>1, <1>4, <1>8, PlansWithIs
<1>10. new \in PlanWindows
  <2>1. \A r \in Plans, dim \in Dimensions : Len(new[r][dim]) > 0
    <3> TAKE r \in Plans, dim \in Dimensions
    <3>1. Len(old[r][dim]) > 0 /\ Len(old[r][dim]) \in Nat BY <1>6, <1>8 DEF PlanWindows
    <3>2. Len(new[r][dim]) \in Nat BY <1>9
    <3> QED BY <1>9, <3>1, <3>2
  <2> QED BY <1>9, <2>1 DEF PlanWindows
<1>11. DaysIn(m) \in SUBSET Days /\ Days \subseteq Nat BY DaysAreFinite
<1>12. q \in Int BY <1>4, <1>5
<1>13. \A j \in Instances, d \in Days :
          more[j][d] = IF j = i /\ d = u.end THEN usage[j][d] + q ELSE usage[j][d]
  BY <1>5 DEF AddsOn
<1>14. MonthIsSummed(new, k, m, more)
  <2>1. PICK l : l = 0 OBVIOUS
  <2>2. months <= Len(u.windows["month"]) /\ l \in Nat /\ l = months - 1 BY <1>4, <2>1
  <2>3. q = u.windows["month"][months].current - u.windows["month"][months].previous
    BY <1>4, <1>5
  <2>4. SumOfPlans(new, "month", l)
           = SumOfPlans(old, "month", l) + (IF l = months - 1 THEN q ELSE 0)
    <3>1. newEnd \in Nat /\ u.end \in Nat BY <1>1
    <3>2. u.windows \in [Dimensions -> Seq(Cell)] BY <1>4
    <3>3. new = PlansWith(old, p, u, newEnd) /\ p \in Plans OBVIOUS
    <3>4. months <= Len(u.windows["month"]) BY <1>4
    <3>5. GrowsAt(new, old, "month", months, q)
      BY ONLY <1>3, <1>7, <1>8, <2>3, <3>1, <3>2, <3>3, <3>4, PlansGrow
    <3> QED BY <2>2, <3>5 DEF GrowsAt
  <2>5. UsageOn(more, k, DaysIn(m)) = UsageOn(usage, k, DaysIn(m)) + q
    BY <1>1, <1>5, <1>11, <1>12, UsageOnGrows
  <2> QED BY <1>6, <2>1, <2>2, <2>4, <2>5 DEF MonthIsSummed
<1>15. ASSUME ~lagged, u.processed = today PROVE DaysAreSummed(new, newEnd, k, m, more)
  <2>1. doc = NoDocument \/ NewestDay(doc, m) <= newEnd
    <3>1. CASE doc # NoDocument
      <4>1. doc.processed \in FirstDayOf(m) .. today BY <3>1 DEF DocumentIsSummed
      <4>2. FirstDayOf(m) \in Nat /\ LastDayOf(m) \in Nat BY <1>1, MonthsInOrder
      <4>3. PICK c : c = doc.processed OBVIOUS
      <4>4. c \in Nat /\ c <= today BY <1>1, <4>1, <4>2, <4>3
      <4>5. newEnd = IF today < LastDayOf(m) THEN today ELSE LastDayOf(m) BY <1>1, <1>15
      <4>6. NewestDay(doc, m) = IF c < LastDayOf(m) THEN c ELSE LastDayOf(m)
        BY <4>3 DEF NewestDay
      <4> QED BY <1>1, <4>2, <4>4, <4>5, <4>6
    <3> QED BY <3>1
  <2>2. DaysAreSummed(old, newEnd, k, m, usage) BY <1>6, <1>15, <2>1
  <2>3. ASSUME NEW r \in Plans PROVE HasRoom(new[r]["day"])
    <3>1. CASE r # p
      <4>1. new[r] = old[r] BY <1>9, <3>1 DEF OnlyIn
      <4> QED BY <2>2, <4>1 DEF DaysAreSummed
    <3>2. CASE r = p
      <4>1. PICK w, v : w = old[p]["day"] /\ v = new[p]["day"] OBVIOUS
      <4>2. v = WindowWith(w, u, newEnd, "day") /\ w \in Seq(Int)
        BY <1>7, <1>8, <1>9, <4>1 DEF OnlyIn
      <4>3. PICK cells : cells = u.windows["day"] OBVIOUS
      <4>4. v \in Seq(Int) /\ Len(v) >= Len(cells)
        <5>1. newEnd \in Nat /\ u.end \in Nat BY <1>1
        <5>2. u.windows \in [Dimensions -> Seq(Cell)] BY <1>4
        <5> QED BY ONLY <1>2, <1>7, <4>2, <4>3, <5>1, <5>2, WindowWithIs
      <4>5. Len(cells) > SlackDays /\ Len(cells) \in Nat /\ SlackDays \in Nat
        BY <1>4, <1>7, <4>3, SlackHasCells
      <4>6. Len(v) > SlackDays /\ Len(v) \in Nat BY <4>4, <4>5
      <4> QED BY <3>2, <4>1, <4>6 DEF HasRoom
    <3> QED BY <3>1, <3>2
  <2>4. ASSUME NEW d \in DaysIn(m), d > newEnd
        PROVE  \A j \in InstancesOf(k) : more[j][d] = 0
    <3>1. d # u.end BY <1>1, <1>11, <2>4
    <3>2. \A j \in InstancesOf(k) : usage[j][d] = 0 BY <2>2, <2>4 DEF DaysAreSummed
    <3> QED BY <1>11, <1>13, <3>1, <3>2 DEF InstancesOf
  <2>5. ASSUME NEW d \in DaysIn(m), newEnd - d \in 0 .. SlackDays
        PROVE  SumOfPlans(new, "day", newEnd - d) = UsageOn(more, k, {d})
    <3>1. PICK l : l = newEnd - d OBVIOUS
    <3>2. l \in Nat /\ d \in Nat /\ (l = days - 1 <=> d = u.end)
      <4>1. PICK e : e = u.end OBVIOUS
      <4>2. e \in Nat /\ newEnd \in Nat /\ days = newEnd - e + 1 BY <1>1, <1>4, <4>1
      <4>3. d \in Nat /\ SlackDays \in Nat BY <1>11, SlackHasCells
      <4>4. l \in Nat BY <2>5, <3>1, <4>3
      <4>5. l = days - 1 <=> d = e BY <3>1, <4>2, <4>3
      <4> QED BY <4>1, <4>3, <4>4, <4>5
    <3>3. days <= Len(u.windows["day"]) BY <1>4, <1>15
    <3>4. q = u.windows["day"][days].current - u.windows["day"][days].previous
      BY <1>4, <1>5, <1>15
    <3>5. SumOfPlans(new, "day", l)
             = SumOfPlans(old, "day", l) + (IF l = days - 1 THEN q ELSE 0)
      <4>1. newEnd \in Nat /\ u.end \in Nat BY <1>1
      <4>2. u.windows \in [Dimensions -> Seq(Cell)] BY <1>4
      <4>3. new = PlansWith(old, p, u, newEnd) /\ p \in Plans OBVIOUS
      <4>4. GrowsAt(new, old, "day", days, q)
        BY ONLY <1>2, <1>7, <1>8, <3>3, <3>4, <4>1, <4>2, <4>3, PlansGrow
      <4> QED BY <3>2, <4>4 DEF GrowsAt
    <3>6. SumOfPlans(old, "day", l) = UsageOn(usage, k, {d})
      BY <2>2, <2>5, <3>1 DEF DaysAreSummed
    <3>7. d \in Days /\ i \in InstancesOf(k) BY <1>11
    <3>8. PICK e : e = u.end OBVIOUS
    <3>9. UsageOn(more, k, {d}) = UsageOn(usage, k, {d}) + (IF d = e THEN q ELSE 0)
      <4>1. /\ usage \in [Instances -> [Days -> Int]]
            /\ more \in [Instances -> [Days -> Int]]
        OBVIOUS
      <4>2. e \in Days BY <1>1, <3>8
      <4>3. AddsOn(more, usage, i, e, q) BY <1>5, <3>8
      <4> QED BY ONLY <1>12, <3>7, <4>1, <4>2, <4>3, UsageOnDay
    <3> QED BY <3>1, <3>2, <3>5, <3>6, <3>8, <3>9
  <2> QED BY <2>2, <2>3, <2>4, <2>5 DEF DaysAreSummed
<1> QED BY <1>10, <1>14, <1>15

\* The last shift, to a time that is not later, leaves the windows of the month as
\* they are.
LEMMA LastShift ==
    ASSUME NEW before \in Nat, NEW after \in Nat, Diff(before, after, "month") <= 0,
           NEW plans \in PlanWindows, NEW new,
           new = [p \in Plans |-> ShiftWindows(before, after, plans[p], 0)]
    PROVE  /\ new \in PlanWindows
           /\ \A p \in Plans : new[p]["month"] = plans[p]["month"]
           /\ Diff(before, after, "day") <= 0 => new = plans
<1> DEFINE w(p, dim) == ShiftWindow(before, after, plans[p][dim], dim, 0)
<1>1. /\ plans \in [Plans -> [Dimensions -> Seq(Int)]]
      /\ \A p \in Plans, dim \in Dimensions : Len(plans[p][dim]) > 0
      /\ "day" \in Dimensions /\ "month" \in Dimensions /\ Dimensions = {"day", "month"}
  BY DEF PlanWindows, Dimensions
<1>2. new = [p \in Plans |-> [dim \in Dimensions |-> w(p, dim)]] BY DEF ShiftWindows
<1>3. ASSUME NEW p \in Plans, NEW dim \in Dimensions
      PROVE  /\ w(p, dim) \in Seq(Int) /\ Len(w(p, dim)) = Len(plans[p][dim])
             /\ Diff(before, after, dim) <= 0 => w(p, dim) = plans[p][dim]
  <2> DEFINE C == Int
             z == 0
  <2>1. PICK v : v = w(p, dim) OBVIOUS
  <2>2. PICK n : n = Diff(before, after, dim) OBVIOUS
  <2>3. PICK window : window = plans[p][dim] OBVIOUS
  <2>4. window \in Seq(C) /\ z \in C BY <1>1, <2>3
  <2>5. v = ShiftWindow(before, after, window, dim, z) BY <2>1, <2>3
  <2> HIDE DEF w, C, z
  <2>6. v \in Seq(C) /\ Len(v) = Len(window) /\ (n <= 0 => v = window)
    BY <2>2, <2>4, <2>5, ShiftIs
  <2> QED BY <2>1, <2>2, <2>3, <2>6 DEF C
<1> HIDE DEF w
<1>4. new \in PlanWindows BY <1>1, <1>2, <1>3 DEF PlanWindows
<1>5. \A p \in Plans : new[p]["month"] = plans[p]["month"] BY <1>1, <1>2, <1>3
<1>6. ASSUME Diff(before, after, "day") <= 0 PROVE new = plans
  <2>1. \A p \in Plans, dim \in Dimensions : new[p][dim] = plans[p][dim]
    BY <1>1, <1>2, <1>3, <1>6
  <2>2. new \in [Plans -> [Dimensions -> Seq(Int)]] BY <1>4 DEF PlanWindows
  <2>3. \A p \in Plans : new[p] = plans[p]
    <3> TAKE p \in Plans
    <3>1. new[p] \in [Dimensions -> Seq(Int)] /\ plans[p] \in [Dimensions -> Seq(Int)]
      BY <1>1, <2>2
    <3> QED BY <2>1, <3>1
  <2> QED BY <1>1, <2>2, <2>3
<1> QED BY <1>4, <1>5, <1>6

\* What is said of the month of a document, at some time, and of its days.
MonthOfDocument(doc, k, m, usage, now) ==
    /\ doc = NoDocument => \A i \in InstancesOf(k), d \in DaysIn(m) : usage[i][d] = 0
    /\ doc # NoDocument =>
          /\ doc.processed \in FirstDayOf(m) .. now
          /\ doc.plans \in PlanWindows
          /\ MonthIsSummed(doc.plans, k, m, usage)

DaysOfDocument(doc, k, m, usage) ==
    doc # NoDocument => DaysAreSummed(doc.plans, NewestDay(doc, m), k, m, usage)

\* What a document of the aggregator holds, taken apart.
LEMMA DocumentHas ==
    ASSUME NEW doc, NEW k, NEW m, NEW usage
    PROVE  DocumentIsSummed(doc, k, m, usage)
              <=> /\ MonthOfDocument(doc, k, m, usage, today)
                  /\ ~lagged => DaysOfDocument(doc, k, m, usage)
BY DEF DocumentIsSummed, MonthOfDocument, DaysOfDocument

\* It is about the usage of the instances of the key, in the month, and as true
\* later.
LEMMA SameUsageIsAggregated ==
    ASSUME NEW usage \in [Instances -> [Days -> Int]], NEW more \in [Instances -> [Days -> Int]],
           NEW doc, NEW k, NEW m \in Nat, NEW now \in Nat, NEW then \in Nat, now <= then,
           \A i \in InstancesOf(k), d \in DaysIn(m) : more[i][d] = usage[i][d]
    PROVE  /\ MonthOfDocument(doc, k, m, usage, now) => MonthOfDocument(doc, k, m, more, then)
           /\ DaysOfDocument(doc, k, m, usage) => DaysOfDocument(doc, k, m, more)
<1>1. DaysIn(m) \in SUBSET Days BY DaysAreFinite
<1>2. UsageOn(more, k, DaysIn(m)) = UsageOn(usage, k, DaysIn(m)) BY <1>1, EqualUsageOn
<1>3. ASSUME NEW d \in DaysIn(m) PROVE UsageOn(more, k, {d}) = UsageOn(usage, k, {d})
  <2>1. PICK S : S = {d} OBVIOUS
  <2>2. S \in SUBSET Days BY <1>1, <2>1
  <2>3. \A i \in InstancesOf(k), e \in S : more[i][e] = usage[i][e] BY <2>1
  <2>4. UsageOn(more, k, S) = UsageOn(usage, k, S) BY <2>2, <2>3, EqualUsageOn
  <2> QED BY <2>1, <2>4
<1>4. ASSUME MonthOfDocument(doc, k, m, usage, now) PROVE MonthOfDocument(doc, k, m, more, then)
  <2>1. CASE doc = NoDocument BY <1>4, <2>1 DEF MonthOfDocument
  <2>2. CASE doc # NoDocument
    <3>1. FirstDayOf(m) \in Nat BY MonthsInOrder
    <3>2. doc.processed \in FirstDayOf(m) .. now BY <1>4, <2>2 DEF MonthOfDocument
    <3>3. PICK c : c = doc.processed OBVIOUS
    <3>4. c \in FirstDayOf(m) .. then BY <3>1, <3>2, <3>3
    <3>5. doc.plans \in PlanWindows /\ MonthIsSummed(doc.plans, k, m, usage)
      BY <1>4, <2>2 DEF MonthOfDocument
    <3>6. MonthIsSummed(doc.plans, k, m, more) BY <1>2, <3>5 DEF MonthIsSummed
    <3> QED BY <2>2, <3>3, <3>4, <3>5, <3>6 DEF MonthOfDocument
  <2> QED BY <2>1, <2>2
<1>5. ASSUME DaysOfDocument(doc, k, m, usage), doc # NoDocument
      PROVE  DaysAreSummed(doc.plans, NewestDay(doc, m), k, m, more)
  <2>1. PICK nd : nd = NewestDay(doc, m) OBVIOUS
  <2>2. PICK plans : plans = doc.plans OBVIOUS
  <2>3. DaysAreSummed(plans, nd, k, m, usage) BY <1>5, <2>1, <2>2 DEF DaysOfDocument
  <2>4. DaysAreSummed(plans, nd, k, m, more) BY <1>3, <2>3 DEF DaysAreSummed
  <2> QED BY <2>1, <2>2, <2>4
<1> QED BY <1>4, <1>5 DEF DaysOfDocument

\* The document that a usage was aggregated into holds it.
LEMMA NewDocumentIsSummed ==
    ASSUME today \in Days, NEW usage \in [Instances -> [Days -> Int]],
           NEW more \in [Instances -> [Days -> Int]], NEW k, NEW i \in InstancesOf(k),
           NEW u, Consistent(u), NEW m, m = MonthOfDay(u.end),
           NEW newEnd, newEnd = CalculateUsageEnd(u),
           NEW doc, DocumentIsSummed(doc, k, m, usage), NEW p \in Plans,
           NEW with, with = PlansWith(Shifted(doc, newEnd), p, u, newEnd),
           AddsOn(more, usage, i, u.end, Added(u)),
           NEW plans, plans = [r \in Plans |-> ShiftWindows(u.processed, Itime(u.end), with[r], 0)],
           NEW new, new = [processed |-> today, plans |-> plans]
    PROVE  /\ MonthOfDocument(new, k, m, more, today)
           /\ ~(lagged \/ u.processed < today) => DaysOfDocument(new, k, m, more)
<1>1. PICK old : old = Shifted(doc, newEnd) OBVIOUS
<1>2. with = PlansWith(old, p, u, newEnd) BY <1>1
<1>3. /\ with \in PlanWindows
      /\ MonthIsSummed(with, k, m, more)
      /\ ~lagged /\ u.processed = today => DaysAreSummed(with, newEnd, k, m, more)
  BY <1>1, <1>2, UsageIsIn
<1>4. /\ today \in Nat /\ u.processed \in 0 .. today /\ today \in FirstDayOf(m) .. today
      /\ Itime(u.end) \in Nat /\ Diff(u.processed, Itime(u.end), "month") <= 0
      /\ u.processed = today =>
            /\ Diff(u.processed, Itime(u.end), "day") <= 0
            /\ newEnd = IF today < LastDayOf(m) THEN today ELSE LastDayOf(m)
  BY UsageEndIs
<1>5. PICK before : before = u.processed OBVIOUS
<1>6. PICK after : after = Itime(u.end) OBVIOUS
<1>7. before \in Nat /\ after \in Nat /\ Diff(before, after, "month") <= 0 /\ before <= today
  BY <1>4, <1>5, <1>6
<1>8. plans = [r \in Plans |-> ShiftWindows(before, after, with[r], 0)] BY <1>5, <1>6
<1>9. /\ plans \in PlanWindows
      /\ \A r \in Plans : plans[r]["month"] = with[r]["month"]
      /\ Diff(before, after, "day") <= 0 => plans = with
  BY <1>3, <1>7, <1>8, LastShift
<1>10. new.processed = today /\ new.plans = plans OBVIOUS
<1>11. new # NoDocument
  <2>1. NoDocument.processed = -1 BY DEF NoDocument
  <2> QED BY <1>4, <1>10, <2>1
<1>12. MonthIsSummed(plans, k, m, more)
  <2>1. \A r \in Plans : CellOf(plans[r]["month"], 0) = CellOf(with[r]["month"], 0) BY <1>9
  <2>2. SumOfPlans(plans, "month", 0) = SumOfPlans(with, "month", 0) BY <2>1, EqualPlansSum
  <2> QED BY <1>3, <2>2 DEF MonthIsSummed
<1>13. ASSUME ~(lagged \/ u.processed < today)
       PROVE  DaysAreSummed(plans, NewestDay(new, m), k, m, more)
  <2>1. ~lagged /\ ~(before < today) BY <1>5, <1>13
  <2>2. before = today BY <1>4, <1>7, <2>1
  <2>3. u.processed = today BY <1>5, <2>2
  <2>4. Diff(before, after, "day") <= 0 BY <1>4, <1>5, <1>6, <2>3
  <2>5. plans = with BY <1>9, <2>4
  <2>6. NewestDay(new, m) = newEnd BY <1>4, <1>10, <2>3 DEF NewestDay
  <2> QED BY <1>3, <2>1, <2>3, <2>5, <2>6
<1> QED BY <1>4, <1>9, <1>10, <1>11, <1>12, <1>13 DEF MonthOfDocument, DaysOfDocument

\* Aggregated usage is what the aggregator has got.
LEMMA ReceivedMore ==
    ASSUME ShapeInv, PostedInv, NEW i \in Instances, Aggregate(i),
           NEW u, u = Head(posted[i]), NEW usage, usage = Received, NEW more, more = Received'
    PROVE  /\ Consistent(u) /\ AddsOn(more, usage, i, u.end, Added(u))
           /\ usage \in [Instances -> [Days -> Int]]
           /\ more \in [Instances -> [Days -> Int]]
<1>1. /\ posted[i] # <<>> /\ posted' = [posted EXCEPT ![i] = Tail(@)]
      /\ UNCHANGED <<today, spent>>
  BY DEF Aggregate
<1>2. PICK q : q = posted[i] OBVIOUS
<1>3. PICK S : q \in Seq(S) /\ \A v \in S : Consistent(v) /\ \A d : AddedOn(v, d) \in Int
  BY <1>2, QueueIs
<1>4. Consistent(u)
  <2>1. Head(q) \in S BY <1>1, <1>2, <1>3
  <2> QED BY <1>2, <1>3, <2>1
<1>5. usage \in [Instances -> [Days -> Int]] BY ReceivedIs
<1>6. AddsOn(more, usage, i, u.end, Added(u))
  <2>1. ASSUME NEW j \in Instances, NEW d \in Days
        PROVE  more[j][d] = IF j = i /\ d = u.end THEN usage[j][d] + Added(u) ELSE usage[j][d]
    <3>1. more[j][d] = spent[j][d] - Pending(posted'[j], d) BY <1>1 DEF Received
    <3>2. usage[j][d] = spent[j][d] - Pending(posted[j], d) BY DEF Received
    <3>3. CASE j # i BY <1>1, <3>1, <3>2, <3>3 DEF ShapeInv
    <3>4. CASE j = i
      <4>1. posted'[j] = Tail(q) BY <1>1, <1>2, <3>4 DEF ShapeInv
      <4>2. PICK a, b, c : a = Pending(q, d) /\ b = Pending(Tail(q), d) /\ c = AddedOn(u, d)
        OBVIOUS
      <4>3. \A v \in S : AddedOn(v, d) \in Int BY <1>3
      <4>4. q # <<>> /\ u = Head(q) BY <1>1, <1>2
      <4>5. a = b + c BY <1>3, <4>2, <4>3, <4>4, PendingRest
      <4>6. c \in Int
        <5>1. u \in S BY <1>3, <4>4
        <5> QED BY <4>2, <4>3, <5>1
      <4>7. a \in Int /\ spent[i][d] \in Int BY <1>2, <4>2, ReceivedIs
      <4>8. b \in Int
        <5>1. Tail(q) \in Seq(S) /\ u \in S BY <1>3, <4>4
        <5>2. Pending(Tail(q), d) \in Int BY <4>3, <5>1, PendingMore
        <5> QED BY <4>2, <5>2
      <4>9. spent[i][d] - b = spent[i][d] - a + c BY <4>5, <4>6, <4>7, <4>8
      <4>10. c = IF d = u.end THEN Added(u) ELSE 0 BY <4>2 DEF AddedOn
      <4>11. more[j][d] = usage[j][d] + c /\ usage[j][d] = spent[i][d] - a
        BY <1>2, <3>1, <3>2, <3>4, <4>1, <4>2, <4>9
      <4>12. usage[j][d] \in Int BY <4>7, <4>11
      <4> QED BY <3>4, <4>10, <4>11, <4>12
    <3> QED BY <3>3, <3>4
  <2> QED BY <2>1 DEF AddsOn
<1>7. more \in [Instances -> [Days -> Int]]
  <2>1. more = [j \in Instances |-> [d \in Days |-> spent'[j][d] - Pending(posted'[j], d)]]
    BY DEF Received
  <2>2. \A j \in Instances, d \in Days : more[j][d] \in Int
    <3>1. Added(u) \in Int BY <1>4, AddedIsInt DEF Consistent
    <3> QED BY <1>5, <1>6, <3>1 DEF AddsOn
  <2> QED BY <2>1, <2>2
<1> QED BY <1>4, <1>5, <1>6, <1>7

\* Aggregated usage is in the documents of its month.
LEMMA AggregateStep ==
    ASSUME ShapeInv, PostedInv, SummedInv, AggregatedInv, NEW i \in Instances, Aggregate(i), ~mixed'
    PROVE  PostedInv' /\ SummedInv' /\ AggregatedInv'
<1>1. PICK u : u = Head(posted[i]) OBVIOUS
<1>2. PICK newEnd : newEnd = CalculateUsageEnd(u) OBVIOUS
<1>3. PICK m : m = MonthOfDay(u.end) OBVIOUS
<1>4. PICK new : new = Aggr(i, u, newEnd) OBVIOUS
<1>5. PICK p : p = PlanOfInstance[i] OBVIOUS
<1>6. PICK usage : usage = Received OBVIOUS
<1>7. PICK more : more = Received' OBVIOUS
<1> DEFINE plans(k) == [r \in Plans |->
                          ShiftWindows(u.processed, Itime(u.end), new.docs[k][r], 0)]
           doc(k) == [processed |-> today, plans |-> plans(k)]
<1>8. /\ posted[i] # <<>> /\ posted' = [posted EXCEPT ![i] = Tail(@)]
      /\ aggregated' = [k \in Keys |->
            IF k \in KeysOfInstance(i) THEN [aggregated[k] EXCEPT ![m] = doc(k)] ELSE aggregated[k]]
      /\ mixed' = new.mixed
      /\ lagged' = (lagged \/ u.processed < today)
      /\ UNCHANGED <<today, summed, spent>>
  BY <1>1, <1>2, <1>3, <1>4 DEF Aggregate
<1> HIDE DEF doc
<1>9. /\ Consistent(u) /\ AddsOn(more, usage, i, u.end, Added(u))
      /\ usage \in [Instances -> [Days -> Int]] /\ more \in [Instances -> [Days -> Int]]
  BY <1>1, <1>6, <1>7, ReceivedMore
<1>10. today \in Days BY DEF ShapeInv
<1>11. /\ today \in Nat /\ u.end \in Days /\ u.end \in Nat /\ m \in MonthsOfDays /\ m \in Nat
       /\ newEnd \in Nat /\ MonthOfDay(newEnd) = m
  BY <1>2, <1>3, <1>9, <1>10, UsageEndIs
<1>12. ~new.mixed BY <1>8
<1>13. p \in Plans /\ KeysOfInstance(i) \subseteq Keys BY <1>5, KeysDiffer
<1>14. \A k \in Keys, n \in MonthsOfDays : DocumentIsSummed(aggregated[k][n], k, n, usage)
  BY <1>6 DEF AggregatedInv
<1>15. ASSUME NEW k \in KeysOfInstance(i)
       PROVE  Shifted(aggregated[k][m], newEnd) \in [Plans -> [Dimensions -> Seq(Int)]]
  <2>1. DocumentIsSummed(aggregated[k][m], k, m, usage) BY <1>11, <1>13, <1>14
  <2>2. PICK d, s : d = aggregated[k][m] /\ s = Shifted(d, newEnd) OBVIOUS
  <2>3. s \in PlanWindows BY <1>9, <1>10, <1>11, <2>1, <2>2, ShiftedIsSummed
  <2> QED BY <2>2, <2>3 DEF PlanWindows
<1>16. \A k \in KeysOfInstance(i) :
          new.docs[k] = PlansWith(Shifted(aggregated[k][m], newEnd), p, u, newEnd)
  <2>1. u.windows \in [Dimensions -> Seq(Cell)] BY <1>9 DEF Consistent, InstanceWindows
  <2>2. \A k \in KeysOfInstance(i) :
           Shifted(aggregated[k][MonthOfDay(u.end)], newEnd) \in [Plans -> [Dimensions -> Seq(Int)]]
    BY <1>3, <1>15
  <2>3. \A k \in KeysOfInstance(i) :
           new.docs[k] = PlansWith(Shifted(aggregated[k][MonthOfDay(u.end)], newEnd),
                                   PlanOfInstance[i], u, newEnd)
    BY <1>4, <1>11, <1>12, <2>1, <2>2, AggrIs
  <2> QED BY <1>3, <1>5, <2>3
<1>17. ASSUME NEW k \in KeysOfInstance(i) 
       PROVE  /\ MonthOfDocument(doc(k), k, m, more, today)
              /\ ~lagged' => DaysOfDocument(doc(k), k, m, more)
  <2>1. k \in Keys /\ i \in InstancesOf(k) BY <1>13 DEF InstancesOf
  <2>2. PICK old : old = aggregated[k][m] OBVIOUS
  <2>3. DocumentIsSummed(old, k, m, usage) BY <1>11, <1>14, <2>1, <2>2
  <2>4. PICK with : with = new.docs[k] OBVIOUS
  <2>5. with = PlansWith(Shifted(old, newEnd), p, u, newEnd) BY <1>16, <2>2, <2>4
  <2>6. PICK ps : ps = plans(k) OBVIOUS
  <2>7. ps = [r \in Plans |-> ShiftWindows(u.processed, Itime(u.end), with[r], 0)] BY <2>4, <2>6
  <2>8. PICK d : d = doc(k) OBVIOUS
  <2>9. d = [processed |-> today, plans |-> ps] BY <2>6, <2>8 DEF doc
  <2>10. /\ MonthOfDocument(d, k, m, more, today)
         /\ ~(lagged \/ u.processed < today) => DaysOfDocument(d, k, m, more)
    BY ONLY <1>2, <1>3, <1>9, <1>10, <1>13, <2>1, <2>3, <2>5, <2>7, <2>9,
            NewDocumentIsSummed
  <2> QED BY <1>8, <2>8, <2>10
<1>18. AggregatedInv'
  <2>1. ASSUME NEW k \in Keys, NEW n \in MonthsOfDays
        PROVE  /\ MonthOfDocument(aggregated'[k][n], k, n, more, today)
               /\ ~lagged' => DaysOfDocument(aggregated'[k][n], k, n, more)
    <3>1. CASE k \in KeysOfInstance(i) /\ n = m
      <4>1. aggregated'[k][n] = doc(k) BY <1>8, <1>11, <3>1 DEF ShapeInv
      <4> QED BY <1>17, <3>1, <4>1
    <3>2. CASE k \notin KeysOfInstance(i) \/ n # m
      <4>1. aggregated'[k][n] = aggregated[k][n] BY <1>8, <3>2 DEF ShapeInv
      <4>2. PICK d : d = aggregated[k][n] OBVIOUS
      <4>3. DocumentIsSummed(d, k, n, usage) BY <1>14, <4>2
      <4>4. /\ MonthOfDocument(d, k, n, usage, today)
            /\ ~lagged => DaysOfDocument(d, k, n, usage)
        BY <4>3, DocumentHas
      <4>5. \A j \in InstancesOf(k), e \in DaysIn(n) : more[j][e] = usage[j][e]
        <5> TAKE j \in InstancesOf(k), e \in DaysIn(n)
        <5>1. j \in Instances /\ k \in KeysOfInstance(j) BY DEF InstancesOf
        <5>2. e \in Days BY DaysAreFinite
        <5>3. ~(j = i /\ e = u.end)
          <6>1. CASE k \notin KeysOfInstance(i) BY <5>1, <6>1
          <6>2. CASE n # m
            <7>1. n \in Nat /\ e \in Nat BY DaysAreFinite, MonthHasDays DEF MonthsOfDays
            <7>2. MonthOfDay(e) = n BY <7>1, MonthHasDays DEF DaysIn, DaysOf
            <7> QED BY <1>3, <6>2, <7>2
          <6> QED BY <3>2, <6>1, <6>2
        <5> QED BY <1>9, <5>1, <5>2, <5>3 DEF AddsOn
      <4>6. n \in Nat BY DaysAreFinite, MonthHasDays DEF MonthsOfDays
      <4>7. today \in Nat /\ today <= today BY <1>11
      <4>8. /\ usage \in [Instances -> [Days -> Int]]
            /\ more \in [Instances -> [Days -> Int]]
        BY <1>9
      <4>9. /\ MonthOfDocument(d, k, n, usage, today) => MonthOfDocument(d, k, n, more, today)
            /\ DaysOfDocument(d, k, n, usage) => DaysOfDocument(d, k, n, more)
        BY ONLY <4>5, <4>6, <4>7, <4>8, SameUsageIsAggregated
      <4> QED BY <1>8, <4>1, <4>2, <4>4, <4>9
    <3> QED BY <3>1, <3>2
  <2>2. \A k \in Keys, n \in MonthsOfDays :
           /\ MonthOfDocument(aggregated'[k][n], k, n, Received', today')
           /\ ~lagged' => DaysOfDocument(aggregated'[k][n], k, n, Received')
    BY <1>7, <1>8, <2>1
  <2> QED BY <2>2 DEF AggregatedInv, DocumentIsSummed, MonthOfDocument, DaysOfDocument
<1>19. PostedInv'
  <2>1. ASSUME NEW j \in Instances, NEW n \in DOMAIN posted'[j] PROVE Consistent(posted'[j][n])
    <3>1. CASE j # i BY <1>8, <2>1, <3>1 DEF ShapeInv, PostedInv
    <3>2. CASE j = i
      <4>1. posted'[j] = Tail(posted[i]) BY <1>8, <3>2 DEF ShapeInv
      <4>2. posted[i] \in Seq(ToSet(posted[i])) /\ posted[i] # <<>> BY <1>8 DEF ShapeInv
      <4>3. \E k \in DOMAIN posted[i] : posted'[j][n] = posted[i][k]
        BY <2>1, <4>1, <4>2, QueueShrinks
      <4> QED BY <4>3 DEF PostedInv
    <3> QED BY <3>1, <3>2
  <2>2. UNCHANGED today BY <1>8
  <2> QED BY <2>1, <2>2 DEF PostedInv, Consistent
<1>20. SummedInv'
  <2>1. UNCHANGED <<today, summed, spent>> BY <1>8
  <2> QED BY <2>1 DEF SummedInv, InstanceIsSummed
<1> QED BY <1>18, <1>19, <1>20

\* The next day, all of it is as it was.
LEMMA NextDayStep ==
    ASSUME ShapeInv, PostedInv, SummedInv, AggregatedInv, NextDay
    PROVE  PostedInv' /\ SummedInv' /\ AggregatedInv'
<1>1. /\ today' = today + 1 /\ UNCHANGED <<summed, posted, aggregated, spent, lagged>>
  BY DEF NextDay
<1>2. today \in Nat BY DaysAreFinite DEF ShapeInv
<1>3. PostedInv'
  <2>1. ASSUME NEW u, Consistent(u) PROVE Consistent(u)'
    <3>1. u.processed \in 0 .. today' BY <1>1, <1>2, <2>1 DEF Consistent
    <3> QED BY <2>1, <3>1 DEF Consistent
  <2> QED BY <1>1, <2>1 DEF PostedInv
<1>4. SummedInv'
  <2>1. ASSUME NEW i \in Instances, NEW m \in MonthsOfDays
        PROVE  InstanceIsSummed(summed[i][m], m, spent[i])'
    <3>1. InstanceIsSummed(summed[i][m], m, spent[i]) BY DEF SummedInv
    <3>2. m \in Nat BY DaysAreFinite, MonthHasDays DEF MonthsOfDays
    <3>3. FirstDayOf(m) \in Nat BY <3>2, MonthsInOrder
    <3>4. PICK c : c = summed[i][m].processed OBVIOUS
    <3>5. c \in FirstDayOf(m) .. today => c \in FirstDayOf(m) .. today'
      BY <1>1, <1>2, <3>3
    <3> QED BY <1>1, <3>1, <3>4, <3>5 DEF InstanceIsSummed
  <2> QED BY <2>1 DEF SummedInv
<1>5. AggregatedInv'
  <2>1. PICK usage : usage = Received OBVIOUS
  <2>2. usage = Received' BY <1>1, <2>1 DEF Received
  <2>3. usage \in [Instances -> [Days -> Int]] BY <2>1, ReceivedIs
  <2>4. PICK then : then = today' OBVIOUS
  <2>5. then \in Nat /\ today <= then BY <1>1, <1>2, <2>4
  <2>6. ASSUME NEW k \in Keys, NEW m \in MonthsOfDays
        PROVE  /\ MonthOfDocument(aggregated'[k][m], k, m, usage, then)
               /\ ~lagged' => DaysOfDocument(aggregated'[k][m], k, m, usage)
    <3>1. PICK d : d = aggregated[k][m] OBVIOUS
    <3>2. DocumentIsSummed(d, k, m, usage) BY <2>1, <3>1 DEF AggregatedInv
    <3>3. /\ MonthOfDocument(d, k, m, usage, today)
          /\ ~lagged => DaysOfDocument(d, k, m, usage)
      BY <3>2, DocumentHas
    <3>4. m \in Nat BY DaysAreFinite, MonthHasDays DEF MonthsOfDays
    <3>5. \A i \in InstancesOf(k), e \in DaysIn(m) : usage[i][e] = usage[i][e] OBVIOUS
    <3>6. MonthOfDocument(d, k, m, usage, today) => MonthOfDocument(d, k, m, usage, then)
      BY ONLY <1>2, <2>3, <2>5, <3>4, <3>5, SameUsageIsAggregated
    <3> QED BY <1>1, <3>1, <3>3, <3>6
  <2>7. \A k \in Keys, m \in MonthsOfDays :
           /\ MonthOfDocument(aggregated'[k][m], k, m, Received', today')
           /\ ~lagged' => DaysOfDocument(aggregated'[k][m], k, m, Received')
    BY <2>2, <2>4, <2>6
  <2> QED BY <2>7 DEF AggregatedInv, DocumentIsSummed, MonthOfDocument, DaysOfDocument
<1> QED BY <1>3, <1>4, <1>5

\* Once a formula has got another one's result, that stays so.
LEMMA MixedStays == mixed /\ [WindowsNext]_windowVars => mixed'
<1> SUFFICES ASSUME mixed, [WindowsNext]_windowVars PROVE mixed'
  OBVIOUS
<1>1. CASE UNCHANGED windowVars BY <1>1 DEF windowVars
<1>2. ASSUME NEW i \in Instances, NEW date \in 0 .. today, NEW q \in Quantities,
             Accumulate(i, date, q)
      PROVE  mixed'
  BY <1>2 DEF Accumulate
<1>3. ASSUME NEW i \in Instances, Aggregate(i) PROVE mixed'
  <2>1. PICK u : u = Head(posted[i]) OBVIOUS
  <2>2. PICK newEnd : newEnd = CalculateUsageEnd(u) OBVIOUS
  <2>3. mixed' = Aggr(i, u, newEnd).mixed BY <1>3, <2>1, <2>2 DEF Aggregate
  <2>4. Aggr(i, u, newEnd).mixed BY AggrMixes
  <2> QED BY <2>3, <2>4
<1>4. CASE NextDay BY <1>4 DEF NextDay
<1> QED BY <1>1, <1>2, <1>3, <1>4 DEF WindowsNext

\* At first there is no usage.
LEMMA WindowsInitInv == WindowsInit => WindowsInv
<1> SUFFICES ASSUME WindowsInit PROVE WindowsInv
  OBVIOUS
<1>1. ShapeInv
  <2>1. today \in Days BY UsageWindowsAssumption DEF WindowsInit, Days
  <2>2. spent \in [Instances -> [Days -> Int]] BY DEF WindowsInit
  <2>3. \A i \in Instances : posted[i] \in Seq(ToSet(posted[i])) BY DEF WindowsInit
  <2>4. /\ DOMAIN summed = Instances /\ \A i \in Instances : DOMAIN summed[i] = MonthsOfDays
        /\ DOMAIN posted = Instances
        /\ DOMAIN aggregated = Keys /\ \A k \in Keys : DOMAIN aggregated[k] = MonthsOfDays
    BY DEF WindowsInit
  <2> QED BY <2>1, <2>2, <2>3, <2>4 DEF ShapeInv
<1>2. PostedInv BY DEF WindowsInit, PostedInv
<1>3. SummedInv
  <2>1. \A m : DaysIn(m) \subseteq Days BY DaysAreFinite
  <2> QED BY <2>1 DEF WindowsInit, SummedInv, InstanceIsSummed
<1>4. \A i \in Instances, d \in Days : Received[i][d] = 0
  <2> TAKE i \in Instances, d \in Days
  <2>1. posted[i] = <<>> /\ spent[i][d] = 0 BY DEF WindowsInit
  <2> DEFINE f == [n \in DOMAIN posted[i] |-> AddedOn(posted[i][n], d)]
  <2>2. DOMAIN posted[i] = {} BY <2>1
  <2>3. Pending(posted[i], d) = SumFunctionOnSet(f, {}) BY <2>2 DEF Pending
  <2>4. Pending(posted[i], d) = 0 BY <2>3, SimpleSums
  <2> QED BY <2>1, <2>4 DEF Received
<1>5. AggregatedInv
  <2>1. \A m : DaysIn(m) \subseteq Days BY DaysAreFinite
  <2>2. \A k \in Keys, m \in MonthsOfDays : aggregated[k][m] = NoDocument BY DEF WindowsInit
  <2> QED BY <1>4, <2>1, <2>2 DEF AggregatedInv, DocumentIsSummed, InstancesOf
<1> QED BY <1>1, <1>2, <1>3, <1>5 DEF WindowsInv

\* The sums of the accumulator and of the aggregator are those of the usage that was
\* accepted, while each formula has got its own result.
THEOREM WindowsInvariantHolds == WindowsSpec => []WindowsInv
<1>1. WindowsInit => WindowsInv BY WindowsInitInv
<1>2. WindowsInv /\ [WindowsNext]_windowVars => WindowsInv'
  <2> SUFFICES ASSUME WindowsInv, [WindowsNext]_windowVars PROVE WindowsInv'
    OBVIOUS
  <2>1. ShapeInv' BY ShapeStays DEF WindowsInv
  <2>2. ASSUME ~mixed' PROVE PostedInv' /\ SummedInv' /\ AggregatedInv'
    <3>1. ~mixed BY <2>2, MixedStays
    <3>2. ShapeInv /\ PostedInv /\ SummedInv /\ AggregatedInv BY <3>1 DEF WindowsInv
    <3>3. CASE UNCHANGED windowVars
      <4>1. UNCHANGED <<today, summed, posted, aggregated, spent, lagged>>
        BY <3>3 DEF windowVars
      <4>2. PostedInv' BY <3>2, <4>1 DEF PostedInv, Consistent
      <4>3. SummedInv' BY <3>2, <4>1 DEF SummedInv, InstanceIsSummed
      <4>4. Received' = Received BY <4>1 DEF Received
      <4>5. AggregatedInv' BY <3>2, <4>1, <4>4 DEF AggregatedInv, DocumentIsSummed
      <4> QED BY <4>2, <4>3, <4>5
    <3>4. ASSUME NEW i \in Instances, NEW date \in 0 .. today, NEW q \in Quantities,
                 Accumulate(i, date, q)
          PROVE  PostedInv' /\ SummedInv' /\ AggregatedInv'
      BY <2>2, <3>2, <3>4, AccumulateStep
    <3>5. ASSUME NEW i \in Instances, Aggregate(i)
          PROVE  PostedInv' /\ SummedInv' /\ AggregatedInv'
      BY <2>2, <3>2, <3>5, AggregateStep
    <3>6. CASE NextDay BY <3>2, <3>6, NextDayStep
    <3> QED BY <3>3, <3>4, <3>5, <3>6 DEF WindowsNext
  <2> QED BY <2>1, <2>2 DEF WindowsInv
<1> QED BY <1>1, <1>2, PTL DEF WindowsSpec

-----------------------------------------------------------------------------
(***************************************************************************)
(* The reports.                                                            *)
(***************************************************************************)
\* What was accepted, when nothing is on its way.
LEMMA AllIsReceived ==
    ASSUME ShapeInv, AllAggregated
    PROVE  /\ \A i \in Instances, d \in Days : Received[i][d] = spent[i][d]
           /\ Received = spent
<1>1. ASSUME NEW i \in Instances, NEW d \in Days
      PROVE  Received[i][d] = spent[i][d] /\ spent[i][d] \in Int
  <2> DEFINE f == [n \in DOMAIN posted[i] |-> AddedOn(posted[i][n], d)]
  <2>1. posted[i] = <<>> /\ spent[i][d] \in Int BY DEF AllAggregated, ShapeInv
  <2>2. DOMAIN posted[i] = {} BY <2>1
  <2>3. Pending(posted[i], d) = SumFunctionOnSet(f, {}) BY <2>2 DEF Pending
  <2>4. Pending(posted[i], d) = 0 BY <2>3, SimpleSums
  <2> QED BY <2>1, <2>4 DEF Received
<1>2. Received = [i \in Instances |-> [d \in Days |-> Received[i][d]]] BY DEF Received
<1>3. spent = [i \in Instances |-> [d \in Days |-> spent[i][d]]] BY DEF ShapeInv
<1> QED BY <1>1, <1>2, <1>3

\* The day of the report of a month is in it, and no document is of a later one.
LEMMA ReportDayIs ==
    ASSUME ShapeInv, NEW m \in MonthsOfDays, NEW day, day = ReportDay(m)
    PROVE  /\ m \in Nat /\ day \in Nat /\ MonthOfDay(day) = m
           /\ \A doc : doc.processed \in FirstDayOf(m) .. today => NewestDay(doc, m) <= day
<1>1. today \in Nat /\ m \in Nat BY DaysAreFinite, MonthHasDays DEF ShapeInv, MonthsOfDays
<1>2. /\ LastDayOf(m) \in Nat /\ MonthOfDay(LastDayOf(m)) = m /\ FirstDayOf(m) \in Nat
      /\ m = MonthOfDay(today) => today <= LastDayOf(m)
  BY <1>1, MonthHasDays, MonthsInOrder
<1>3. day \in Nat /\ MonthOfDay(day) = m BY <1>1, <1>2 DEF ReportDay
<1>4. ASSUME NEW doc, doc.processed \in FirstDayOf(m) .. today PROVE NewestDay(doc, m) <= day
  <2>1. PICK c : c = doc.processed OBVIOUS
  <2>2. c \in Nat /\ c <= today BY <1>1, <1>2, <1>4, <2>1
  <2>3. NewestDay(doc, m) = IF c < LastDayOf(m) THEN c ELSE LastDayOf(m) BY <2>1 DEF NewestDay
  <2>4. day = IF m = MonthOfDay(today) THEN today ELSE LastDayOf(m) BY DEF ReportDay
  <2> QED BY <1>1, <1>2, <2>2, <2>3, <2>4
<1> QED BY <1>1, <1>3, <1>4

\* A report has the sums of the shifted document.
LEMMA ReportIsSummed ==
    ASSUME ShapeInv, PostedInv, AggregatedInv, AllAggregated, NEW k \in Keys,
           NEW m \in MonthsOfDays
    PROVE  /\ ReportedCell(DocumentOf(k, m), ReportDay(m), "month", 0) = SpentOn(k, DaysIn(m))
           /\ ~lagged =>
                 \A d \in DaysIn(m) :
                    ReportDay(m) - d \in 0 .. SlackDays =>
                       ReportedCell(DocumentOf(k, m), ReportDay(m), "day", ReportDay(m) - d)
                          = SpentOn(k, {d})
<1>1. PICK doc : doc = DocumentOf(k, m) OBVIOUS
<1>2. PICK day : day = ReportDay(m) OBVIOUS
<1>3. PICK new : new = Shifted(doc, day) OBVIOUS
<1>4. PICK usage : usage = spent OBVIOUS
<1>5. /\ m \in Nat /\ day \in Nat /\ MonthOfDay(day) = m
      /\ \A d : d.processed \in FirstDayOf(m) .. today => NewestDay(d, m) <= day
  BY <1>2, ReportDayIs
<1>6. usage = Received BY <1>4, AllIsReceived
<1>7. usage \in [Instances -> [Days -> Int]] /\ today \in Days BY <1>4 DEF ShapeInv
<1>8. DocumentIsSummed(doc, k, m, usage) BY <1>1, <1>6 DEF AggregatedInv, DocumentOf
<1>9. /\ new \in PlanWindows
      /\ MonthIsSummed(new, k, m, usage)
      /\ ~lagged /\ (doc = NoDocument \/ NewestDay(doc, m) <= day) =>
            DaysAreSummed(new, day, k, m, usage)
  BY ONLY <1>3, <1>5, <1>7, <1>8, ShiftedIsSummed
<1>10. doc = NoDocument \/ NewestDay(doc, m) <= day BY <1>5, <1>8 DEF DocumentIsSummed
<1>11. \A dim, j : ReportedCell(doc, day, dim, j) = SumOfPlans(new, dim, j)
  BY <1>3 DEF ReportedCell, ReportedPlans, SumOfPlans
<1>12. \A days : SpentOn(k, days) = UsageOn(usage, k, days) BY <1>4 DEF SpentOn
<1>13. ReportedCell(doc, day, "month", 0) = SpentOn(k, DaysIn(m))
  BY <1>9, <1>11, <1>12 DEF MonthIsSummed
<1>14. ASSUME ~lagged, NEW d \in DaysIn(m), day - d \in 0 .. SlackDays
       PROVE  ReportedCell(doc, day, "day", day - d) = SpentOn(k, {d})
  <2>1. DaysAreSummed(new, day, k, m, usage) BY <1>9, <1>10, <1>14
  <2>2. SumOfPlans(new, "day", day - d) = UsageOn(usage, k, {d})
    BY <1>14, <2>1 DEF DaysAreSummed
  <2> QED BY <1>11, <1>12, <2>2
<1> QED BY <1>1, <1>2, <1>13, <1>14

\* The report of a month shows the usage of the month that was accepted.
THEOREM MonthsAreReportedHolds == WindowsSpec => [](~mixed => MonthsAreReported)
<1>1. WindowsInv => (~mixed => MonthsAreReported)
  <2> SUFFICES ASSUME WindowsInv, ~mixed, AllAggregated, NEW k \in Keys, NEW m \in MonthsOfDays
               PROVE  ReportedCell(DocumentOf(k, m), ReportDay(m), "month", 0)
                         = SpentOn(k, DaysOf(m) \cap Days)
    BY DEF MonthsAreReported
  <2>1. ShapeInv /\ PostedInv /\ AggregatedInv BY DEF WindowsInv
  <2> QED BY <2>1, ReportIsSummed DEF DaysIn
<1> QED BY <1>1, WindowsInvariantHolds, PTL

\* The document of an instance for this month, not of a later day than today.
IsOfThisMonth(doc, i, m) ==
    /\ m = MonthOfDay(today) /\ today \in Nat /\ doc = summed[i][m] /\ doc # NoDocument
    /\ doc.processed \in 0 .. today /\ InstanceWindows(doc.windows)

\* The cells of the document of an instance, when it is not of a later day.
LEMMA InstanceCellIs ==
    ASSUME NEW i, NEW m, NEW doc, IsOfThisMonth(doc, i, m), NEW dim \in Dimensions, NEW j \in Nat,
           j < Len(doc.windows[dim])
    PROVE  InstanceCell(i, m, dim, j) = doc.windows[dim][j + 1].current
<1>0. /\ m = MonthOfDay(today) /\ today \in Nat /\ doc = summed[i][m] /\ doc # NoDocument
      /\ doc.processed \in 0 .. today /\ InstanceWindows(doc.windows)
  BY DEF IsOfThisMonth
<1>1. PICK w : w = doc.windows[dim] OBVIOUS
<1>2. w \in Seq(Cell) /\ Len(w) \in Nat /\ j < Len(w) BY <1>0, <1>1 DEF InstanceWindows
<1>3. ReportDay(m) = today BY <1>0 DEF ReportDay
<1>4. Adjusted(doc, today, dim) = w
  <2>1. PICK c : c = doc.processed OBVIOUS
  <2>2. c \in Nat /\ c <= today BY <1>0, <2>1
  <2>3. ~(today > c) => Diff(today, c, dim) = 0
    <3>1. ASSUME ~(today > c) PROVE Diff(today, c, dim) = 0
      <4>1. c = today BY <1>0, <2>2, <3>1
      <4>2. MonthOfDay(today) \in Nat BY <1>0, MonthHasDays
      <4> QED BY <1>0, <4>1, <4>2 DEF Diff, InDimension
    <3> QED BY <3>1
  <2>4. SubSeq(w, 1, Len(w)) = w BY <1>2
  <2>5. 0 < Len(w) /\ 0 + 1 = 1 BY <1>2
  <2>6. PICK ahead : ahead = IF today > c THEN 0 ELSE Diff(today, c, dim) OBVIOUS
  <2>7. ahead = 0 BY <2>3, <2>6
  <2>8. Adjusted(doc, today, dim) = IF ahead < Len(w) THEN SubSeq(w, ahead + 1, Len(w)) ELSE w
    BY <1>1, <2>1, <2>6 DEF Adjusted
  <2> QED BY <2>4, <2>5, <2>7, <2>8
<1>5. InstanceCell(i, m, dim, j) = IF doc = NoDocument \/ j >= Len(w) THEN 0 ELSE w[j + 1].current
  BY <1>0, <1>1, <1>3, <1>4 DEF InstanceCell
<1> QED BY <1>0, <1>1, <1>2, <1>5

\* The instances are reported by their documents.
LEMMA InstancesAreSummed ==
    ASSUME ShapeInv, SummedInv PROVE InstancesAreReported
<1>1. PICK m : m = MonthOfDay(today) OBVIOUS
<1>2. today \in Nat /\ today \in Days BY DaysAreFinite DEF ShapeInv
<1>3. m \in Nat /\ m \in MonthsOfDays BY <1>1, <1>2, MonthHasDays DEF MonthsOfDays
<1>4. FirstDayOf(m) \in Nat /\ LastDayOf(m) \in Nat /\ today <= LastDayOf(m)
      /\ "day" \in Dimensions /\ "month" \in Dimensions
  BY <1>1, <1>2, <1>3, MonthHasDays, MonthsInOrder DEF Dimensions
<1>5. ASSUME NEW i \in Instances
      PROVE  /\ InstanceCell(i, m, "month", 0) = SumFunctionOnSet(spent[i], DaysIn(m))
             /\ summed[i][m].processed = today =>
                   \A d \in DaysOf(m) \cap today - SlackDays .. today :
                      InstanceCell(i, m, "day", today - d) = spent[i][d]
  <2>1. PICK doc : doc = summed[i][m] OBVIOUS
  <2>2. InstanceIsSummed(doc, m, spent[i]) BY <1>3, <2>1 DEF SummedInv
  <2>3. CASE doc = NoDocument
    <3>1. InstanceCell(i, m, "month", 0) = 0 BY <2>1, <2>3 DEF InstanceCell
    <3>2. \A d \in DaysIn(m) : spent[i][d] = 0 BY <2>2, <2>3 DEF InstanceIsSummed
    <3>3. PICK h : h = spent[i] OBVIOUS
    <3>4. SumFunctionOnSet(h, DaysIn(m)) = 0 BY <3>2, <3>3, DaysAreFinite, SimpleSums
    <3>5. doc.processed # today BY <1>2, <2>3 DEF NoDocument
    <3> QED BY <2>1, <3>1, <3>3, <3>4, <3>5
  <2>4. CASE doc # NoDocument
    <3>1. doc.processed \in FirstDayOf(m) .. today /\ InstanceWindows(doc.windows)
      BY <2>2, <2>4 DEF InstanceIsSummed
    <3>2. PICK c : c = doc.processed OBVIOUS
    <3>3. c \in Nat /\ c \in 0 .. today /\ FirstDayOf(m) <= c /\ c <= LastDayOf(m)
      BY <1>2, <1>4, <3>1, <3>2
    <3>4. MonthOfDay(c) = m BY <1>3, <3>3, MonthHasDays
    <3>5. /\ doc.windows["month"][1].current = SumFunctionOnSet(spent[i], DaysIn(m))
          /\ \A d \in DaysIn(m) :
                c - d \in 0 .. SlackDays => doc.windows["day"][c - d + 1].current = spent[i][d]
      BY <2>2, <2>4, <3>2, <3>4 DEF InstanceIsSummed
    <3>6. /\ Len(doc.windows["month"]) \in Nat /\ 0 < Len(doc.windows["month"])
          /\ Len(doc.windows["day"]) \in Nat /\ SlackDays < Len(doc.windows["day"])
          /\ SlackDays \in Nat
      BY <1>4, <3>1, SlackHasCells DEF InstanceWindows
    <3>7. doc.processed \in 0 .. today BY <3>2, <3>3
    <3>8. ASSUME NEW dim \in Dimensions, NEW j \in Nat, j < Len(doc.windows[dim])
          PROVE  InstanceCell(i, m, dim, j) = doc.windows[dim][j + 1].current
      <4>1. dim \in Dimensions /\ j \in Nat /\ j < Len(doc.windows[dim]) BY <3>8
      <4>2. IsOfThisMonth(doc, i, m) BY <1>1, <1>2, <2>1, <2>4, <3>1, <3>7 DEF IsOfThisMonth
      <4> QED BY ONLY <4>1, <4>2, InstanceCellIs
    <3>9. InstanceCell(i, m, "month", 0) = doc.windows["month"][1].current
      <4>1. 0 \in Nat /\ 0 + 1 = 1 OBVIOUS
      <4>2. InstanceCell(i, m, "month", 0) = doc.windows["month"][0 + 1].current
        BY <1>4, <3>6, <3>8, <4>1
      <4> QED BY <4>1, <4>2
    <3>10. ASSUME c = today, NEW d \in DaysOf(m) \cap today - SlackDays .. today
           PROVE  InstanceCell(i, m, "day", today - d) = spent[i][d]
      <4>1. /\ d \in Int /\ d <= today /\ today - d <= SlackDays /\ FirstDayOf(m) <= d
            /\ d <= LastDayOf(m)
        BY <1>2, <1>4, <3>6 DEF DaysOf
      <4>2. d \in DaysIn(m) BY <1>2, <1>4, <4>1, UsageWindowsAssumption DEF DaysIn, Days, DaysOf
      <4>3. PICK j : j = today - d OBVIOUS
      <4>4. j \in Nat /\ j \in 0 .. SlackDays /\ j < Len(doc.windows["day"])
        BY <1>2, <3>6, <4>1, <4>3
      <4>5. InstanceCell(i, m, "day", j) = doc.windows["day"][j + 1].current
        BY <1>4, <3>8, <4>4
      <4>6. doc.windows["day"][j + 1].current = spent[i][d] BY <3>5, <3>10, <4>2, <4>3, <4>4
      <4> QED BY <4>3, <4>5, <4>6
    <3> QED BY <2>1, <3>2, <3>5, <3>9, <3>10
  <2> QED BY <2>3, <2>4
<1> QED BY <1>1, <1>5 DEF InstancesAreReported, DaysIn

\* The report shows the days of the month that are not older than the slack.
THEOREM DaysAreReportedHolds == WindowsSpec => [](~mixed => DaysAreReported)
<1>1. WindowsInv => (~mixed => DaysAreReported)
  <2> SUFFICES ASSUME WindowsInv, ~mixed PROVE DaysAreReported
    OBVIOUS
  <2>1. ShapeInv /\ PostedInv /\ SummedInv /\ AggregatedInv BY DEF WindowsInv
  <2>2. ASSUME AllAggregated, ~lagged, NEW k \in {"organization"} \cup Range(ConsumerOf),
               NEW m \in MonthsOfDays, NEW j \in 0 .. SlackDays,
               ReportDay(m) - j \in DaysOf(m) \cap Days
        PROVE  ReportedCell(DocumentOf(k, m), ReportDay(m), "day", j)
                  = SpentOn(k, {ReportDay(m) - j})
    <3>1. PICK day : day = ReportDay(m) OBVIOUS
    <3>2. PICK d : d = day - j OBVIOUS
    <3>3. day \in Nat /\ j \in Int BY <2>1, <3>1, ReportDayIs, SlackHasCells
    <3>4. d \in DaysIn(m) /\ day - d = j /\ k \in Keys
      BY <2>2, <3>1, <3>2, <3>3 DEF DaysIn, Keys
    <3>5. ReportedCell(DocumentOf(k, m), ReportDay(m), "day", ReportDay(m) - d) = SpentOn(k, {d})
      BY <2>1, <2>2, <3>1, <3>4, ReportIsSummed
    <3> QED BY <3>1, <3>2, <3>4, <3>5
  <2>3. InstancesAreReported BY <2>1, InstancesAreSummed
  <2> QED BY <2>2, <2>3 DEF DaysAreReported
<1> QED BY <1>1, WindowsInvariantHolds, PTL

-----------------------------------------------------------------------------
\* The bill of a past month, once the slack is over and its usage is aggregated,
\* stays as it is: accumulate turns away usage of that month, and the aggregator
\* has none left (accumulator/src/index.js, outOfSlack).
THEOREM ClosedMonthsAreFinal == WindowsSpec => ClosedMonthIsFinal
<1>1. ASSUME WindowsInv, [WindowsNext]_windowVars, NEW m \in MonthsOfDays,
             m < MonthOfDay(today), SlackIsOver, Settled(m)
      PROVE  Settled(m)' /\ Bill(m)' = Bill(m)
  <2> USE <1>1
  <2>0. ShapeInv BY DEF WindowsInv
  <2>1. ASSUME aggregated'["organization"][m] = aggregated["organization"][m]
        PROVE  Bill(m)' = Bill(m)
    BY <2>1 DEF Bill, DocumentOf
  <2>2. ASSUME UNCHANGED posted PROVE Settled(m)' BY <2>2 DEF Settled
  <2>3. CASE UNCHANGED windowVars BY <2>1, <2>2, <2>3 DEF windowVars
  <2>4. ASSUME NEW i \in Instances, NEW date \in 0 .. today, NEW q \in Quantities,
               Accumulate(i, date, q)
        PROVE  Settled(m)' /\ Bill(m)' = Bill(m)
    <3>1. PICK e : e.end = date /\ posted' = [posted EXCEPT ![i] = Append(@, e)]
      BY <2>4 DEF Accumulate
    <3>2. MonthOfDay(date) # m
      <4>1. date \in Nat /\ today \in Nat BY <2>0 DEF ShapeInv, Days
      <4>2. /\ m \in Int /\ MonthOfDay(date) \in Int /\ MonthOfDay(today) \in Int
        BY <4>1, MonthHasDays DEF MonthsOfDays, Days
      <4>3. FirstDayOf(MonthOfDay(today)) \in Int
        BY <4>2, UsageWindowsAssumption DEF FirstDayOf
      <4>4. ~OutOfSlack(date) BY <2>4 DEF Accumulate
      <4>5. ~(MonthOfDay(date) < MonthOfDay(today))
        BY <4>1, <4>3, <4>4, UsageWindowsAssumption DEF OutOfSlack, IsOfLastMonth, SlackIsOver
      <4> QED BY <4>2, <4>5
    <3>3. Settled(m)'
      <4>1. \A j \in Instances : posted'[j] = IF j = i THEN Append(posted[i], e) ELSE posted[j]
        BY <2>0, <3>1 DEF ShapeInv
      <4>2. \A n \in DOMAIN posted'[i] : MonthOfDay(posted'[i][n].end) # m
        BY <3>1, <3>2, <4>1, QueueGrows, <2>0 DEF Settled, ShapeInv
      <4> QED BY <4>1, <4>2 DEF Settled
    <3> QED BY <2>1, <2>4, <3>3 DEF Accumulate
  <2>5. ASSUME NEW i \in Instances, Aggregate(i)
        PROVE  Settled(m)' /\ Bill(m)' = Bill(m)
    <3>1. /\ posted[i] # <<>> /\ posted' = [posted EXCEPT ![i] = Tail(@)]
      BY <2>5 DEF Aggregate
    <3>2. posted[i] \in Seq(ToSet(posted[i])) BY <2>0 DEF ShapeInv
    <3>3. MonthOfDay(Head(posted[i]).end) # m BY <3>1, <3>2, QueueShrinks DEF Settled
    <3>4. Settled(m)'
      <4>1. \A j \in Instances : posted'[j] = IF j = i THEN Tail(posted[i]) ELSE posted[j]
        BY <2>0, <3>1 DEF ShapeInv
      <4>2. \A n \in DOMAIN posted'[i] : MonthOfDay(posted'[i][n].end) # m
        BY <3>1, <3>2, <4>1, QueueShrinks DEF Settled
      <4> QED BY <4>1, <4>2 DEF Settled
    <3>5. "organization" \in Keys /\ DOMAIN aggregated["organization"] = MonthsOfDays
      BY <2>0 DEF Keys, ShapeInv
    <3>6. PICK doc : aggregated'["organization"]
            = [aggregated["organization"] EXCEPT ![MonthOfDay(Head(posted[i]).end)] = doc]
      BY <2>5, <3>5 DEF Aggregate, KeysOfInstance
    <3> QED BY <2>1, <3>3, <3>4, <3>5, <3>6
  <2>6. CASE NextDay BY <2>1, <2>2, <2>6 DEF NextDay
  <2> QED BY <2>3, <2>4, <2>5, <2>6 DEF WindowsNext
<1>2. WindowsInv /\ [WindowsNext]_windowVars =>
        [\A m \in MonthsOfDays :
           m < MonthOfDay(today) /\ SlackIsOver /\ Settled(m) =>
              Settled(m)' /\ Bill(m)' = Bill(m)]_windowVars
  BY <1>1
<1> QED BY <1>2, WindowsInvariantHolds, PTL DEF WindowsSpec, ClosedMonthIsFinal

=============================================================================
