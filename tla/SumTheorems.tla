---------------------------- MODULE SumTheorems ----------------------------
(***************************************************************************)
(* Lemmas about least elements and about the sums of functions over finite *)
(* sets, as the community modules define them.                             *)
(***************************************************************************)
EXTENDS Integers, Functions, FiniteSetsExt, FiniteSetTheorems, WellFoundedInduction, TLAPS

\* A set of naturals has a least element.
LEMMA HasLeast ==
    ASSUME NEW S \in SUBSET Nat, S # {}
    PROVE  \E m \in S : \A k \in S : m <= k
<1>1. \E x \in S : \A y \in S : ~ (<<y, x>> \in OpToRel(<, Nat))
  BY NatLessThanWellFounded, WFMin
<1>2. PICK x \in S : \A y \in S : ~ (<<y, x>> \in OpToRel(<, Nat))
  BY <1>1
<1>3. ASSUME NEW y \in S PROVE x <= y
  <2>1. x \in Nat /\ y \in Nat OBVIOUS
  <2>2. ~ (<<y, x>> \in OpToRel(<, Nat)) BY <1>2
  <2>3. ~ (y < x) BY <2>1, <2>2 DEF OpToRel
  <2> QED BY <2>1, <2>3
<1> QED BY <1>3

-----------------------------------------------------------------------------
Picked(s) == CHOOSE x \in s : TRUE

IsSum(f, S, g) ==
    g = [s \in SUBSET S |-> IF s = {} THEN 0 ELSE f[Picked(s)] + g[s \ {Picked(s)}]]

\* Some of the subsets of a finite set has no other of them within it.
LEMMA SmallestSubset ==
    ASSUME NEW S, IsFiniteSet(S), NEW B \in SUBSET (SUBSET S), B # {}
    PROVE  \E T \in B : \A U \in B : U \subseteq T => U = T
<1>1. \A T \in SUBSET S : IsFiniteSet(T) /\ Cardinality(T) \in Nat
  BY FS_Subset, FS_CardinalityType
<1> DEFINE sizes == {Cardinality(T) : T \in B}
<1>2. sizes \in SUBSET Nat /\ sizes # {} BY <1>1
<1>3. PICK m \in sizes : \A k \in sizes : m <= k BY <1>2, HasLeast
<1>4. PICK T \in B : Cardinality(T) = m OBVIOUS
<1>5. ASSUME NEW U \in B, U \subseteq T PROVE U = T
  <2>1. m <= Cardinality(U) BY <1>3
  <2>2. IsFiniteSet(T) BY <1>1
  <2>3. Cardinality(U) <= Cardinality(T) /\ (Cardinality(T) = Cardinality(U) => T = U)
    BY <1>5, <2>2, FS_Subset
  <2>4. Cardinality(U) \in Nat /\ Cardinality(T) \in Nat BY <1>1
  <2> QED BY <1>4, <2>1, <2>3, <2>4
<1> QED BY <1>5

\* The sum is the one that the recursion in its definition chooses.
LEMMA SumIsChosen ==
    ASSUME NEW S, NEW f
    PROVE  SumFunctionOnSet(f, S) = (CHOOSE g : IsSum(f, S, g))[S]
BY Zenon DEF SumFunctionOnSet, FoldFunctionOnSet, MapThenFoldSet, IsSum, Picked

\* Something is picked from a set that has elements, and from its finite
\* subsets fewer are left.
LEMMA PickedLeaves ==
    ASSUME NEW s, s # {}
    PROVE  /\ Picked(s) \in s
           /\ s \ {Picked(s)} \subseteq s /\ s \ {Picked(s)} # s
<1>1. Picked(s) \in s BY DEF Picked
<1> QED BY <1>1

\* The recursion has a solution on the subsets of a finite set.
LEMMA SumsExist ==
    ASSUME NEW S, IsFiniteSet(S), NEW f
    PROVE  \E g : IsSum(f, S, g)
<1> DEFINE Small(n) == {s \in SUBSET S : Cardinality(s) <= n}
           Rec(n, g) == g = [s \in Small(n) |-> IF s = {} THEN 0
                                ELSE f[Picked(s)] + g[s \ {Picked(s)}]]
           Bad == {n \in Nat : ~\E g : Rec(n, g)}
<1>0. \A s \in SUBSET S : IsFiniteSet(s) /\ Cardinality(s) \in Nat
  BY FS_Subset, FS_CardinalityType
<1>1. ASSUME NEW n \in Nat, NEW s \in Small(n + 1), s # {}
      PROVE  s \ {Picked(s)} \in Small(n)
  <2>1. Picked(s) \in s /\ IsFiniteSet(s) BY <1>0, <1>1, PickedLeaves
  <2>2. Cardinality(s \ {Picked(s)}) = Cardinality(s) - 1 BY <2>1, FS_RemoveElement
  <2>3. Cardinality(s) \in Nat BY <1>0
  <2>4. Cardinality(s) <= n + 1 BY <1>1
  <2>5. Cardinality(s \ {Picked(s)}) <= n BY <2>2, <2>3, <2>4
  <2> QED BY <2>5
<1>2. 0 \notin Bad
  <2>1. \A s \in Small(0) : s = {}
    <3> TAKE s \in Small(0)
    <3>1. IsFiniteSet(s) /\ Cardinality(s) = 0 BY <1>0
    <3> QED BY <3>1, FS_EmptySet
  <2> DEFINE g == [s \in Small(0) |-> 0]
  <2>2. Rec(0, g) BY <2>1
  <2> QED BY <2>2
<1>3. ASSUME NEW n \in Nat, n \notin Bad PROVE n + 1 \notin Bad
  <2>1. PICK g : Rec(n, g) BY <1>3
  <2> DEFINE h == [s \in Small(n + 1) |-> IF s = {} THEN 0
                                ELSE f[Picked(s)] + g[s \ {Picked(s)}]]
  <2>2. \A s \in Small(n) : s \in Small(n + 1)
    <3> TAKE s \in Small(n)
    <3>1. Cardinality(s) \in Nat /\ Cardinality(s) <= n BY <1>0
    <3>2. Cardinality(s) <= n + 1 BY <3>1
    <3> QED BY <3>2
  <2>3. \A s \in Small(n) : h[s] = g[s]
    <3> TAKE s \in Small(n)
    <3> HIDE DEF Small
    <3>1. h[s] = IF s = {} THEN 0 ELSE f[Picked(s)] + g[s \ {Picked(s)}] BY <2>2
    <3>2. g[s] = IF s = {} THEN 0 ELSE f[Picked(s)] + g[s \ {Picked(s)}] BY <2>1
    <3> QED BY <3>1, <3>2
  <2>4. \A s \in Small(n + 1) : s # {} => h[s \ {Picked(s)}] = g[s \ {Picked(s)}]
    BY <1>1, <2>3
  <2> HIDE DEF Small
  <2>5. Rec(n + 1, h)
    <3> DEFINE k == [s \in Small(n + 1) |-> IF s = {} THEN 0
                                ELSE f[Picked(s)] + h[s \ {Picked(s)}]]
    <3>1. \A s \in Small(n + 1) : h[s] = k[s] BY <2>4
    <3>2. h = k BY <3>1
    <3> QED BY <3>2
  <2> QED BY <2>5
<1> HIDE DEF Bad
<1>4. Bad = {}
  <2> SUFFICES ASSUME Bad # {} PROVE FALSE OBVIOUS
  <2>1. Bad \in SUBSET Nat BY DEF Bad
  <2>2. PICK m \in Bad : \A k \in Bad : m <= k BY <2>1, HasLeast
  <2>3. m \in Nat /\ m # 0 BY <1>2, <2>1
  <2>4. m - 1 \in Nat /\ m - 1 \notin Bad BY <2>2, <2>3
  <2>5. (m - 1) + 1 \notin Bad BY <1>3, <2>4
  <2>6. (m - 1) + 1 = m BY <2>3
  <2> QED BY <2>2, <2>5, <2>6
<1>5. PICK g : Rec(Cardinality(S), g)
  <2>1. Cardinality(S) \in Nat BY <1>0
  <2>2. Cardinality(S) \notin Bad BY <1>4
  <2> QED BY <2>1, <2>2 DEF Bad
<1>6. Small(Cardinality(S)) = SUBSET S
  BY FS_Subset
<1>7. IsSum(f, S, g) BY <1>5, <1>6 DEF IsSum
<1> QED BY <1>7

\* There is one solution: those on the subsets of two sets agree.
LEMMA SumsAgree ==
    ASSUME NEW S, IsFiniteSet(S), NEW T \in SUBSET S, NEW f, NEW g, NEW h,
           IsSum(f, S, g), IsSum(f, T, h)
    PROVE  h[T] = g[T]
<1> DEFINE Bad == {s \in SUBSET T : h[s] # g[s]}
<1>1. Bad = {}
  <2> SUFFICES ASSUME Bad # {} PROVE FALSE OBVIOUS
  <2>1. \E s \in Bad : \A u \in Bad : u \subseteq s => u = s
    <3>1. Bad \in SUBSET (SUBSET S) OBVIOUS
    <3> HIDE DEF Bad
    <3> QED BY <3>1, SmallestSubset
  <2>2. PICK s \in Bad : \A u \in Bad : u \subseteq s => u = s BY <2>1
  <2>3. s \in SUBSET T /\ s \in SUBSET S OBVIOUS
  <2>4. h[s] = IF s = {} THEN 0 ELSE f[Picked(s)] + h[s \ {Picked(s)}] BY <2>3 DEF IsSum
  <2>5. g[s] = IF s = {} THEN 0 ELSE f[Picked(s)] + g[s \ {Picked(s)}] BY <2>3 DEF IsSum
  <2>6. s # {} BY <2>4, <2>5
  <2>7. s \ {Picked(s)} \notin Bad BY <2>2, <2>6, PickedLeaves
  <2>8. h[s \ {Picked(s)}] = g[s \ {Picked(s)}] BY <2>3, <2>7
  <2> QED BY <2>4, <2>5, <2>8
<1> QED BY <1>1

\* The sum over no elements, and that over some.
LEMMA SumSteps ==
    ASSUME NEW S, IsFiniteSet(S), NEW f
    PROVE  SumFunctionOnSet(f, S) = IF S = {} THEN 0
                         ELSE f[Picked(S)] + SumFunctionOnSet(f, S \ {Picked(S)})
<1> DEFINE g == CHOOSE g : IsSum(f, S, g)
           R == S \ {Picked(S)}
           h == CHOOSE h : IsSum(f, R, h)
<1>0. R \in SUBSET S /\ IsFiniteSet(R) BY FS_Subset
<1>1. IsSum(f, S, g) BY SumsExist
<1>2. IsSum(f, R, h) BY <1>0, SumsExist
<1>3. SumFunctionOnSet(f, S) = g[S] /\ SumFunctionOnSet(f, R) = h[R] BY SumIsChosen
<1>4. h[R] = g[R] BY <1>0, <1>1, <1>2, SumsAgree
<1>5. g[S] = IF S = {} THEN 0 ELSE f[Picked(S)] + g[R]
  <2> HIDE DEF g
  <2> QED BY <1>1 DEF IsSum
<1> QED BY <1>3, <1>4, <1>5

\* A sum of integers is one.
LEMMA SumIsInt ==
    ASSUME NEW S, IsFiniteSet(S), NEW f, \A u \in S : f[u] \in Int
    PROVE  SumFunctionOnSet(f, S) \in Int
<1> DEFINE Bad == {s \in SUBSET S : SumFunctionOnSet(f, s) \notin Int}
<1>1. Bad = {}
  <2> SUFFICES ASSUME Bad # {} PROVE FALSE OBVIOUS
  <2>0. \E s \in Bad : \A u \in Bad : u \subseteq s => u = s
    <3>1. Bad \in SUBSET (SUBSET S) OBVIOUS
    <3> HIDE DEF Bad
    <3> QED BY <3>1, SmallestSubset
  <2>2. PICK s \in Bad : \A u \in Bad : u \subseteq s => u = s BY <2>0
  <2>3. s \in SUBSET S /\ IsFiniteSet(s) BY FS_Subset
  <2>4. SumFunctionOnSet(f, s) = IF s = {} THEN 0 ELSE f[Picked(s)] + SumFunctionOnSet(f, s \ {Picked(s)})
    BY <2>3, SumSteps
  <2>5. CASE s = {} BY <2>4, <2>5
  <2>6. CASE s # {}
    <3>1. Picked(s) \in S /\ s \ {Picked(s)} \notin Bad BY <2>2, <2>3, <2>6, PickedLeaves
    <3>2. SumFunctionOnSet(f, s \ {Picked(s)}) \in Int BY <2>3, <3>1
    <3> QED BY <2>4, <2>6, <3>1, <3>2
  <2> QED BY <2>5, <2>6
<1> QED BY <1>1

\* Any element may be taken out of a sum.
LEMMA SumRemoves ==
    ASSUME NEW S, IsFiniteSet(S), NEW f, \A u \in S : f[u] \in Int, NEW x \in S
    PROVE  SumFunctionOnSet(f, S) = f[x] + SumFunctionOnSet(f, S \ {x})
<1> DEFINE Bad == {s \in SUBSET S : \E y \in s : SumFunctionOnSet(f, s) # f[y] + SumFunctionOnSet(f, s \ {y})}
<1>1. Bad = {}
  <2> SUFFICES ASSUME Bad # {} PROVE FALSE OBVIOUS
  <2>0. \E s \in Bad : \A u \in Bad : u \subseteq s => u = s
    <3>1. Bad \in SUBSET (SUBSET S) OBVIOUS
    <3> HIDE DEF Bad
    <3> QED BY <3>1, SmallestSubset
  <2>1. PICK s \in Bad : \A u \in Bad : u \subseteq s => u = s BY <2>0
  <2>2. PICK y \in s : SumFunctionOnSet(f, s) # f[y] + SumFunctionOnSet(f, s \ {y}) OBVIOUS
  <2>3. s \in SUBSET S /\ IsFiniteSet(s) BY FS_Subset
  <2> DEFINE p == Picked(s)
             both == (s \ {y}) \ {p}
  <2>4. p \in s BY PickedLeaves
  <2> HIDE DEF p
  <2>5. SumFunctionOnSet(f, s) = f[p] + SumFunctionOnSet(f, s \ {p}) BY <2>2, <2>3, SumSteps DEF p
  <2>6. p # y BY <2>2, <2>5
  <2>7. s \ {p} \notin Bad /\ s \ {y} \notin Bad BY <2>1, <2>2, <2>4
  <2>8. SumFunctionOnSet(f, s \ {p}) = f[y] + SumFunctionOnSet(f, (s \ {p}) \ {y}) BY <2>3, <2>6, <2>7
  <2>9. SumFunctionOnSet(f, s \ {y}) = f[p] + SumFunctionOnSet(f, both) BY <2>3, <2>4, <2>6, <2>7
  <2>10. (s \ {p}) \ {y} = both OBVIOUS
  <2>11. f[p] \in Int /\ f[y] \in Int BY <2>3, <2>4
  <2>12. SumFunctionOnSet(f, both) \in Int
    <3>1. both \in SUBSET S /\ IsFiniteSet(both) BY <2>3, FS_Subset
    <3> QED BY <3>1, SumIsInt
  <2> HIDE DEF both
  <2>13. \A a, b, c \in Int : a + (b + c) = b + (a + c) OBVIOUS
  <2>14. SumFunctionOnSet(f, s) = f[p] + (f[y] + SumFunctionOnSet(f, both)) BY <2>5, <2>8, <2>10
  <2>15. f[y] + SumFunctionOnSet(f, s \ {y}) = f[y] + (f[p] + SumFunctionOnSet(f, both)) BY <2>9
  <2> QED BY ONLY <2>2, <2>11, <2>12, <2>13, <2>14, <2>15
<1>2. S \in SUBSET S /\ S \notin Bad BY <1>1
<1>3. ~\E y \in S : SumFunctionOnSet(f, S) # f[y] + SumFunctionOnSet(f, S \ {y}) BY <1>2
<1> QED BY <1>3

\* Functions with the same values have the same sum.
LEMMA SumsEqual ==
    ASSUME NEW S, IsFiniteSet(S), NEW f, NEW g, \A u \in S : f[u] = g[u]
    PROVE  SumFunctionOnSet(f, S) = SumFunctionOnSet(g, S)
<1> DEFINE Bad == {s \in SUBSET S : SumFunctionOnSet(f, s) # SumFunctionOnSet(g, s)}
<1>1. Bad = {}
  <2> SUFFICES ASSUME Bad # {} PROVE FALSE OBVIOUS
  <2>0. \E s \in Bad : \A u \in Bad : u \subseteq s => u = s
    <3>1. Bad \in SUBSET (SUBSET S) OBVIOUS
    <3> HIDE DEF Bad
    <3> QED BY <3>1, SmallestSubset
  <2>1. PICK s \in Bad : \A u \in Bad : u \subseteq s => u = s BY <2>0
  <2>2. s \in SUBSET S /\ IsFiniteSet(s) BY FS_Subset
  <2>3. /\ SumFunctionOnSet(f, s) = IF s = {} THEN 0
                ELSE f[Picked(s)] + SumFunctionOnSet(f, s \ {Picked(s)})
        /\ SumFunctionOnSet(g, s) = IF s = {} THEN 0
                ELSE g[Picked(s)] + SumFunctionOnSet(g, s \ {Picked(s)})
    BY <2>2, SumSteps
  <2>4. s # {} BY <2>3
  <2>5. Picked(s) \in S /\ s \ {Picked(s)} \notin Bad BY <2>1, <2>2, <2>4, PickedLeaves
  <2>6. SumFunctionOnSet(f, s \ {Picked(s)}) = SumFunctionOnSet(g, s \ {Picked(s)})
    BY <2>2, <2>5
  <2>7. f[Picked(s)] = g[Picked(s)] BY <2>5
  <2> QED BY <2>3, <2>6, <2>7
<1> QED BY <1>1

\* The sum of no elements, of one, and of nothing but zeros.
LEMMA SimpleSums ==
    ASSUME NEW f
    PROVE  /\ SumFunctionOnSet(f, {}) = 0
           /\ \A x : f[x] \in Int => SumFunctionOnSet(f, {x}) = f[x]
           /\ \A S : IsFiniteSet(S) /\ (\A u \in S : f[u] = 0) => SumFunctionOnSet(f, S) = 0
<1>1. SumFunctionOnSet(f, {}) = 0 BY FS_EmptySet, SumSteps
<1>2. ASSUME NEW x, f[x] \in Int PROVE SumFunctionOnSet(f, {x}) = f[x]
  <2>1. IsFiniteSet({x}) BY FS_Singleton
  <2>2. SumFunctionOnSet(f, {x}) = f[x] + SumFunctionOnSet(f, {x} \ {x})
    BY <1>2, <2>1, SumRemoves
  <2>3. {x} \ {x} = {} OBVIOUS
  <2> QED BY <1>1, <1>2, <2>2, <2>3
<1>3. ASSUME NEW S, IsFiniteSet(S), \A u \in S : f[u] = 0
      PROVE  SumFunctionOnSet(f, S) = 0
  <2> DEFINE Bad == {s \in SUBSET S : SumFunctionOnSet(f, s) # 0}
  <2> SUFFICES ASSUME Bad # {} PROVE FALSE OBVIOUS
  <2>0. \E s \in Bad : \A u \in Bad : u \subseteq s => u = s
    <3>1. Bad \in SUBSET (SUBSET S) OBVIOUS
    <3> HIDE DEF Bad
    <3> QED BY <1>3, <3>1, SmallestSubset
  <2>1. PICK s \in Bad : \A u \in Bad : u \subseteq s => u = s BY <2>0
  <2>2. s \in SUBSET S /\ IsFiniteSet(s) BY <1>3, FS_Subset
  <2>3. SumFunctionOnSet(f, s) = IF s = {} THEN 0
                ELSE f[Picked(s)] + SumFunctionOnSet(f, s \ {Picked(s)})
    BY <2>2, SumSteps
  <2>4. s # {} BY <2>3
  <2>5. Picked(s) \in S /\ s \ {Picked(s)} \notin Bad BY <2>1, <2>2, <2>4, PickedLeaves
  <2>6. SumFunctionOnSet(f, s \ {Picked(s)}) = 0 BY <2>2, <2>5
  <2>7. f[Picked(s)] = 0 BY <1>3, <2>5
  <2> QED BY <2>3, <2>4, <2>6, <2>7
<1> QED BY <1>1, <1>2, <1>3

\* A value that grows makes the sum grow as much.
LEMMA SumGrows ==
    ASSUME NEW S, IsFiniteSet(S), NEW f, \A u \in S : f[u] \in Int,
           NEW x \in S, NEW q \in Int, NEW g, g[x] = f[x] + q,
           \A u \in S \ {x} : g[u] = f[u]
    PROVE  SumFunctionOnSet(g, S) = SumFunctionOnSet(f, S) + q
<1> DEFINE R == S \ {x}
<1>1. R \subseteq S /\ IsFiniteSet(R) BY FS_Subset
<1>2. \A u \in S : g[u] \in Int
  <2> TAKE u \in S
  <2>1. CASE u = x BY <2>1
  <2>2. CASE u # x BY <2>2
  <2> QED BY <2>1, <2>2
<1>3. SumFunctionOnSet(f, S) = f[x] + SumFunctionOnSet(f, R) BY SumRemoves
<1>4. SumFunctionOnSet(g, S) = g[x] + SumFunctionOnSet(g, R) BY <1>2, SumRemoves
<1>5. SumFunctionOnSet(g, R) = SumFunctionOnSet(f, R) BY <1>1, SumsEqual
<1>6. SumFunctionOnSet(f, R) \in Int BY <1>1, SumIsInt
<1>7. \A a, b \in Int : (a + q) + b = (a + b) + q OBVIOUS
<1> HIDE DEF R
<1> QED BY <1>3, <1>4, <1>5, <1>6, <1>7

\* The sum over a queue that has got an element more.
LEMMA SumOfMore ==
    ASSUME NEW n \in Nat, NEW f, NEW g, \A u \in 1 .. n + 1 : g[u] \in Int,
           \A u \in 1 .. n : f[u] = g[u]
    PROVE  SumFunctionOnSet(g, 1 .. n + 1) = SumFunctionOnSet(f, 1 .. n) + g[n + 1]
<1> DEFINE S == 1 .. n + 1
           R == 1 .. n
<1>1. IsFiniteSet(S) /\ IsFiniteSet(R) BY FS_Interval
<1>2. n + 1 \in S /\ S \ {n + 1} = R OBVIOUS
<1>3. \A u \in S : g[u] \in Int OBVIOUS
<1>4. \A u \in R : f[u] = g[u] /\ f[u] \in Int BY <1>2, <1>3
<1> HIDE DEF S, R
<1>5. SumFunctionOnSet(g, S) = g[n + 1] + SumFunctionOnSet(g, R)
  BY <1>1, <1>2, <1>3, SumRemoves
<1>6. SumFunctionOnSet(g, R) = SumFunctionOnSet(f, R) BY <1>1, <1>4, SumsEqual
<1>7. SumFunctionOnSet(f, R) \in Int BY <1>1, <1>4, SumIsInt
<1>8. g[n + 1] \in Int BY <1>2, <1>3
<1> QED BY <1>5, <1>6, <1>7, <1>8 DEF S, R

\* The sum over a queue that has lost its first element.
LEMMA SumOfRest ==
    ASSUME NEW n \in Nat, NEW f, NEW g, \A u \in 1 .. n + 1 : f[u] \in Int,
           \A u \in 1 .. n : g[u] = f[u + 1]
    PROVE  SumFunctionOnSet(f, 1 .. n + 1) = SumFunctionOnSet(g, 1 .. n) + f[1]
<1> DEFINE Holds(k) == SumFunctionOnSet(f, 1 .. k + 1) = SumFunctionOnSet(g, 1 .. k) + f[1]
           Bad == {k \in 0 .. n : ~Holds(k)}
<1>0. Holds(0)
  <2> DEFINE none == 1 .. 0
             one == 1 .. 0 + 1
  <2>1. none = {} /\ one = {1} /\ f[1] \in Int OBVIOUS
  <2> HIDE DEF none, one
  <2>2. SumFunctionOnSet(f, one) = f[1] BY <2>1, SimpleSums
  <2>3. SumFunctionOnSet(g, none) = 0 BY <2>1, SimpleSums
  <2>4. SumFunctionOnSet(f, one) = SumFunctionOnSet(g, none) + f[1] BY <2>1, <2>2, <2>3
  <2> QED BY <2>4 DEF none, one
<1>1. ASSUME NEW k \in 0 .. n, k + 1 \in 0 .. n, Holds(k) PROVE Holds(k + 1)
  <2>0. k \in Nat /\ k + 1 \in Nat /\ k + 1 \in 1 .. n /\ (k + 1) + 1 \in 1 .. n + 1
    BY <1>1
  <2>1. SumFunctionOnSet(f, 1 .. (k + 1) + 1)
        = SumFunctionOnSet(f, 1 .. k + 1) + f[(k + 1) + 1]
    <3>1. \A u \in 1 .. (k + 1) + 1 : f[u] \in Int BY <2>0
    <3> QED BY <2>0, <3>1, SumOfMore
  <2>2. SumFunctionOnSet(g, 1 .. k + 1) = SumFunctionOnSet(g, 1 .. k) + g[k + 1]
    <3>1. \A u \in 1 .. k + 1 : g[u] \in Int BY <2>0
    <3> QED BY <2>0, <3>1, SumOfMore
  <2>3. g[k + 1] = f[(k + 1) + 1] /\ g[k + 1] \in Int BY <2>0
  <2>4. SumFunctionOnSet(g, 1 .. k) \in Int
    <3> DEFINE R == 1 .. k
    <3>0. \A u \in R : g[u] \in Int BY <2>0
    <3>1. IsFiniteSet(R) BY <2>0, FS_Interval
    <3> HIDE DEF R
    <3>2. SumFunctionOnSet(g, R) \in Int BY <3>0, <3>1, SumIsInt
    <3> QED BY <3>2 DEF R
  <2>5. f[1] \in Int OBVIOUS
  <2>6. \A a, b, c \in Int : (a + b) + c = (a + c) + b OBVIOUS
  <2> QED BY <1>1, <2>1, <2>2, <2>3, <2>4, <2>5, <2>6
<1>2. Bad = {}
  <2> SUFFICES ASSUME Bad # {} PROVE FALSE OBVIOUS
  <2>1. Bad \in SUBSET Nat OBVIOUS
  <2> HIDE DEF Bad
  <2>2. PICK m \in Bad : \A k \in Bad : m <= k BY <2>1, HasLeast
  <2>3. m \in 0 .. n /\ ~Holds(m) BY DEF Bad
  <2>4. m # 0 BY <1>0, <2>3
  <2>5. m - 1 \in 0 .. n /\ m - 1 \notin Bad /\ (m - 1) + 1 = m
    <3>1. m - 1 \in 0 .. n /\ (m - 1) + 1 = m /\ ~(m <= m - 1) BY <2>3, <2>4
    <3> QED BY <2>2, <3>1
  <2>6. Holds(m - 1) BY <2>5 DEF Bad
  <2> QED BY <1>1, <2>3, <2>5, <2>6
<1> QED BY <1>2
=============================================================================
