---------------------------- MODULE ListsAndSums ----------------------------
(***************************************************************************)
(* Facts about the data the modules are built from, for all lists and      *)
(* finite sets: the list without its i-th element, loops, and sums.        *)
(* A sum is proved equal to a number of unit squares, by looking at a      *)
(* smallest set that would contradict it; what a step does to the sum then *)
(* follows from what it does to one column of squares.                     *)
(***************************************************************************)
EXTENDS SequencesExt, SequenceTheorems, FiniteSetTheorems, WellFoundedInduction, TLAPS

\* RemoveAt takes out the i-th element and leaves the others in order.
LEMMA RemoveFacts ==
    ASSUME NEW S, NEW q \in Seq(S), NEW i \in 1 .. Len(q)
    PROVE  /\ RemoveAt(q, i) \in Seq(S)
           /\ Len(RemoveAt(q, i)) = Len(q) - 1
           /\ \A j \in 1 .. Len(q) - 1 :
                 RemoveAt(q, i)[j] = IF j < i THEN q[j] ELSE q[j + 1]
<1> DEFINE n == Len(q)
           before == SubSeq(q, 1, i - 1)
           after == SubSeq(q, i + 1, n)
<1>1. n \in Nat /\ i \in 1 .. n /\ \A j \in 1 .. n : q[j] \in S
  BY ElementOfSeq, LenProperties
<1>2. /\ before \in Seq(S) /\ Len(before) = i - 1
      /\ \A j \in 1 .. i - 1 : before[j] = q[j]
  BY <1>1, SubSeqProperties
<1>3. /\ after \in Seq(S) /\ Len(after) = n - i
      /\ \A j \in 1 .. n - i : after[j] = q[i + j]
  BY <1>1, SubSeqProperties
<1>4. RemoveAt(q, i) = before \o after
  BY DEF RemoveAt
<1> HIDE DEF before, after, n
<1>5. /\ before \o after \in Seq(S)
      /\ Len(before \o after) = Len(before) + Len(after)
      /\ \A j \in 1 .. Len(before) + Len(after) : (before \o after)[j] =
             IF j <= Len(before) THEN before[j] ELSE after[j - Len(before)]
  BY <1>2, <1>3, ConcatProperties
<1>6. \A j \in 1 .. n - 1 :
         (before \o after)[j] = IF j < i THEN q[j] ELSE q[j + 1]
  BY <1>1, <1>2, <1>3, <1>5
<1>7. Len(before \o after) = n - 1
  BY <1>1, <1>2, <1>3, <1>5
<1> QED
  BY <1>4, <1>5, <1>6, <1>7 DEF n

-----------------------------------------------------------------------------
(* Loops.                                                                  *)

\* What holds before a loop and is kept by each of n iterations holds after each.
LEMMA AfterEach ==
    ASSUME NEW n \in Nat, NEW Good, 0 \in Good,
           \A k \in 1 .. n : k - 1 \in Good => k \in Good
    PROVE  \A k \in 0 .. n : k \in Good
<1> DEFINE Bad == {1 .. k : k \in {m \in 0 .. n : m \notin Good}}
<1> SUFFICES ASSUME Bad # {} PROVE FALSE
  OBVIOUS
<1>1. IsFiniteSet(1 .. n)
  BY FS_Interval
<1>2. Bad \subseteq FiniteSubsetsOf(1 .. n)
  <2>1. \A s \in Bad : s \subseteq 1 .. n
    OBVIOUS
  <2> QED
    BY <1>1, <2>1, FS_Subset DEF FiniteSubsetsOf
<1>3. PICK s \in Bad : \A r \in Bad : ~(<<r, s>> \in StrictSubsetOrdering(1 .. n))
  <2> HIDE DEF Bad
  <2> QED
    BY <1>1, <1>2, FS_StrictSubsetOrderingWellFounded, WFMin
<1>4. PICK k \in 0 .. n : s = 1 .. k /\ k \notin Good
  OBVIOUS
<1>5. k \in 1 .. n /\ k - 1 \in 0 .. n /\ k - 1 \notin Good
  BY <1>4
<1>6. 1 .. (k - 1) \in Bad
  BY <1>5
<1>7. <<1 .. (k - 1), s>> \in StrictSubsetOrdering(1 .. n)
  <2>1. 1 .. (k - 1) \subseteq s /\ k \in s /\ k \notin 1 .. (k - 1) /\ s \subseteq 1 .. n
    BY <1>4, <1>5
  <2> QED
    BY <2>1 DEF StrictSubsetOrdering
<1> QED
  BY <1>3, <1>6, <1>7

\* f has the results of n iterations, where step[k] is what the k-th does.
Iterates(f, n, begin, step) ==
    f[0] = begin /\ \A k \in 1 .. n : f[k] = step[k][f[k - 1]]

LEMMA LoopExists ==
    ASSUME NEW n \in Nat, NEW S, NEW begin \in S, NEW step \in [1 .. n -> [S -> S]]
    PROVE  \E f \in [0 .. n -> S] : Iterates(f, n, begin, step)
<1> DEFINE Upto(m, f) ==
               \A k \in 0 .. m : f[k] = IF k = 0 THEN begin ELSE step[k][f[k - 1]]
           Good == {m \in 0 .. n : \E f \in [0 .. m -> S] : Upto(m, f)}
<1>1. 0 \in Good
  <2> DEFINE f == [k \in 0 .. 0 |-> begin]
  <2>1. f \in [0 .. 0 -> S] /\ Upto(0, f)
    OBVIOUS
  <2> HIDE DEF f
  <2> QED
    BY <2>1
<1>2. ASSUME NEW k \in 1 .. n, k - 1 \in Good PROVE k \in Good
  <2>1. PICK f \in [0 .. (k - 1) -> S] : Upto(k - 1, f)
    BY <1>2
  <2> DEFINE g == [j \in 0 .. k |-> IF j = k THEN step[k][f[k - 1]] ELSE f[j]]
  <2>2. step[k] \in [S -> S] /\ f[k - 1] \in S
    OBVIOUS
  <2>3. \A j \in 0 .. k : j # k => j \in 0 .. (k - 1)
    OBVIOUS
  <2>4. g \in [0 .. k -> S]
    BY <2>2, <2>3
  <2>5. ASSUME NEW j \in 0 .. k
        PROVE  g[j] = IF j = 0 THEN begin ELSE step[j][g[j - 1]]
    <3>1. CASE j = k
      <4>1. k - 1 \in 0 .. k /\ k - 1 # k /\ j # 0
        BY <3>1
      <4>2. g[k - 1] = f[k - 1] /\ g[j] = step[k][f[k - 1]]
        BY <3>1, <4>1
      <4> HIDE DEF g
      <4> QED
        BY <3>1, <4>1, <4>2
    <3>2. CASE j = 0
      <4>1. j # k /\ j \in 0 .. (k - 1)
        BY <3>2
      <4>2. f[j] = begin
        BY <2>1, <3>2, <4>1
      <4> QED
        BY <3>2, <4>1, <4>2
    <3>3. CASE j # k /\ j # 0
      <4>1. j \in 0 .. (k - 1) /\ j - 1 \in 0 .. k /\ j - 1 # k
        BY <3>3
      <4>2. g[j] = f[j] /\ g[j - 1] = f[j - 1]
        BY <3>3, <4>1
      <4>3. f[j] = step[j][f[j - 1]]
        BY <2>1, <3>3, <4>1
      <4> HIDE DEF g
      <4> QED
        BY <3>3, <4>2, <4>3
    <3> QED
      BY <3>1, <3>2, <3>3
  <2> HIDE DEF g
  <2> QED
    BY <2>4, <2>5
<1>3. n \in Good
  <2> HIDE DEF Good
  <2>1. \A k \in 1 .. n : k - 1 \in Good => k \in Good
    BY <1>2
  <2>2. \A k \in 0 .. n : k \in Good
    BY <1>1, <2>1, AfterEach
  <2> QED
    BY <2>2
<1>4. PICK f \in [0 .. n -> S] : Upto(n, f)
  BY <1>3
<1>5. 0 \in 0 .. n /\ \A k \in 1 .. n : k \in 0 .. n /\ k # 0
  OBVIOUS
<1>6. Iterates(f, n, begin, step)
  BY <1>4, <1>5 DEF Iterates
<1> QED
  BY <1>6

\* A loop keeps the best candidate so far, one of S with the least key, and replaces
\* it by a strictly better one only.
KeepsBest(n, S, key, bound, at, best, least) ==
    /\ best[0] = 0 /\ least[0] = bound
    /\ \A k \in S : key[k] \in Nat /\ key[k] < bound
    /\ \A k \in 1 .. n :
          IF k \in S /\ key[k] < least[k - 1]
          THEN best[k] = at[k] /\ least[k] = key[k]
          ELSE best[k] = best[k - 1] /\ least[k] = least[k - 1]

FirstOfLeast(b, S, key) ==
    b \in S /\ \A j \in S : key[b] <= key[j] /\ (j < b => key[b] < key[j])

\* It ends on the first of the best ones.
LEMMA FirstMinimum ==
    ASSUME NEW n \in Nat, NEW S \in SUBSET (1 .. n), NEW key, NEW bound \in Nat,
           NEW at, NEW best, NEW least,
           KeepsBest(n, S, key, bound, at, best, least)
    PROVE  /\ S = {} => best[n] = 0
           /\ S # {} => \E b \in S : best[n] = at[b] /\ FirstOfLeast(b, S, key)
<1> USE DEF KeepsBest
<1> DEFINE First(b, k) == \A j \in S : j <= k => /\ key[b] <= key[j]
                                                 /\ j < b => key[b] < key[j]
           None(k) == best[k] = 0 /\ least[k] = bound /\ \A j \in S : ~(j <= k)
           Found(k, b) == /\ b <= k /\ best[k] = at[b] /\ least[k] = key[b]
                          /\ First(b, k)
           Good == {k \in 0 .. n : None(k) \/ \E b \in S : Found(k, b)}
<1>1. 0 \in Good
  OBVIOUS
<1>2. ASSUME NEW k \in 1 .. n, k - 1 \in Good PROVE k \in Good
  <2>0. \A j \in S : j \in Nat /\ (j <= k <=> j <= k - 1 \/ j = k)
    OBVIOUS
  <2>1. CASE k \in S /\ key[k] < least[k - 1]
    <3>1. best[k] = at[k] /\ least[k] = key[k]
      BY <2>1
    <3>2. ASSUME NEW j \in S, j <= k PROVE key[k] <= key[j] /\ (j < k => key[k] < key[j])
      <4>1. CASE j = k
        BY <2>1, <4>1
      <4>2. CASE j <= k - 1
        <5>1. PICK b \in S : Found(k - 1, b)
          BY <1>2, <4>2
        <5>2. key[b] <= key[j] /\ key[k] < key[b]
          BY <2>1, <4>2, <5>1
        <5> QED
          BY <2>1, <5>2
      <4> QED
        BY <2>0, <3>2, <4>1, <4>2
    <3>3. Found(k, k)
      BY <2>1, <3>1, <3>2
    <3> QED
      BY <2>1, <3>3
  <2>2. CASE ~(k \in S /\ key[k] < least[k - 1])
    <3>1. best[k] = best[k - 1] /\ least[k] = least[k - 1]
      BY <2>2
    <3>2. CASE None(k - 1)
      <4>1. k \notin S
        BY <2>2, <3>2
      <4>2. None(k)
        BY <2>0, <3>1, <3>2, <4>1
      <4> QED
        BY <4>2
    <3>3. ASSUME NEW b \in S, Found(k - 1, b) PROVE k \in Good
      <4>1. b < k /\ b \in Nat
        BY <3>3
      <4>2. k \in S => key[b] <= key[k]
        BY <2>2, <3>3
      <4>3. First(b, k)
        BY <2>0, <3>3, <4>1, <4>2
      <4>4. Found(k, b)
        BY <3>1, <3>3, <4>1, <4>3
      <4> QED
        BY <4>4
    <3> QED
      BY <1>2, <3>2, <3>3
  <2> QED
    BY <2>1, <2>2
<1>3. n \in Good
  <2>1. \A k \in 1 .. n : k - 1 \in Good => k \in Good
    BY <1>2
  <2> HIDE DEF Good
  <2>2. \A k \in 0 .. n : k \in Good
    BY <1>1, <2>1, AfterEach
  <2> QED
    BY <2>2
<1>4. \A j \in S : j <= n
  OBVIOUS
<1>5. CASE None(n)
  BY <1>4, <1>5
<1>6. ASSUME NEW b \in S, Found(n, b)
      PROVE  FirstOfLeast(b, S, key)
  BY <1>4, <1>6 DEF FirstOfLeast
<1> QED
  BY <1>3, <1>5, <1>6

-----------------------------------------------------------------------------
(* Sums.                                                                   *)

\* The unit squares under the graph of h over s.
Area(s, h) == {p \in s \X Nat : p[2] \in 1 .. h[p[1]]}

\* f is the function by which MapThenSumSet adds the values of h over S.
SumsUp(f, h, S) ==
    f = [s \in SUBSET S |->
            IF s = {} THEN 0
            ELSE LET x == CHOOSE x \in s : TRUE IN h[x] + f[s \ {x}]]

LEMMA EmptyArea ==
    ASSUME NEW h
    PROVE  Area({}, h) = {} /\ Cardinality(Area({}, h)) = 0
<1>1. Area({}, h) = {}
  BY DEF Area
<1> QED
  BY <1>1, FS_EmptySet

\* One more element adds its column.
LEMMA AddColumn ==
    ASSUME NEW S, NEW h \in [S -> Nat], NEW s \in SUBSET S, NEW x \in s,
           IsFiniteSet(Area(s \ {x}, h))
    PROVE  /\ IsFiniteSet(Area(s, h))
           /\ Cardinality(Area(s, h)) = h[x] + Cardinality(Area(s \ {x}, h))
<1> DEFINE A == Area(s \ {x}, h)
           C == {x} \X (1 .. h[x])
<1>1. Area(s, h) = A \cup C /\ A \cap C = {}
  <2>1. h[x] \in Nat
    OBVIOUS
  <2>2. \A p \in Area(s, h) : p \in A \/ p \in C
    BY <2>1 DEF Area
  <2>3. C \subseteq Area(s, h)
    BY <2>1 DEF Area
  <2>4. A \subseteq Area(s, h)
    BY DEF Area
  <2>5. A \cap C = {}
    BY DEF Area
  <2> QED
    BY <2>2, <2>3, <2>4, <2>5
<1>2. IsFiniteSet(C) /\ Cardinality(C) = h[x]
  <2>1. h[x] \in Nat
    OBVIOUS
  <2>2. IsFiniteSet(1 .. h[x]) /\ Cardinality(1 .. h[x]) = h[x]
    BY <2>1, FS_Interval
  <2>3. IsFiniteSet({x}) /\ Cardinality({x}) = 1
    BY FS_Singleton
  <2> QED
    BY <2>1, <2>2, <2>3, FS_Product
<1> HIDE DEF A, C
<1>3. IsFiniteSet(A)
  BY DEF A
<1>4. /\ IsFiniteSet(A \cup C)
      /\ Cardinality(A \cup C) = Cardinality(A) + Cardinality(C) - Cardinality(A \cap C)
  BY <1>2, <1>3, FS_Union
<1>5. Cardinality(A \cap C) = 0 /\ Cardinality(A) \in Nat /\ h[x] \in Nat
  BY <1>1, <1>3, FS_EmptySet, FS_CardinalityType
<1> QED
  BY <1>1, <1>2, <1>4, <1>5 DEF A

LEMMA AreaFinite ==
    ASSUME NEW S, IsFiniteSet(S), NEW h \in [S -> Nat]
    PROVE  \A s \in SUBSET S : IsFiniteSet(Area(s, h))
<1> DEFINE Bad == {s \in SUBSET S : ~IsFiniteSet(Area(s, h))}
<1> SUFFICES ASSUME Bad # {} PROVE FALSE
  OBVIOUS
<1>1. Bad \subseteq FiniteSubsetsOf(S)
  BY FS_Subset DEF FiniteSubsetsOf
<1>2. PICK s \in Bad : \A r \in Bad : ~(<<r, s>> \in StrictSubsetOrdering(S))
  <2> HIDE DEF Bad
  <2> QED
    BY <1>1, FS_StrictSubsetOrderingWellFounded, WFMin
<1>3. s # {}
  BY EmptyArea, FS_EmptySet
<1>4. PICK x \in s : TRUE
  BY <1>3
<1>5. s \ {x} \notin Bad
  BY <1>2, <1>4 DEF StrictSubsetOrdering
<1>6. IsFiniteSet(Area(s \ {x}, h))
  BY <1>5
<1> QED
  BY <1>4, <1>6, AddColumn

\* Such a function exists, and every such function counts the area.
LEMMA SumsUpExists ==
    ASSUME NEW S, IsFiniteSet(S), NEW h \in [S -> Nat]
    PROVE  \E f : SumsUp(f, h, S)
<1> DEFINE f == [s \in SUBSET S |-> Cardinality(Area(s, h))]
<1>1. ASSUME NEW s \in SUBSET S
      PROVE  f[s] = IF s = {} THEN 0
                    ELSE LET x == CHOOSE x \in s : TRUE IN h[x] + f[s \ {x}]
  <2>1. CASE s = {}
    BY <2>1, EmptyArea
  <2>2. CASE s # {}
    <3> DEFINE x == CHOOSE x \in s : TRUE
    <3>1. x \in s
      BY <2>2
    <3> HIDE DEF x
    <3>2. s \ {x} \in SUBSET S /\ IsFiniteSet(Area(s \ {x}, h))
      BY AreaFinite
    <3>3. Cardinality(Area(s, h)) = h[x] + Cardinality(Area(s \ {x}, h))
      BY <3>1, <3>2, AddColumn
    <3>4. f[s] = h[x] + f[s \ {x}]
      BY <3>2, <3>3
    <3> QED
      BY <2>2, <3>4 DEF x
  <2> QED
    BY <2>1, <2>2
<1>2. f = [s \in SUBSET S |->
             IF s = {} THEN 0
             ELSE LET x == CHOOSE x \in s : TRUE IN h[x] + f[s \ {x}]]
  BY <1>1, Zenon
<1> HIDE DEF f
<1> QED
  BY <1>2 DEF SumsUp

LEMMA SumIsArea ==
    ASSUME NEW S, IsFiniteSet(S), NEW h \in [S -> Nat], NEW f, SumsUp(f, h, S)
    PROVE  f[S] = Cardinality(Area(S, h))
<1> DEFINE Bad == {s \in SUBSET S : f[s] # Cardinality(Area(s, h))}
<1>0. \A s \in SUBSET S :
         f[s] = IF s = {} THEN 0
                ELSE LET x == CHOOSE x \in s : TRUE IN h[x] + f[s \ {x}]
  BY DEF SumsUp
<1> SUFFICES ASSUME Bad # {} PROVE FALSE
  OBVIOUS
<1>1. Bad \subseteq FiniteSubsetsOf(S)
  BY FS_Subset DEF FiniteSubsetsOf
<1>2. PICK s \in Bad : \A r \in Bad : ~(<<r, s>> \in StrictSubsetOrdering(S))
  <2> HIDE DEF Bad
  <2> QED
    BY <1>1, FS_StrictSubsetOrderingWellFounded, WFMin
<1>3. s # {}
  BY <1>0, EmptyArea
<1> DEFINE x == CHOOSE x \in s : TRUE
<1>4. x \in s /\ f[s] = h[x] + f[s \ {x}]
  BY <1>0, <1>3
<1> HIDE DEF x
<1>5. s \ {x} \notin Bad
  BY <1>2, <1>4 DEF StrictSubsetOrdering
<1>6. f[s \ {x}] = Cardinality(Area(s \ {x}, h)) /\ IsFiniteSet(Area(s \ {x}, h))
  BY <1>5, AreaFinite
<1>7. Cardinality(Area(s, h)) = h[x] + Cardinality(Area(s \ {x}, h))
  BY <1>4, <1>6, AddColumn
<1> QED
  BY <1>4, <1>6, <1>7

\* When one element changes its value, the sum changes by the difference.
LEMMA ChangeColumn ==
    ASSUME NEW S, IsFiniteSet(S), NEW h \in [S -> Nat], NEW g \in [S -> Nat],
           NEW x \in S, \A y \in S \ {x} : g[y] = h[y]
    PROVE  /\ Cardinality(Area(S, h)) \in Nat /\ Cardinality(Area(S, g)) \in Nat
           /\ Cardinality(Area(S, g)) = Cardinality(Area(S, h)) + g[x] - h[x]
<1> DEFINE r == S \ {x}
<1>1. Area(r, g) = Area(r, h)
  BY DEF Area
<1>2. /\ IsFiniteSet(Area(r, h)) /\ IsFiniteSet(Area(S, h))
      /\ IsFiniteSet(Area(r, g)) /\ IsFiniteSet(Area(S, g))
  BY AreaFinite
<1>3. /\ Cardinality(Area(S, h)) = h[x] + Cardinality(Area(r, h))
      /\ Cardinality(Area(S, g)) = g[x] + Cardinality(Area(r, g))
  BY <1>2, AddColumn
<1>4. /\ Cardinality(Area(r, h)) \in Nat /\ Cardinality(Area(S, h)) \in Nat
      /\ Cardinality(Area(S, g)) \in Nat /\ h[x] \in Nat /\ g[x] \in Nat
  BY <1>2, FS_CardinalityType
<1> QED
  BY <1>1, <1>3, <1>4

\* Nothing but zeros adds up to zero.
LEMMA NoColumns ==
    ASSUME NEW S, NEW h, \A x \in S : h[x] = 0
    PROVE  Cardinality(Area(S, h)) = 0
<1>1. Area(S, h) = {}
  BY DEF Area
<1> QED
  BY <1>1, FS_EmptySet

\* If no column is higher than m and one is lower, the sum is below the rectangle.
LEMMA BelowRectangle ==
    ASSUME NEW S, IsFiniteSet(S), NEW h \in [S -> Nat], NEW m \in Nat,
           \A y \in S : h[y] <= m, NEW x \in S, h[x] < m
    PROVE  Cardinality(Area(S, h)) < m * Cardinality(S)
<1> DEFINE R == S \X (1 .. m)
<1>1. IsFiniteSet(1 .. m) /\ Cardinality(1 .. m) = m
  BY FS_Interval
<1>2. IsFiniteSet(R) /\ Cardinality(R) = Cardinality(S) * m /\ Cardinality(S) \in Nat
  BY <1>1, FS_Product, FS_CardinalityType
<1>3. Area(S, h) \subseteq R
  BY DEF Area
<1>4. <<x, m>> \in R /\ <<x, m>> \notin Area(S, h)
  <2>1. h[x] \in Nat /\ m \in 1 .. m
    OBVIOUS
  <2> QED
    BY <2>1 DEF Area
<1> HIDE DEF R
<1>5. /\ IsFiniteSet(Area(S, h)) /\ Cardinality(Area(S, h)) <= Cardinality(R)
      /\ Cardinality(Area(S, h)) # Cardinality(R)
  BY <1>2, <1>3, <1>4, FS_Subset
<1>6. Cardinality(Area(S, h)) \in Nat
  BY <1>5, FS_CardinalityType
<1> QED
  BY <1>2, <1>5, <1>6
=============================================================================
