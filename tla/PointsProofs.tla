---------------------------- MODULE PointsProofs ----------------------------
(***************************************************************************)
(* The list of points stays sorted, for lists of any length.  First what   *)
(* folding an operation over a sequence does, by induction on its length.  *)
(***************************************************************************)
EXTENDS SortedPoints, FunctionTheorems, FiniteSetTheorems, TLAPS

-----------------------------------------------------------------------------
(* Every nonempty set of natural numbers has a least element: the          *)
(* intervals 0 .. n are well-founded.                                      *)
LEMMA LeastNat ==
  ASSUME NEW T \in SUBSET Nat, T # {}
  PROVE  \E m \in T : \A n \in T : m <= n
<1> DEFINE I == {0 .. n : n \in T}
<1>1. I # {}
  OBVIOUS
<1>2. I \subseteq FiniteSubsetsOf(Nat)
  <2>1. \A n \in T : IsFiniteSet(0 .. n) /\ 0 .. n \in SUBSET Nat
    BY FS_Interval
  <2> QED
    BY <2>1 DEF FiniteSubsetsOf
<1>3. PICK s \in I : \A u \in I : <<u, s>> \notin StrictSubsetOrdering(Nat)
  <2> HIDE DEF I
  <2> QED
    BY <1>1, <1>2, FS_StrictSubsetOrderingWellFounded, WFMin
<1>4. PICK m \in T : s = 0 .. m
  OBVIOUS
<1>5. ASSUME NEW n \in T, n < m PROVE FALSE
  <2>1. 0 .. n \in I /\ n \in Nat /\ m \in Nat
    OBVIOUS
  <2>2. <<0 .. n, s>> \in StrictSubsetOrdering(Nat)
    BY <1>4, <1>5, <2>1 DEF StrictSubsetOrdering
  <2> QED
    BY <1>3, <2>1, <2>2
<1> QED
  BY <1>4, <1>5

(* Induction up to a bound.                                                *)
LEMMA Induction ==
  ASSUME NEW n \in Nat, NEW S, 0 \in S,
         \A k \in 1 .. n : k - 1 \in S => k \in S
  PROVE  \A k \in 0 .. n : k \in S
<1> DEFINE T == (0 .. n) \ S
<1> SUFFICES ASSUME T # {} PROVE FALSE
  OBVIOUS
<1>1. PICK m \in T : \A k \in T : m <= k
  <2>1. T \in SUBSET Nat
    OBVIOUS
  <2> HIDE DEF T
  <2> QED
    BY <2>1, LeastNat
<1>2. m \in 1 .. n
  OBVIOUS
<1>3. m - 1 \in S
  BY <1>1, <1>2
<1> QED
  BY <1>1, <1>2, <1>3

-----------------------------------------------------------------------------
(* FoldLeft folds over the sets of indices, the greatest last.             *)
LEMMA MaxIs ==
  ASSUME NEW S \in SUBSET Int, NEW m \in S, \A k \in S : k <= m
  PROVE  Max(S) = m
<1>1. \A k \in S : m >= k
  OBVIOUS
<1>2. Max(S) \in S /\ \A k \in S : Max(S) >= k
  BY <1>1 DEF Max
<1>3. Max(S) \in Int /\ m \in Int /\ Max(S) >= m /\ m >= Max(S)
  BY <1>1, <1>2
<1> QED
  BY <1>3

LEMMA MaxIn ==
  ASSUME NEW n \in Nat, NEW s \in SUBSET (1 .. n), s # {}
  PROVE  Max(s) \in s /\ s \ {Max(s)} \in SUBSET (1 .. n)
<1> DEFINE T == {n - k : k \in s}
<1>1. PICK i \in T : \A j \in T : i <= j
  <2>1. \A k \in s : n - k \in Nat
    OBVIOUS
  <2>2. T \in SUBSET Nat /\ T # {}
    BY <2>1
  <2> HIDE DEF T
  <2> QED
    BY <2>2, LeastNat
<1>2. n - i \in s /\ \A k \in s : k <= n - i
  <2>1. \A k \in s : k \in Int /\ i <= n - k
    BY <1>1
  <2>2. n - i \in s /\ i \in Int
    BY <1>1
  <2> QED
    BY <2>1, <2>2
<1>3. Max(s) = n - i
  BY <1>2, MaxIs
<1> QED
  BY <1>2, <1>3

(* What FoldLeft computes of every set of indices, the operation given as  *)
(* a function.                                                             *)
FoldsTo(iter, n, base, g, seq) ==
  \A s \in SUBSET (1 .. n) :
    iter[s] = IF s = {} THEN base ELSE g[<<iter[s \ {Max(s)}], seq[Max(s)]>>]

LEMMA FoldExists ==
  ASSUME NEW n \in Nat, NEW V, NEW E, NEW base \in V, NEW g \in [V \X E -> V],
         NEW seq \in [1 .. n -> E]
  PROVE  \E iter \in [SUBSET (1 .. n) -> V] : FoldsTo(iter, n, base, g, seq)
<1> DEFINE Eq(m, iter) ==
             \A s \in SUBSET (1 .. m) :
               iter[s] = IF s = {} THEN base
                         ELSE g[<<iter[s \ {Max(s)}], seq[Max(s)]>>]
           S == {m \in 0 .. n : \E iter \in [SUBSET (1 .. m) -> V] : Eq(m, iter)}
<1>1. 0 \in S
  <2> DEFINE it == [s \in SUBSET (1 .. 0) |-> base]
  <2>1. it \in [SUBSET (1 .. 0) -> V] /\ \A s \in SUBSET (1 .. 0) : s = {} /\ it[s] = base
    OBVIOUS
  <2>2. Eq(0, it)
    BY <2>1
  <2> HIDE DEF it, Eq
  <2> QED
    BY <2>1, <2>2
<1>2. ASSUME NEW m \in 1 .. n, m - 1 \in S PROVE m \in S
  <2>1. PICK old \in [SUBSET (1 .. m - 1) -> V] : Eq(m - 1, old)
    BY <1>2
  <2> DEFINE it == [s \in SUBSET (1 .. m) |->
                      IF m \in s THEN g[<<old[s \ {m}], seq[m]>>] ELSE old[s]]
  <2>2. ASSUME NEW s \in SUBSET (1 .. m)
        PROVE  /\ m \in s => s \ {m} \in SUBSET (1 .. m - 1) /\ Max(s) = m
               /\ m \notin s => s \in SUBSET (1 .. m - 1)
    <3>1. m \in s => Max(s) = m
      BY MaxIs
    <3> QED
      BY <3>1
  <2>3. it \in [SUBSET (1 .. m) -> V]
    <3>1. ASSUME NEW s \in SUBSET (1 .. m) PROVE it[s] \in V
      BY <2>2
    <3> QED
      BY <3>1
  <2>4. \A s \in SUBSET (1 .. m - 1) : it[s] = old[s]
    <3>1. \A s \in SUBSET (1 .. m - 1) : s \in SUBSET (1 .. m) /\ m \notin s
      OBVIOUS
    <3> QED
      BY <3>1
  <2>5. ASSUME NEW s \in SUBSET (1 .. m), s # {}
        PROVE  it[s] = g[<<it[s \ {Max(s)}], seq[Max(s)]>>]
    <3>1. CASE m \in s
      BY <2>2, <2>4, <3>1
    <3>2. CASE m \notin s
      <4>1. s \in SUBSET (1 .. m - 1) /\ s \ {Max(s)} \in SUBSET (1 .. m - 1)
        BY <2>2, <3>2
      <4> QED
        BY <2>1, <2>4, <2>5, <4>1
    <3> QED
      BY <3>1, <3>2
  <2>6. it[{}] = base
    BY <2>1, <2>4
  <2>7. Eq(m, it)
    <3> HIDE DEF it
    <3> QED
      BY <2>5, <2>6
  <2> HIDE DEF it, Eq
  <2> QED
    BY <2>3, <2>7
<1>3. n \in S
  <2>1. \A k \in 1 .. n : k - 1 \in S => k \in S
    BY <1>2
  <2> HIDE DEF S
  <2>2. \A k \in 0 .. n : k \in S
    BY <1>1, <2>1, Induction
  <2> QED
    BY <2>2
<1>4. PICK iter \in [SUBSET (1 .. n) -> V] : Eq(n, iter)
  BY <1>3
<1> QED
  BY <1>4 DEF FoldsTo

(* The prefixes of the sequence.                                           *)
LEMMA PrefixIs ==
  ASSUME NEW n \in Nat, NEW k \in 1 .. n
  PROVE  /\ 1 .. k \in SUBSET (1 .. n) /\ 1 .. k # {}
         /\ Max(1 .. k) = k /\ (1 .. k) \ {k} = 1 .. k - 1
<1>1. 1 .. k \in SUBSET Int /\ k \in 1 .. k /\ \A j \in 1 .. k : j <= k
  OBVIOUS
<1>2. Max(1 .. k) = k
  BY <1>1, MaxIs
<1>3. 1 .. k \in SUBSET (1 .. n)
  OBVIOUS
<1>4. (1 .. k) \ {k} = 1 .. k - 1
  OBVIOUS
<1> QED
  BY <1>1, <1>2, <1>3, <1>4
-----------------------------------------------------------------------------
(* sp_delete_duplicates: what it keeps of the first k points.              *)
LEMMA KeepFold ==
  ASSUME NEW n \in Nat, NEW seq \in [1 .. n -> Point]
  PROVE  \E kept \in [0 .. n -> Seq(Point)] :
           /\ kept[0] = <<>> /\ FoldLeft(keep, <<>>, seq) = kept[n]
           /\ \A k \in 1 .. n : kept[k] = keep(kept[k - 1], seq[k])
<1> DEFINE V == Seq(Point)
           g == [ve \in V \X Point |-> keep(ve[1], ve[2])]
<1>1. \A v \in V, p \in Point : keep(v, p) \in V /\ g[<<v, p>>] = keep(v, p)
  BY DEF keep
<1>2. <<>> \in V
  OBVIOUS
<1> HIDE DEF V
<1>a. g \in [V \X Point -> V]
  BY <1>1
<1> HIDE DEF g
<1>3. PICK it \in [SUBSET (1 .. n) -> V] : FoldsTo(it, n, <<>>, g, seq)
  BY <1>2, <1>a, FoldExists
<1> DEFINE Eq(iter) == iter = [s \in SUBSET (1 .. n) |->
                                 IF s = {} THEN <<>>
                                 ELSE keep(iter[s \ {Max(s)}], seq[Max(s)])]
           fold == CHOOSE iter : Eq(iter)
<1>4. Eq(it)
  <2>1. \A s \in SUBSET (1 .. n) :
          s # {} => it[s \ {Max(s)}] \in V /\ seq[Max(s)] \in Point
    BY MaxIn
  <2> QED
    BY <1>1, <1>3, <2>1 DEF FoldsTo
<1>5. FoldLeft(keep, <<>>, seq) = fold[1 .. n]
  BY DEF FoldLeft, MapThenFoldSet
<1>6. Eq(fold)
  BY <1>4
<1> HIDE DEF fold
<1>7. /\ fold[{}] = <<>>
      /\ \A s \in SUBSET (1 .. n) :
           s # {} => fold[s] = keep(fold[s \ {Max(s)}], seq[Max(s)])
  BY <1>6
<1> HIDE DEF Eq
<1>8. ASSUME NEW k \in 1 .. n PROVE fold[1 .. k] = keep(fold[1 .. k - 1], seq[k])
  BY <1>7, PrefixIs
<1> DEFINE S == {k \in 0 .. n : fold[1 .. k] \in V}
<1>9. 0 \in S
  <2>1. 1 .. 0 = {}
    OBVIOUS
  <2> QED
    BY <1>2, <1>7, <2>1
<1>10. ASSUME NEW k \in 1 .. n, k - 1 \in S PROVE k \in S
  <2>1. fold[1 .. k - 1] \in V /\ seq[k] \in Point /\ k \in 0 .. n
    BY <1>10
  <2>2. fold[1 .. k] = keep(fold[1 .. k - 1], seq[k])
    BY <1>8
  <2>3. fold[1 .. k] \in V
    BY <1>1, <2>1, <2>2
  <2> QED
    BY <2>1, <2>3
<1>11. \A k \in 0 .. n : fold[1 .. k] \in V
  <2>1. \A k \in 0 .. n : k \in S
    <3> HIDE DEF S
    <3> QED
      BY <1>9, <1>10, Induction
  <2> QED
    BY <2>1
<1> DEFINE kept == [k \in 0 .. n |-> fold[1 .. k]]
<1>12. kept \in [0 .. n -> V] /\ \A k \in 0 .. n : kept[k] = fold[1 .. k]
  BY <1>11
<1>13. /\ kept[0] = <<>> /\ kept[n] = fold[1 .. n]
       /\ \A k \in 1 .. n : kept[k] = keep(kept[k - 1], seq[k])
  <2> HIDE DEF kept
  <2>1. 1 .. 0 = {} /\ n \in 0 .. n /\ 0 \in 0 .. n
    OBVIOUS
  <2> QED
    BY <1>7, <1>8, <1>12, <2>1
<1> QED
  BY <1>5, <1>12, <1>13 DEF V
-----------------------------------------------------------------------------
(* The order of sorted_points.h is total.                                  *)
LEMMA Distance ==
  ASSUME NEW p \in Point
  PROVE  /\ p[1] \in Int /\ p[2] \in Int /\ p = <<p[1], p[2]>>
         /\ Bag!Dist(p) \in Int /\ length2(p) = Bag!Dist(p)
<1>1. p[1] \in Int /\ p[2] \in Int /\ p = <<p[1], p[2]>>
  <2>1. PICK x \in Coords, y \in Coords : p = <<x, y>>
    BY DEF Point
  <2>2. p[1] = x /\ p[2] = y
    BY <2>1
  <2> QED
    BY <2>1, <2>2, PointsAssumption
<1>2. \A x, y \in Int : (x * x) + (y * y) \in Int
  OBVIOUS
<1>3. (p[1] * p[1]) + (p[2] * p[2]) \in Int
  BY <1>1, <1>2, Zenon
<1>4. Bag!Dist(p) = (p[1] * p[1]) + (p[2] * p[2]) /\ length2(p) = Bag!Dist(p)
  BY DEF Bag!Dist, length2
<1> QED
  BY <1>1, <1>3, <1>4, Zenon

LEMMA Order ==
  ASSUME NEW p \in Point, NEW q \in Point
  PROVE  /\ p = q \/ Bag!Before(p, q) \/ Bag!Before(q, p)
         /\ Bag!Before(p, q) => p # q /\ ~Bag!Before(q, p)
BY Distance DEF Bag!Before

LEMMA OrderTransitive ==
  ASSUME NEW p \in Point, NEW q \in Point, NEW r \in Point,
         ~Bag!Before(q, p), ~Bag!Before(r, q)
  PROVE  ~Bag!Before(r, p)
BY Distance DEF Bag!Before

Ascending(s) ==
  \A i \in 1 .. Len(s) : \A j \in i + 1 .. Len(s) : ~Bag!Before(s[j], s[i])

PointsInv == list \in Seq(Point) /\ Ascending(list)

-----------------------------------------------------------------------------
(* Where sp_add_point puts a point: what comes before it is before p, and  *)
(* nothing after it is.                                                    *)
LEMMA MinIs ==
  ASSUME NEW S \in SUBSET Nat, S # {}
  PROVE  Min(S) \in S /\ \A k \in S : Min(S) <= k
BY LeastNat DEF Min

LEMMA Place ==
  ASSUME PointsInv, NEW p \in Point
  PROVE  /\ place(p) \in 1 .. Len(list) + 1
         /\ \A i \in 1 .. place(p) - 1 : Bag!Before(list[i], p)
         /\ \A i \in place(p) .. Len(list) : ~Bag!Before(list[i], p)
<1> DEFINE n == Len(list)
           K == {i \in 1 .. n : point_compare(p, list[i]) # 1} \cup {End}
           k == not_closer(p)
           M == {i \in k .. n : ~after_equal(p, list[i])} \cup {End}
           m == place(p)
<1>1. n \in Nat /\ End = n + 1 /\ \A i \in 1 .. n : list[i] \in Point
  BY DEF PointsInv, End
<1>2. k \in K /\ k \in 1 .. n + 1 /\ \A i \in K : k <= i
  <2>1. K \in SUBSET Nat /\ K # {} /\ k = Min(K) /\ K \in SUBSET (1 .. n + 1)
    BY <1>1 DEF not_closer
  <2> HIDE DEF K, k
  <2> QED
    BY <2>1, MinIs
<1>3. m \in M /\ m \in k .. n + 1 /\ \A i \in M : m <= i
  <2>1. M \in SUBSET Nat /\ M # {} /\ m = Min(M) /\ M \in SUBSET (k .. n + 1)
    <3> HIDE DEF k
    <3> QED
      BY <1>1, <1>2 DEF place, k
  <2> HIDE DEF M, m
  <2> QED
    BY <2>1, MinIs
<1> HIDE DEF k, m
<1>4. ASSUME NEW i \in 1 .. m - 1 PROVE Bag!Before(list[i], p)
  <2>1. i \in 1 .. n /\ list[i] \in Point
    BY <1>1, <1>2, <1>3
  <2>2. CASE i < k
    <3>1. point_compare(p, list[i]) = 1
      BY <1>2, <2>1, <2>2
    <3> QED
      BY <2>1, <3>1, Distance DEF point_compare, Bag!Before
  <2>3. CASE i >= k
    <3>1. after_equal(p, list[i])
      BY <1>2, <1>3, <2>1, <2>3
    <3> QED
      BY <2>1, <3>1, Distance DEF point_compare, after_equal, Bag!Before
  <2> QED
    BY <1>2, <2>2, <2>3
<1>5. ASSUME m \in 1 .. n PROVE ~Bag!Before(list[m], p)
  <2>1. k \in 1 .. n /\ point_compare(p, list[k]) # 1
    BY <1>1, <1>2, <1>3, <1>5
  <2>2. ~after_equal(p, list[m])
    BY <1>1, <1>3, <1>5
  <2>3. ~Bag!Before(list[m], list[k])
    BY <1>2, <1>3, <1>5, Order, <1>1 DEF PointsInv, Ascending
  <2> QED
    BY <1>1, <1>5, <2>1, <2>2, <2>3, Distance DEF point_compare, after_equal, Bag!Before
<1>6. ASSUME NEW i \in m .. n PROVE ~Bag!Before(list[i], p)
  <2>1. m \in 1 .. n /\ i \in 1 .. n
    BY <1>1, <1>2, <1>3
  <2>2. ~Bag!Before(list[i], list[m])
    BY <1>1, <2>1, Order DEF PointsInv, Ascending
  <2> QED
    BY <1>1, <1>5, <2>1, <2>2, OrderTransitive
<1> QED
  BY <1>2, <1>3, <1>4, <1>6 DEF m
LEMMA Joined ==
  ASSUME NEW V, NEW a \in Seq(V), NEW b \in Seq(V)
  PROVE  /\ a \o b \in Seq(V) /\ Len(a \o b) = Len(a) + Len(b)
         /\ \A i \in 1 .. Len(a) + Len(b) :
              (a \o b)[i] = IF i <= Len(a) THEN a[i] ELSE b[i - Len(a)]
OBVIOUS

LEMMA Inserted ==
  ASSUME NEW V, NEW s \in Seq(V), NEW m \in 1 .. Len(s) + 1, NEW p \in V
  PROVE  /\ InsertAt(s, m, p) \in Seq(V) /\ Len(InsertAt(s, m, p)) = Len(s) + 1
         /\ \A i \in 1 .. Len(s) + 1 :
              InsertAt(s, m, p)[i] = IF i < m THEN s[i] ELSE IF i = m THEN p ELSE s[i - 1]
<1> DEFINE a == SubSeq(s, 1, m - 1)
           b == SubSeq(s, m, Len(s))
<1>1. a \in Seq(V) /\ Len(a) = m - 1 /\ \A i \in 1 .. m - 1 : a[i] = s[i]
  OBVIOUS
<1>2. /\ b \in Seq(V) /\ Len(b) = Len(s) - m + 1
      /\ \A i \in 1 .. Len(s) - m + 1 : b[i] = s[i + m - 1]
  OBVIOUS
<1> HIDE DEF a, b
<1> DEFINE c == a \o <<p>>
<1>3. /\ c \in Seq(V) /\ Len(c) = m
      /\ \A i \in 1 .. m : c[i] = IF i < m THEN s[i] ELSE p
  BY <1>1
<1>4. InsertAt(s, m, p) = c \o b
  BY DEF InsertAt, a, b
<1> HIDE DEF c
<1>5. /\ c \o b \in Seq(V) /\ Len(c \o b) = Len(s) + 1
      /\ \A i \in 1 .. Len(s) + 1 :
           (c \o b)[i] = IF i <= m THEN c[i] ELSE b[i - m]
  BY <1>2, <1>3, Joined
<1>6. \A i \in 1 .. Len(s) + 1 : i > m => b[i - m] = s[i - 1]
  BY <1>2
<1> QED
  BY <1>3, <1>4, <1>5, <1>6

LEMMA Removed ==
  ASSUME NEW V, NEW s \in Seq(V), NEW m \in 1 .. Len(s)
  PROVE  /\ RemoveAt(s, m) \in Seq(V) /\ Len(RemoveAt(s, m)) = Len(s) - 1
         /\ \A i \in 1 .. Len(s) - 1 :
              RemoveAt(s, m)[i] = IF i < m THEN s[i] ELSE s[i + 1]
<1> DEFINE a == SubSeq(s, 1, m - 1)
           b == SubSeq(s, m + 1, Len(s))
<1>1. a \in Seq(V) /\ Len(a) = m - 1 /\ \A i \in 1 .. m - 1 : a[i] = s[i]
  OBVIOUS
<1>2. /\ b \in Seq(V) /\ Len(b) = Len(s) - m
      /\ \A i \in 1 .. Len(s) - m : b[i] = s[i + m]
  OBVIOUS
<1> HIDE DEF a, b
<1>3. RemoveAt(s, m) = a \o b
  BY DEF RemoveAt, a, b
<1>4. /\ a \o b \in Seq(V) /\ Len(a \o b) = Len(s) - 1
      /\ \A i \in 1 .. Len(s) - 1 :
           (a \o b)[i] = IF i <= m - 1 THEN a[i] ELSE b[i - (m - 1)]
  BY <1>1, <1>2, Joined
<1>5. \A i \in 1 .. Len(s) - 1 : i > m - 1 => b[i - (m - 1)] = s[i + 1]
  BY <1>2
<1> QED
  BY <1>1, <1>3, <1>4, <1>5

LEMMA AddSorted ==
  ASSUME PointsInv, NEW p \in Point
  PROVE  InsertAt(list, place(p), p) \in Seq(Point) /\ Ascending(InsertAt(list, place(p), p))
<1> DEFINE n == Len(list)
           m == place(p)
           new == InsertAt(list, m, p)
<1>1. /\ n \in Nat /\ m \in 1 .. n + 1
      /\ \A i \in 1 .. n : list[i] \in Point
      /\ \A i \in 1 .. n : \A j \in i + 1 .. n : ~Bag!Before(list[j], list[i])
  BY Place DEF PointsInv, Ascending
<1>2. /\ \A i \in 1 .. m - 1 : Bag!Before(list[i], p)
      /\ \A i \in m .. n : ~Bag!Before(list[i], p)
  BY Place
<1>3. /\ new \in Seq(Point) /\ Len(new) = n + 1
      /\ \A i \in 1 .. n + 1 :
           new[i] = IF i < m THEN list[i] ELSE IF i = m THEN p ELSE list[i - 1]
  <2>1. list \in Seq(Point)
    BY DEF PointsInv
  <2> HIDE DEF m
  <2> QED
    BY <1>1, <2>1, Inserted
<1> HIDE DEF m, new, n
<1>4. ASSUME NEW i \in 1 .. n + 1, NEW j \in i + 1 .. n + 1
      PROVE  ~Bag!Before(new[j], new[i])
  <2>1. CASE j < m
    BY <1>1, <1>3, <2>1
  <2>2. CASE j = m
    <3>1. i \in 1 .. m - 1 /\ new[i] = list[i] /\ new[j] = p /\ list[i] \in Point
      BY <1>1, <1>3, <2>2
    <3> QED
      BY <1>2, <3>1, Order
  <2>3. CASE j > m /\ i < m
    BY <1>1, <1>2, <1>3, <2>3, OrderTransitive, Order
  <2>4. CASE j > m /\ i = m
    BY <1>1, <1>2, <1>3, <2>4
  <2>5. CASE j > m /\ i > m
    <3>1. i - 1 \in 1 .. n /\ j - 1 \in (i - 1) + 1 .. n
      BY <1>1, <2>5
    <3> QED
      <4>1. new[i] = list[i - 1] /\ new[j] = list[j - 1]
        BY <1>1, <1>3, <2>5
      <4> QED
        BY <1>1, <3>1, <4>1
  <2> QED
    BY <1>1, <2>1, <2>2, <2>3, <2>4, <2>5
<1> QED
  BY <1>3, <1>4 DEF Ascending, new, m

LEMMA RemoveSorted ==
  ASSUME PointsInv, NEW i \in 1 .. Len(list)
  PROVE  RemoveAt(list, i) \in Seq(Point) /\ Ascending(RemoveAt(list, i))
<1>1. /\ RemoveAt(list, i) \in Seq(Point) /\ Len(RemoveAt(list, i)) = Len(list) - 1
      /\ \A j \in 1 .. Len(list) - 1 :
           RemoveAt(list, i)[j] = IF j < i THEN list[j] ELSE list[j + 1]
  BY Removed DEF PointsInv
<1> QED
  BY <1>1 DEF PointsInv, Ascending

(* Of the first k points one copy each is kept, in order; the last of them *)
(* is the k-th.                                                            *)
KeptOf(new, k) ==
  /\ Ascending(new)
  /\ \A j \in 1 .. Len(new) : \E i \in 1 .. k : new[j] = list[i]
  /\ \A i \in 1 .. k : \E j \in 1 .. Len(new) : new[j] = list[i]
  /\ \A i, j \in 1 .. Len(new) : new[i] = new[j] => i = j
  /\ k > 0 => new # <<>> /\ Last(new) = list[k]

LEMMA KeepStep ==
  ASSUME PointsInv, NEW k \in 1 .. Len(list), NEW old \in Seq(Point), KeptOf(old, k - 1)
  PROVE  KeptOf(keep(old, list[k]), k)
<1> DEFINE p == list[k]
<1>1. /\ Len(list) \in Nat /\ \A i \in 1 .. Len(list) : list[i] \in Point
      /\ \A i \in 1 .. Len(list) : \A j \in i + 1 .. Len(list) :
           ~Bag!Before(list[j], list[i])
  BY DEF PointsInv, Ascending
<1>2. CASE old # <<>> /\ p = Last(old)
  <2>1. keep(old, p) = old
    BY <1>2 DEF keep, duplicate
  <2>2. Len(old) \in 1 .. Len(old) /\ p = old[Len(old)]
    BY <1>2 DEF Last
  <2> HIDE DEF p
  <2>3. \A j \in 1 .. Len(old) : \E i \in 1 .. k : old[j] = list[i]
    BY <1>1 DEF KeptOf
  <2>4. \A i \in 1 .. k : \E j \in 1 .. Len(old) : old[j] = list[i]
    BY <1>1, <2>2 DEF KeptOf, p
  <2> QED
    BY <1>2, <2>1, <2>3, <2>4 DEF KeptOf, p
<1>3. CASE ~(old # <<>> /\ p = Last(old))
  <2> DEFINE new == Append(old, p)
  <2>1. keep(old, p) = new
    BY <1>3 DEF keep, duplicate
  <2>2. /\ Len(new) = Len(old) + 1 /\ new[Len(old) + 1] = p /\ Len(old) \in Nat
        /\ \A i \in 1 .. Len(old) : new[i] = old[i]
    OBVIOUS
  <2>3. ASSUME NEW j \in 1 .. Len(old)
        PROVE  old[j] # p /\ ~Bag!Before(p, old[j])
    <3>1. PICK i \in 1 .. k - 1 : old[j] = list[i]
      BY DEF KeptOf
    <3>2. ~Bag!Before(p, list[i])
      BY <1>1
    <3>3. list[i] # p
      <4>1. k - 1 > 0 /\ k - 1 \in 1 .. Len(list)
        BY <1>1
      <4>2. list[k - 1] # p
        BY <1>3, <4>1 DEF KeptOf
      <4>3. CASE i < k - 1
        <5>1. ~Bag!Before(list[k - 1], list[i]) /\ ~Bag!Before(p, list[k - 1])
          BY <1>1, <4>1, <4>3
        <5> QED
          BY <1>1, <4>1, <4>2, <5>1, Order
      <4> QED
        BY <4>2, <4>3
    <3> QED
      BY <3>1, <3>2, <3>3
  <2> HIDE DEF p, new
  <2>a. /\ \A i \in 1 .. Len(old) : \A j \in i + 1 .. Len(old) :
             ~Bag!Before(old[j], old[i])
        /\ \A j \in 1 .. Len(old) : \E i \in 1 .. k - 1 : old[j] = list[i]
        /\ \A i, j \in 1 .. Len(old) : old[i] = old[j] => i = j
    BY DEF KeptOf, Ascending
  <2>4. Ascending(new)
    <3>1. ASSUME NEW i \in 1 .. Len(old) + 1, NEW j \in i + 1 .. Len(old) + 1
          PROVE  ~Bag!Before(new[j], new[i])
      <4>1. i \in 1 .. Len(old) /\ new[i] = old[i]
        BY <2>2
      <4>2. CASE j \in 1 .. Len(old)
        BY <2>2, <2>a, <4>1, <4>2
      <4>3. CASE j = Len(old) + 1
        BY <2>2, <2>3, <4>1, <4>3
      <4> QED
        BY <2>2, <4>2, <4>3
    <3> QED
      BY <2>2, <3>1 DEF Ascending
  <2>5. \A j \in 1 .. Len(new) : \E i \in 1 .. k : new[j] = list[i]
    <3> SUFFICES ASSUME NEW j \in 1 .. Len(new) PROVE \E i \in 1 .. k : new[j] = list[i]
      OBVIOUS
    <3>1. CASE j \in 1 .. Len(old)
      <4>1. PICK i \in 1 .. k - 1 : old[j] = list[i]
        BY <2>a, <3>1
      <4>2. i \in 1 .. k
        OBVIOUS
      <4> QED
        BY <2>2, <3>1, <4>1, <4>2
    <3>2. CASE j = Len(old) + 1
      BY <2>2, <3>2 DEF p
    <3> QED
      BY <2>2, <3>1, <3>2
  <2>6. \A i \in 1 .. k : \E j \in 1 .. Len(new) : new[j] = list[i]
    <3> SUFFICES ASSUME NEW i \in 1 .. k PROVE \E j \in 1 .. Len(new) : new[j] = list[i]
      OBVIOUS
    <3>1. CASE i \in 1 .. k - 1
      <4>1. PICK j \in 1 .. Len(old) : old[j] = list[i]
        BY <3>1 DEF KeptOf
      <4> QED
        BY <2>2, <4>1
    <3>2. CASE i = k
      BY <2>2, <3>2 DEF p
    <3> QED
      BY <3>1, <3>2
  <2>7. \A i, j \in 1 .. Len(new) : new[i] = new[j] => i = j
    <3>1. ASSUME NEW i \in 1 .. Len(old) + 1, NEW j \in 1 .. Len(old) + 1,
                 i < j, new[i] = new[j]
          PROVE  FALSE
      <4>1. i \in 1 .. Len(old) /\ new[i] = old[i] /\ new[j] = new[i]
        BY <2>2, <3>1
      <4>2. CASE j \in 1 .. Len(old)
        <5>1. i # j
          BY <3>1
        <5>2. new[j] = old[j]
          BY <2>2, <4>2
        <5>3. old[i] = old[j]
          BY <4>1, <5>2
        <5> QED
          BY <2>a, <4>1, <4>2, <5>1, <5>3
      <4>3. CASE j = Len(old) + 1
        BY <2>2, <2>3, <3>1, <4>1, <4>3
      <4> QED
        BY <2>2, <4>2, <4>3
    <3> QED
      BY <2>2, <3>1
  <2>8. new # <<>> /\ Last(new) = list[k]
    BY <2>2 DEF Last, p, new
  <2> QED
    BY <2>1, <2>4, <2>5, <2>6, <2>7, <2>8 DEF KeptOf, p
<1> QED
  BY <1>2, <1>3

LEMMA AllKept ==
  ASSUME PointsInv
  PROVE  /\ FoldLeft(keep, <<>>, list) \in Seq(Point)
         /\ KeptOf(FoldLeft(keep, <<>>, list), Len(list))
<1> DEFINE n == Len(list)
<1>1. n \in Nat /\ list \in [1 .. n -> Point]
  BY DEF PointsInv
<1>2. PICK kept \in [0 .. n -> Seq(Point)] :
        /\ kept[0] = <<>> /\ FoldLeft(keep, <<>>, list) = kept[n]
        /\ \A k \in 1 .. n : kept[k] = keep(kept[k - 1], list[k])
  BY <1>1, KeepFold
<1> DEFINE S == {k \in 0 .. n : KeptOf(kept[k], k)}
<1>3. 0 \in S
  BY <1>1, <1>2 DEF Ascending, KeptOf
<1>4. ASSUME NEW k \in 1 .. n, k - 1 \in S PROVE k \in S
  <2>1. kept[k - 1] \in Seq(Point) /\ KeptOf(kept[k - 1], k - 1)
    BY <1>1, <1>2, <1>4
  <2>2. KeptOf(keep(kept[k - 1], list[k]), k)
    BY <2>1, KeepStep
  <2> QED
    BY <1>1, <1>2, <2>2
<1>5. n \in S
  <2> HIDE DEF S
  <2>1. \A k \in 0 .. n : k \in S
    BY <1>1, <1>3, <1>4, Induction
  <2> QED
    BY <1>1, <2>1
<1> QED
  BY <1>1, <1>2, <1>5

LEMMA PointsInit == Init => PointsInv
BY DEF Init, PointsInv, Ascending

LEMMA PointsStep == ASSUME PointsInv, [Next]_vars PROVE PointsInv'
<1>1. CASE sp_add_point
  BY <1>1, AddSorted DEF sp_add_point, PointsInv, Ascending
<1>2. ASSUME NEW i \in 1 .. Len(list), Unlink(i) PROVE PointsInv'
  BY <1>2, RemoveSorted DEF Unlink, PointsInv, Ascending
<1>3. CASE sp_delete_duplicates
  BY <1>3, AllKept DEF sp_delete_duplicates, PointsInv, Ascending, KeptOf
<1>4. CASE sp_destroy
  BY <1>4 DEF sp_destroy, PointsInv, Ascending
<1>5. CASE AddFault \/ DeleteFault \/ Ended \/ UNCHANGED vars
  BY <1>5 DEF AddFault, DeleteFault, Fault, Ended, vars, PointsInv, Ascending
<1>6. CASE sp_remove_first \/ sp_remove_last \/ sp_remove_by_index
  <2>1. \E i \in 1 .. Len(list) : Unlink(i)
    BY <1>6 DEF sp_remove_first, sp_remove_last, sp_remove_by_index, PointsInv
  <2> QED
    BY <1>2, <2>1
<1> QED
  BY <1>1, <1>3, <1>4, <1>5, <1>6 DEF Next

(* Whatever is added, removed or thinned out, the list stays in the order  *)
(* of sorted_points.h; for any coordinates and lists of any length.        *)
THEOREM SortedHolds == Spec => []Sorted
<1>1. PointsInv /\ [Next]_vars => PointsInv'
  BY PointsStep
<1>2. PointsInv => Sorted
  BY DEF PointsInv, Ascending, Sorted
<1> QED
  BY <1>1, <1>2, PointsInit, PTL DEF Spec
-----------------------------------------------------------------------------
(* The bag of the list: how often each point occurs in it.                 *)
Places(s, Q) == {i \in 1 .. Len(s) : s[i] \in Q}
Bagged(s) == [p \in Point |-> Cardinality(Places(s, {p}))]
count == [p \in Point |-> Cardinality({i \in 1 .. Len(list) : list[i] = p})]

LEMMA BagOfList ==
  /\ count = Bagged(list) /\ count' = Bagged(list')
  /\ Bag!Points = Point
BY DEF count, Bagged, Places, Bag!Points, Point

LEMMA PlacesFinite ==
  ASSUME NEW s \in Seq(Point), NEW Q
  PROVE  /\ IsFiniteSet(Places(s, Q)) /\ Cardinality(Places(s, Q)) \in Nat
         /\ Places(s, Q) \in SUBSET (1 .. Len(s))
<1>1. IsFiniteSet(1 .. Len(s)) /\ Places(s, Q) \in SUBSET (1 .. Len(s))
  BY FS_Interval DEF Places
<1>2. IsFiniteSet(Places(s, Q))
  BY <1>1, FS_Subset
<1> QED
  BY <1>1, <1>2, FS_CardinalityType

(* A point that is put in.                                                 *)
LEMMA BagInserted ==
  ASSUME NEW s \in Seq(Point), NEW m \in 1 .. Len(s) + 1, NEW p \in Point
  PROVE  Bagged(InsertAt(s, m, p)) = [Bagged(s) EXCEPT ![p] = @ + 1]
<1> DEFINE t == InsertAt(s, m, p)
<1>1. /\ t \in Seq(Point) /\ Len(t) = Len(s) + 1 /\ Len(s) \in Nat
      /\ \A i \in 1 .. Len(s) + 1 :
           t[i] = IF i < m THEN s[i] ELSE IF i = m THEN p ELSE s[i - 1]
  BY Inserted
<1> HIDE DEF t
<1>2. ASSUME NEW q \in Point
      PROVE  Cardinality(Places(t, {q}))
             = Cardinality(Places(s, {q})) + (IF q = p THEN 1 ELSE 0)
  <2> DEFINE S == Places(s, {q})
             T == Places(t, {q}) \ {m}
             f == [i \in S |-> IF i < m THEN i ELSE i + 1]
  <2>1. f \in [S -> T]
    BY <1>1 DEF Places
  <2>2. \A i, j \in S : f[i] = f[j] => i = j
    BY <1>1 DEF Places
  <2>3. \A j \in T : \E i \in S : f[i] = j
    <3> SUFFICES ASSUME NEW j \in T PROVE \E i \in S : f[i] = j
      OBVIOUS
    <3>1. CASE j < m
      BY <1>1, <3>1 DEF Places
    <3>2. CASE j > m
      <4>1. j - 1 \in S /\ ~(j - 1 < m)
        BY <1>1, <3>2 DEF Places
      <4> QED
        BY <1>1, <4>1 DEF Places
    <3> QED
      BY <1>1, <3>1, <3>2 DEF Places
  <2>4. f \in Bijection(S, T)
    <3> HIDE DEF f, S, T
    <3> QED
      BY <2>1, <2>2, <2>3, Fun_IsBij
  <2>5. IsFiniteSet(T) /\ Cardinality(T) = Cardinality(S)
    <3>1. IsFiniteSet(S)
      BY PlacesFinite
    <3>2. ExistsBijection(S, T)
      BY <2>4 DEF ExistsBijection
    <3> HIDE DEF S, T
    <3> QED
      BY <3>1, <3>2, FS_Bijection
  <2>6. Places(t, {q}) = IF q = p THEN T \cup {m} ELSE T
    BY <1>1 DEF Places
  <2>7. Cardinality(T \cup {m}) = Cardinality(T) + 1
    <3>1. m \notin T
      OBVIOUS
    <3> HIDE DEF T
    <3> QED
      BY <2>5, <3>1, FS_AddElement
  <2>8. Cardinality(S) \in Nat
    BY PlacesFinite
  <2> HIDE DEF S, T
  <2> QED
    BY <2>5, <2>6, <2>7, <2>8 DEF S
<1>3. /\ \A q \in Point : Bagged(t)[q] = Bagged(s)[q] + (IF q = p THEN 1 ELSE 0)
      /\ \A q \in Point : Bagged(s)[q] \in Nat
  BY <1>2, PlacesFinite DEF Bagged
<1>4. DOMAIN Bagged(t) = Point /\ DOMAIN Bagged(s) = Point
  BY DEF Bagged
<1>5. Bagged(t) = [q \in Point |-> Bagged(t)[q]] /\ Bagged(s) = [q \in Point |-> Bagged(s)[q]]
  BY DEF Bagged
<1> QED
  BY <1>3, <1>4, <1>5 DEF t
(* Counting the copies of some points, as PointBag does, counts the places *)
(* where they are: by induction on the first m places.                     *)
Copies(c, Q) == UNION {{q} \X (1 .. c[q]) : q \in Q}

LEMMA CopiesArePlaces ==
  ASSUME NEW s \in Seq(Point), NEW Q \in SUBSET Point
  PROVE  /\ IsFiniteSet(Copies(Bagged(s), Q))
         /\ Cardinality(Copies(Bagged(s), Q)) = Cardinality(Places(s, Q))
<1> DEFINE n == Len(s)
           In(m, R) == {i \in 1 .. m : s[i] \in R}
           c(m) == [q \in Point |-> Cardinality(In(m, {q}))]
           S == {m \in 0 .. n :
                   /\ IsFiniteSet(Copies(c(m), Q))
                   /\ Cardinality(Copies(c(m), Q)) = Cardinality(In(m, Q))}
<1>1. n \in Nat /\ \A i \in 1 .. n : s[i] \in Point
  OBVIOUS
<1>2. ASSUME NEW m \in 0 .. n, NEW R
      PROVE  IsFiniteSet(In(m, R)) /\ Cardinality(In(m, R)) \in Nat
  <2>1. IsFiniteSet(1 .. m) /\ In(m, R) \in SUBSET (1 .. m)
    BY <1>1, FS_Interval
  <2>2. IsFiniteSet(In(m, R))
    <3> HIDE DEF In
    <3> QED
      BY <2>1, FS_Subset
  <2> QED
    BY <2>2, FS_CardinalityType
<1>3. ASSUME NEW m \in 1 .. n, NEW R
      PROVE  Cardinality(In(m, R))
             = Cardinality(In(m - 1, R)) + (IF s[m] \in R THEN 1 ELSE 0)
  <2>1. /\ In(m, R) = IF s[m] \in R THEN In(m - 1, R) \cup {m} ELSE In(m - 1, R)
        /\ m \notin In(m - 1, R) /\ m - 1 \in 0 .. n
    BY <1>1
  <2>2. IsFiniteSet(In(m - 1, R)) /\ Cardinality(In(m - 1, R)) \in Nat
    BY <1>2, <2>1
  <2> HIDE DEF In
  <2>3. Cardinality(In(m - 1, R) \cup {m}) = Cardinality(In(m - 1, R)) + 1
    BY <2>1, <2>2, FS_AddElement
  <2> QED
    BY <2>1, <2>2, <2>3
<1>b. ASSUME NEW m \in 1 .. n, NEW q \in Point
      PROVE  /\ c(m - 1)[q] \in Nat
             /\ c(m)[q] = c(m - 1)[q] + (IF q = s[m] THEN 1 ELSE 0)
  <2>1. c(m)[q] = Cardinality(In(m, {q})) /\ c(m - 1)[q] = Cardinality(In(m - 1, {q}))
    OBVIOUS
  <2>2. m - 1 \in 0 .. n /\ (s[m] \in {q} <=> q = s[m])
    BY <1>1
  <2> HIDE DEF In, c
  <2>3. Cardinality(In(m, {q}))
        = Cardinality(In(m - 1, {q})) + (IF s[m] \in {q} THEN 1 ELSE 0)
    BY <1>3
  <2>4. Cardinality(In(m - 1, {q})) \in Nat
    BY <1>2, <2>2
  <2> QED
    BY <2>1, <2>2, <2>3, <2>4
<1>4. 0 \in S
  <2>1. \A R : In(0, R) = {}
    BY <1>1
  <2>2. \A q \in Point : c(0)[q] = 0
    BY <2>1, FS_EmptySet
  <2>3. Copies(c(0), Q) = {}
    BY <2>2 DEF Copies
  <2>4. In(0, Q) = {} /\ 0 \in 0 .. n
    BY <1>1, <2>1
  <2>5. /\ IsFiniteSet(Copies(c(0), Q))
        /\ Cardinality(Copies(c(0), Q)) = Cardinality(In(0, Q))
    BY <2>3, <2>4, FS_EmptySet
  <2> HIDE DEF c, In
  <2> QED
    BY <2>4, <2>5
<1>5. ASSUME NEW m \in 1 .. n, m - 1 \in S PROVE m \in S
  <2> DEFINE p == s[m]
             k == c(m - 1)[p] + 1
             old == Copies(c(m - 1), Q)
             new == Copies(c(m), Q)
  <2>1. m - 1 \in 0 .. n /\ p \in Point
    BY <1>1
  <2>2. /\ k \in Nat \ {0}
        /\ \A q \in Point : /\ c(m)[q] = IF q = p THEN k ELSE c(m - 1)[q]
                            /\ c(m - 1)[p] = k - 1
    <3> HIDE DEF c
    <3> QED
      BY <1>b, <2>1
  <2>3. \A q \in Point : c(m - 1)[q] \in Nat
    BY <1>b
  <2> HIDE DEF In, c, k
  <2>4. new = IF p \in Q THEN old \cup {<<p, k>>} ELSE old
    BY <2>1, <2>2, <2>3 DEF Copies
  <2>5. <<p, k>> \notin old
    BY <2>1, <2>2 DEF Copies
  <2>6. IsFiniteSet(old) /\ Cardinality(old) = Cardinality(In(m - 1, Q))
    BY <1>5
  <2> HIDE DEF old, new
  <2>7. /\ IsFiniteSet(old \cup {<<p, k>>})
        /\ Cardinality(old \cup {<<p, k>>}) = Cardinality(old) + 1
    BY <2>5, <2>6, FS_AddElement
  <2>8. /\ Cardinality(In(m, Q))
           = Cardinality(In(m - 1, Q)) + (IF p \in Q THEN 1 ELSE 0)
        /\ Cardinality(In(m - 1, Q)) \in Nat
    BY <1>2, <1>3, <2>1
  <2>9. IsFiniteSet(new) /\ Cardinality(new) = Cardinality(In(m, Q))
    BY <2>4, <2>6, <2>7, <2>8
  <2> QED
    BY <1>1, <2>9 DEF new
<1>6. n \in S
  <2> HIDE DEF S
  <2>1. \A m \in 0 .. n : m \in S
    BY <1>1, <1>4, <1>5, Induction
  <2> QED
    BY <1>1, <2>1
<1>7. In(n, Q) = Places(s, Q) /\ c(n) = Bagged(s)
  BY DEF Places, Bagged
<1> HIDE DEF In, c
<1> QED
  BY <1>6, <1>7
LEMMA SameCardinality == \A S : Bag!Cardinality(S) = Cardinality(S)
BY DEF Bag!Cardinality, Cardinality, Bag!IsFiniteSet, IsFiniteSet

(* Taking out the point at i: of the points in order, i - 1 come first.    *)
LEMMA TakeKeeps ==
  ASSUME PointsInv, NEW i \in 1 .. Len(list), Unlink(i)
  PROVE  \E index \in 0 .. Bag!Size - 1 : Bag!Take(index)
<1> DEFINE n == Len(list)
           p == list[i]
           B == {r \in Point : Bag!Before(r, p)}
           c == Bagged(list)
<1>b. B \in SUBSET Point
  OBVIOUS
<1>1. /\ n \in Nat /\ list \in Seq(Point) /\ p \in Point /\ i \in 1 .. n
      /\ \A k \in 1 .. n : list[k] \in Point
      /\ \A k \in 1 .. n : \A j \in k + 1 .. n : ~Bag!Before(list[j], list[k])
  BY DEF PointsInv, Ascending
<1>2. Bag!Size = n
  <2>1. Places(list, Point) = 1 .. n
    BY <1>1 DEF Places
  <2>2. Cardinality(1 .. n) = n
    BY <1>1, FS_Interval
  <2>3. Bag!Size = Cardinality(Copies(count, Bag!Points))
    BY SameCardinality DEF Bag!Size, Copies, count
  <2> QED
    BY <1>1, <2>1, <2>2, <2>3, CopiesArePlaces, BagOfList
<1>3. Bag!Earlier(p) = Cardinality(Places(list, B))
  <2>1. Bag!Earlier(p) = Cardinality(Copies(count, {r \in Bag!Points : Bag!Before(r, p)}))
    BY SameCardinality DEF Bag!Earlier, Copies, count
  <2>2. {r \in Bag!Points : Bag!Before(r, p)} = B
    BY BagOfList
  <2> HIDE DEF p, B
  <2> QED
    BY <1>1, <1>b, <2>1, <2>2, CopiesArePlaces, BagOfList
<1>4. c[p] = Cardinality(Places(list, {p}))
  BY <1>1 DEF Bagged
<1> HIDE DEF p, B, c
<1>5. /\ IsFiniteSet(Places(list, B)) /\ Cardinality(Places(list, B)) \in Nat
      /\ IsFiniteSet(Places(list, {p})) /\ Cardinality(Places(list, {p})) \in Nat
  BY <1>1, PlacesFinite
<1>6. Bag!Earlier(p) <= i - 1
  <2>1. Places(list, B) \in SUBSET (1 .. i - 1)
    <3> SUFFICES ASSUME NEW k \in 1 .. n, Bag!Before(list[k], p) PROVE k \in 1 .. i - 1
      BY DEF Places, B
    <3> QED
      BY <1>1, Order DEF p
  <2>2. IsFiniteSet(1 .. i - 1) /\ Cardinality(1 .. i - 1) = i - 1
    <3>1. i - 1 \in Nat
      BY <1>1
    <3>2. \A k \in Nat : IsFiniteSet(1 .. k) /\ Cardinality(1 .. k) = k
      BY FS_Interval
    <3> QED
      BY <3>1, <3>2
  <2>3. Cardinality(Places(list, B)) <= i - 1
    BY <2>1, <2>2, FS_Subset
  <2> QED
    BY <1>3, <2>3
<1>7. i - 1 < Bag!Earlier(p) + c[p]
  <2> DEFINE U == Places(list, B) \cup Places(list, {p})
  <2>1. 1 .. i \in SUBSET U
    <3> SUFFICES ASSUME NEW k \in 1 .. i PROVE list[k] \in B \/ list[k] = p
      BY <1>1 DEF Places
    <3>1. k \in 1 .. n /\ list[k] \in Point /\ (k = i \/ i \in k + 1 .. n)
      BY <1>1
    <3> QED
      BY <1>1, <3>1, Order DEF p, B
  <2>2. Places(list, B) \cap Places(list, {p}) = {}
    BY <1>1, Order DEF Places, B
  <2>3. /\ IsFiniteSet(U)
        /\ Cardinality(U)
           = Cardinality(Places(list, B)) + Cardinality(Places(list, {p}))
    <3>1. Cardinality(Places(list, B) \cap Places(list, {p})) = 0
      BY <2>2, FS_EmptySet
    <3>2. /\ IsFiniteSet(U)
          /\ Cardinality(U)
             = Cardinality(Places(list, B)) + Cardinality(Places(list, {p}))
               - Cardinality(Places(list, B) \cap Places(list, {p}))
      BY <1>5, FS_Union
    <3> HIDE DEF U
    <3> QED
      BY <1>5, <3>1, <3>2
  <2>4. Cardinality(1 .. i) = i
    BY <1>1, FS_Interval
  <2> HIDE DEF U
  <2>5. i <= Cardinality(U)
    BY <2>1, <2>3, <2>4, FS_Subset
  <2> QED
    BY <1>1, <1>3, <1>4, <1>5, <2>3, <2>5
<1>8. count' = [count EXCEPT ![p] = @ - 1]
  <2> DEFINE t == RemoveAt(list, i)
  <2>1. /\ t \in Seq(Point) /\ Len(t) = n - 1
        /\ \A j \in 1 .. n - 1 : t[j] = IF j < i THEN list[j] ELSE list[j + 1]
    BY <1>1, Removed
  <2> HIDE DEF t
  <2>2. /\ InsertAt(t, i, p) \in Seq(Point) /\ Len(InsertAt(t, i, p)) = n
        /\ \A j \in 1 .. n : InsertAt(t, i, p)[j]
                             = IF j < i THEN t[j] ELSE IF j = i THEN p ELSE t[j - 1]
    BY <1>1, <2>1, Inserted
  <2>3. \A j \in 1 .. n : InsertAt(t, i, p)[j] = list[j]
    <3> SUFFICES ASSUME NEW j \in 1 .. n PROVE InsertAt(t, i, p)[j] = list[j]
      OBVIOUS
    <3>1. CASE j < i
      BY <1>1, <2>1, <2>2, <3>1
    <3>2. CASE j = i
      BY <1>1, <2>2, <3>2 DEF p
    <3>3. CASE j > i
      <4>1. InsertAt(t, i, p)[j] = t[j - 1] /\ j - 1 \in 1 .. n - 1 /\ ~(j - 1 < i)
        BY <1>1, <2>2, <3>3
      <4> QED
        BY <2>1, <4>1
    <3> QED
      BY <1>1, <3>1, <3>2, <3>3
  <2>4. InsertAt(t, i, p) = list
    BY <1>1, <2>2, <2>3
  <2>5. c = [Bagged(t) EXCEPT ![p] = @ + 1]
    BY <1>1, <2>1, <2>4, BagInserted DEF c
  <2>6. \A q \in Point : Bagged(t)[q] \in Nat
    BY <2>1, PlacesFinite DEF Bagged
  <2>7. Bagged(t) = [c EXCEPT ![p] = @ - 1]
    <3>1. Bagged(t) = [q \in Point |-> Bagged(t)[q]]
      BY DEF Bagged
    <3> QED
      BY <1>1, <2>5, <2>6, <3>1
  <2>8. list' = t
    BY DEF Unlink, t
  <2> QED
    BY <2>7, <2>8, BagOfList DEF c
<1>9. ret' = <<i - 1, p>> /\ i - 1 \in 0 .. Bag!Size - 1
  BY <1>1, <1>2 DEF Unlink, p
<1>10. c = count /\ p \in Bag!Points
  BY <1>1, BagOfList DEF c
<1>11. Bag!Take(i - 1)
  BY <1>6, <1>7, <1>8, <1>9, <1>10 DEF Bag!Take, count
<1> QED
  BY <1>9, <1>11
(* sp_delete_duplicates leaves one copy of each point.                     *)
LEMMA DedupKeeps ==
  ASSUME PointsInv, sp_delete_duplicates
  PROVE  count' = [p \in Point |-> IF count[p] > 1 THEN 1 ELSE count[p]]
<1> DEFINE n == Len(list)
<1>1. /\ list' \in Seq(Point) /\ list \in Seq(Point) /\ n \in Nat
      /\ \A j \in 1 .. Len(list') : \E i \in 1 .. n : list'[j] = list[i]
      /\ \A i \in 1 .. n : \E j \in 1 .. Len(list') : list'[j] = list[i]
      /\ \A i, j \in 1 .. Len(list') : list'[i] = list'[j] => i = j
  BY AllKept DEF sp_delete_duplicates, PointsInv, KeptOf
<1>2. ASSUME NEW q \in Point
      PROVE  Bagged(list')[q] = IF Bagged(list)[q] > 1 THEN 1 ELSE Bagged(list)[q]
  <2> DEFINE S == Places(list, {q})
             T == Places(list', {q})
  <2>1. Bagged(list)[q] = Cardinality(S) /\ Bagged(list')[q] = Cardinality(T)
    BY DEF Bagged
  <2>2. IsFiniteSet(S) /\ Cardinality(S) \in Nat
    BY <1>1, PlacesFinite
  <2>3. CASE S = {}
    <3>1. T = {}
      BY <1>1, <2>3 DEF Places
    <3> QED
      BY <2>1, <2>3, <3>1, FS_EmptySet
  <2>4. CASE S # {}
    <3>1. PICK i \in 1 .. n : list[i] = q
      BY <2>4 DEF Places
    <3>2. PICK j \in 1 .. Len(list') : list'[j] = q
      BY <1>1, <3>1
    <3>3. T = {j}
      BY <1>1, <3>2 DEF Places
    <3>4. Cardinality(T) = 1
      BY <3>3, FS_Singleton
    <3>5. Cardinality(S) # 0
      BY <2>2, <2>4, FS_EmptySet
    <3> HIDE DEF S, T
    <3> QED
      BY <2>1, <2>2, <3>4, <3>5
  <2> QED
    BY <2>3, <2>4
<1>3. Bagged(list') = [p \in Point |-> Bagged(list')[p]]
  BY DEF Bagged
<1>4. Bagged(list')
      = [p \in Point |-> IF Bagged(list)[p] > 1 THEN 1 ELSE Bagged(list)[p]]
  BY <1>2, <1>3
<1> QED
  BY <1>4, BagOfList

LEMMA NoneBagged == Bagged(<<>>) = [p \in Point |-> 0]
<1>1. \A p \in Point : Places(<<>>, {p}) = {}
  BY DEF Places
<1> QED
  BY <1>1, FS_EmptySet DEF Bagged

LEMMA BagStep == ASSUME PointsInv, [Next]_vars PROVE [Bag!Next]_(Bag!vars)
<1>1. CASE sp_add_point
  <2>1. PICK p \in Point : list' = InsertAt(list, place(p), p) /\ UNCHANGED ret
    BY <1>1 DEF sp_add_point
  <2>2. count' = [count EXCEPT ![p] = @ + 1]
    BY <2>1, Place, BagInserted, BagOfList DEF PointsInv
  <2>3. Bag!Add(p)
    BY <2>1, <2>2 DEF Bag!Add, count
  <2> QED
    BY <2>3, BagOfList DEF Bag!Next
<1>2. ASSUME NEW i \in 1 .. Len(list), Unlink(i) PROVE Bag!Next
  BY <1>2, TakeKeeps DEF Bag!Next
<1>3. CASE sp_delete_duplicates
  <2>1. Bag!Dedup
    BY <1>3, DedupKeeps, BagOfList DEF sp_delete_duplicates, Bag!Dedup, count
  <2> QED
    BY <2>1 DEF Bag!Next
<1>4. CASE sp_destroy
  <2>1. Bag!Clear
    BY <1>4, NoneBagged, BagOfList DEF sp_destroy, Bag!Clear, count
  <2> QED
    BY <2>1 DEF Bag!Next
<1>5. CASE AddFault \/ DeleteFault \/ Ended \/ UNCHANGED vars
  BY <1>5 DEF AddFault, DeleteFault, Fault, Ended, vars, Bag!vars
<1>6. CASE sp_remove_first \/ sp_remove_last \/ sp_remove_by_index
  <2>1. \E i \in 1 .. Len(list) : Unlink(i)
    BY <1>6 DEF sp_remove_first, sp_remove_last, sp_remove_by_index, PointsInv
  <2> QED
    BY <1>2, <2>1
<1> QED
  BY <1>1, <1>3, <1>4, <1>5, <1>6 DEF Next

(* The sorted list implements the bag: every removal hands out the point   *)
(* that the order and the index say, for lists of any length.              *)
THEOREM PointsImplementBag == Spec => ImplementsBag
<1>1. PointsInv /\ [Next]_vars => PointsInv' /\ [Bag!Next]_(Bag!vars)
  BY PointsStep, BagStep
<1>2. Init => Bag!Init
  BY NoneBagged, BagOfList DEF Init, Bag!Init, count
<1> QED
  BY <1>1, <1>2, PointsInit, PTL DEF Spec, ImplementsBag, Bag!Spec
=============================================================================
