-------------------------- MODULE AlertTesterProof --------------------------
(***************************************************************************)
(* Proofs about the alert tester of lib/web: AlertReplay, with the         *)
(* QueryCache it asks, for every set of series, every range, interval,     *)
(* hold duration and limit; and Lttb, for every chart and target.          *)
(*                                                                         *)
(* ReplayInv is inductive up to the answer of a first lookup, which        *)
(* follows from the rest: where the two passes and the searches are, the   *)
(* episodes of the alerts in the first pass, and, of each episode, what    *)
(* the second pass has made and shown so far.  That the end shows all of   *)
(* them is its last state.                                                 *)
(*                                                                         *)
(* TurnsInv is inductive for the chart: the buckets are in turn, and of    *)
(* those that are done the lone peak was taken.                            *)
(***************************************************************************)
EXTENDS AlertReplay, Lttb, FiniteSetTheorems, WellFoundedInduction, TLAPS

(* Numbers and sums.                                                       *)

(* A set of natural numbers that is not empty has a least one.             *)
LEMMA LeastNat ==
    ASSUME NEW T, T \subseteq Nat, T # {}
    PROVE  \E m \in T : \A k \in T : m <= k
<1>1. IsWellFoundedOn(OpToRel(<, Nat), Nat)
  BY NatLessThanWellFounded
<1>2. PICK m \in T : \A k \in T : ~(<<k, m>> \in OpToRel(<, Nat))
  BY <1>1, WFMin
<1>3. \A k \in T : k \in Nat /\ m \in Nat /\ ~(k < m)
  BY <1>2 DEF OpToRel
<1> QED
  BY <1>3

(* Induction over the natural numbers, for a set rather than a predicate.  *)
LEMMA NatInd ==
    ASSUME NEW S, 0 \in S, \A m \in Nat : m \in S => m + 1 \in S
    PROVE  Nat \subseteq S
<1> SUFFICES ASSUME Nat \ S # {} PROVE FALSE
  OBVIOUS
<1>1. PICK m \in Nat \ S : \A k \in Nat \ S : m <= k
  BY LeastNat
<1>2. m # 0 /\ m - 1 \in Nat /\ m - 1 \in S
  BY <1>1
<1>3. m - 1 + 1 \in S
  BY <1>2
<1> QED
  BY <1>1, <1>3

(* sum gives the sum of F over every subset of its domain S, and unfolds   *)
(* by an element.                                                          *)
PartialSums(F, S, sum) ==
    /\ sum \in [SUBSET S -> Int]
    /\ sum[S] = SumFunction(F) /\ sum[{}] = 0
    /\ \A s \in SUBSET S : s # {} => \E x \in s : sum[s] = F[x] + sum[s \ {x}]

(* SumFunction over a finite set can be unfolded, an element at a time.    *)
LEMMA SumUnfolds ==
    ASSUME NEW S, IsFiniteSet(S), NEW F \in [S -> Int]
    PROVE  \E sum : PartialSums(F, S, sum)
<1> DEFINE pick(s) == CHOOSE x \in s : TRUE
           small(m) == {s \in SUBSET S : Cardinality(s) <= m}
           Is(g, s) == g[s] = IF s = {} THEN 0 ELSE F[pick(s)] + g[s \ {pick(s)}]
           T == {m \in Nat : \E g \in [small(m) -> Int] : \A s \in small(m) : Is(g, s)}
<1>1. ASSUME NEW s \in SUBSET S, s # {}
      PROVE  /\ pick(s) \in s /\ F[pick(s)] \in Int /\ s \ {pick(s)} \in SUBSET S
             /\ Cardinality(s) \in Nat \ {0} /\ Cardinality(s \ {pick(s)}) = Cardinality(s) - 1
  <2>1. pick(s) \in s
    BY <1>1
  <2>2. IsFiniteSet(s)
    BY FS_Subset
  <2>3. Cardinality(s \ {pick(s)}) = Cardinality(s) - 1
    BY <2>1, <2>2, FS_RemoveElement
  <2>4. Cardinality(s) \in Nat /\ Cardinality(s) # 0
    BY <1>1, <2>2, FS_CardinalityType, FS_EmptySet
  <2> QED
    BY <2>1, <2>3, <2>4
<1> HIDE DEF pick
<1>0. ASSUME NEW s \in small(0) PROVE s = {}
  <2>1. s \in SUBSET S /\ Cardinality(s) <= 0
    OBVIOUS
  <2>2. s # {} => Cardinality(s) \in Nat \ {0}
    BY <1>1, <2>1
  <2> QED
    BY <2>1, <2>2
<1>2. {} \in SUBSET S /\ Cardinality({}) = 0
  BY FS_EmptySet
<1>3. 0 \in T
  <2> DEFINE g == [s \in small(0) |-> 0]
  <2>2. g \in [small(0) -> Int] /\ \A s \in small(0) : Is(g, s)
    BY <1>0
  <2> QED
    BY <2>2
<1>4. ASSUME NEW m \in Nat, m \in T PROVE m + 1 \in T
  <2>1. PICK g \in [small(m) -> Int] : \A s \in small(m) : Is(g, s)
    BY <1>4
  <2> DEFINE h == [s \in small(m + 1) |->
                      IF s = {} THEN 0 ELSE F[pick(s)] + g[s \ {pick(s)}]]
  <2>2. ASSUME NEW s \in small(m + 1), s # {}
        PROVE  s \ {pick(s)} \in small(m) /\ F[pick(s)] \in Int
    BY <1>1, <2>2
  <2>3. \A s \in small(m) : s \in small(m + 1) /\ h[s] = g[s]
    <3> SUFFICES ASSUME NEW s \in small(m) PROVE s \in small(m + 1) /\ h[s] = g[s]
      OBVIOUS
    <3>1. s \in small(m + 1)
      BY FS_Subset, FS_CardinalityType
    <3> QED
      BY <3>1, <2>1
  <2>4. h \in [small(m + 1) -> Int]
    BY <2>2
  <2>5. ASSUME NEW s \in small(m + 1) PROVE Is(h, s)
    BY <2>2, <2>3
  <2> HIDE DEF h, small
  <2>6. \E f \in [small(m + 1) -> Int] : \A s \in small(m + 1) : Is(f, s)
    BY <2>4, <2>5
  <2> QED
    BY <2>6
<1> DEFINE size == Cardinality(S)
<1>5. size \in T
  <2> HIDE DEF T
  <2>1. Nat \subseteq T
    BY <1>3, <1>4, NatInd
  <2> QED
    BY <2>1, FS_CardinalityType
<1>6. small(size) = SUBSET S
  BY FS_Subset, Zenon
<1>7. PICK g \in [SUBSET S -> Int] : \A s \in SUBSET S : Is(g, s)
  BY <1>5, <1>6
<1> DEFINE fold == CHOOSE f : f = [s \in SUBSET S |-> IF s = {} THEN 0 ELSE F[pick(s)] + f[s \ {pick(s)}]]
<1>8. g = [s \in SUBSET S |-> IF s = {} THEN 0 ELSE F[pick(s)] + g[s \ {pick(s)}]]
  BY <1>7
<1>9. fold = [s \in SUBSET S |-> IF s = {} THEN 0 ELSE F[pick(s)] + fold[s \ {pick(s)}]]
  BY <1>8
<1>10. fold[S] = SumFunction(F)
  BY Zenon DEF SumFunction, SumFunctionOnSet, FoldFunctionOnSet, MapThenFoldSet, pick
<1> HIDE DEF fold
<1>11. \A s \in SUBSET S : Is(fold, s)
  BY <1>9
<1>12. fold \in [SUBSET S -> Int] /\ fold[{}] = 0
  <2>1. \A m \in Nat : \A s \in small(m) : fold[s] = g[s]
    <3> DEFINE U == {m \in Nat : \A s \in small(m) : fold[s] = g[s]}
    <3>1. 0 \in U
      <4> QED
        BY <1>0, <1>11, <1>7, <1>2
    <3>2. ASSUME NEW m \in Nat, m \in U PROVE m + 1 \in U
      <4> SUFFICES ASSUME NEW s \in small(m + 1) PROVE fold[s] = g[s]
        OBVIOUS
      <4>1. CASE s = {}
        BY <4>1, <1>11, <1>7
      <4>2. CASE s # {}
        <5>1. s \ {pick(s)} \in small(m)
          BY <1>1, <4>2
        <5>2. fold[s \ {pick(s)}] = g[s \ {pick(s)}]
          BY <3>2, <5>1
        <5> QED
          BY <5>2, <4>2, <1>11, <1>7
      <4> QED
        BY <4>1, <4>2
    <3> HIDE DEF U
    <3>3. Nat \subseteq U
      BY <3>1, <3>2, NatInd
    <3> QED
      BY <3>3 DEF U
  <2>2. \A s \in SUBSET S : fold[s] = g[s]
    BY <2>1, <1>6, FS_CardinalityType
  <2>3. fold = [s \in SUBSET S |-> g[s]]
    BY <2>2, <1>9
  <2> QED
    BY <2>3, <1>11, <1>2
<1>13. PartialSums(F, S, fold)
  BY <1>10, <1>11, <1>12, <1>1 DEF PartialSums
<1> QED
  BY <1>13

(* Quotient and remainder of a division by a positive number.              *)
LEMMA DivFacts ==
    ASSUME NEW a \in Int, NEW b \in Nat \ {0}
    PROVE  /\ a \div b \in Int /\ a % b \in Nat /\ a % b < b
           /\ a = b * (a \div b) + (a % b)
           /\ a >= 0 => a \div b \in Nat
OBVIOUS

(* Multiplying with a natural number keeps the order.                      *)
LEMMA TimesMonotone ==
    ASSUME NEW a \in Int, NEW b \in Int, NEW c \in Nat, a <= b
    PROVE  a * c <= b * c
OBVIOUS

-----------------------------------------------------------------------------
(* The chart.  TurnsInv is inductive.                                      *)

(* The starts of the buckets, k * size / count with more points than       *)
(* buckets: they increase, by more than one where the next is a whole      *)
(* number, and stay below the size up to the count.                        *)
LEMMA QuotientStep ==
    ASSUME NEW size \in Nat, NEW count \in Nat \ {0}, count < size, NEW k \in Nat
    PROVE  LET quotient(l) == (l * size) \div count
           IN  /\ quotient(k) \in Nat
               /\ quotient(k) < quotient(k + 1)
               /\ ((k + 1) * size) % count = 0 => quotient(k) + 1 < quotient(k + 1)
               /\ k < count => quotient(k) + 1 < size
               /\ k >= count => quotient(k) >= size
<1> DEFINE here == k * size
           there == (k + 1) * size
           q == here \div count
           q1 == there \div count
           r == here % count
           r1 == there % count
<1>1. here \in Nat /\ there \in Nat /\ there = here + size
  OBVIOUS
<1> HIDE DEF here, there
<1>2. /\ q \in Nat /\ q1 \in Nat /\ r \in Nat /\ r1 \in Nat /\ r < count /\ r1 < count
      /\ here = count * q + r /\ there = count * q1 + r1
  BY <1>1, DivFacts
<1> HIDE DEF q, q1, r, r1
<1> DEFINE e == q1 - q
<1>3. e \in Int /\ e * count = count * q1 - count * q
  BY <1>2
<1>4. e * count = size + r - r1
  BY <1>1, <1>2, <1>3
<1> HIDE DEF e
<1>5. 0 < e
  <2>1. CASE e <= 0
    <3>1. e * count <= 0 * count
      BY <2>1, <1>3, TimesMonotone
    <3> QED
      BY <3>1, <1>4, <1>2
  <2> QED
    BY <2>1, <1>3
<1>6. ASSUME r1 = 0 PROVE 1 < e
  <2>1. CASE e <= 1
    <3>1. e * count <= 1 * count
      BY <2>1, <1>3, TimesMonotone
    <3> QED
      BY <3>1, <1>4, <1>2, <1>6
  <2> QED
    BY <2>1, <1>3
<1>7. ASSUME k < count PROVE q + 1 < size
  <2>1. k * size <= (count - 1) * size
    BY <1>7, TimesMonotone
  <2>2. here <= count * size - size
    BY <2>1 DEF here
  <2>3. count * q <= count * size - size
    BY <2>2, <1>2
  <2>4. CASE q >= size - 1
    <3>1. (size - 1) * count <= q * count
      BY <2>4, <1>2, TimesMonotone
    <3>2. (size - 1) * count = count * size - count /\ q * count = count * q
      BY <1>2
    <3>3. count * size \in Nat /\ count * q \in Nat
      BY <1>2
    <3> QED
      BY <3>1, <3>2, <3>3, <2>3
  <2> QED
    BY <2>4, <1>2
<1>8. ASSUME k >= count PROVE q >= size
  <2>1. count * size <= here
    BY <1>8, TimesMonotone DEF here
  <2>2. CASE q <= size - 1
    <3>1. q * count <= (size - 1) * count
      BY <2>2, <1>2, TimesMonotone
    <3>2. (size - 1) * count = count * size - count /\ q * count = count * q
      BY <1>2
    <3> QED
      BY <3>1, <3>2, <2>1, <1>2
  <2> QED
    BY <2>2, <1>2
<1>9. e = q1 - q
  BY DEF e
<1>10. q < q1 /\ (r1 = 0 => q + 1 < q1)
  BY <1>2, <1>5, <1>6, <1>9
<1> QED
  BY <1>2, <1>10, <1>7, <1>8 DEF q, q1, r1, here, there

(* The ends of the buckets, however the floating point numbers are         *)
(* rounded: inside the points, increasing up to the last bucket, which     *)
(* ends at the last point but one.                                         *)
LEMMA Buckets ==
    ASSUME n \in Nat, target \in Nat, 3 < target, target < n, NEW k \in 1 .. target - 1
    PROVE  /\ BucketHigh(k) \subseteq 1 .. n - 2
           /\ k < target - 2 => \A a \in BucketHigh(k) : \A b \in BucketHigh(k + 1) : a < b
           /\ k >= target - 2 => BucketHigh(k) \subseteq {n - 2}
<1> DEFINE size == n - 2
           count == target - 2
           q == (k * size) \div count
           q1 == ((k + 1) * size) \div count
<1>1. size \in Nat /\ count \in Nat \ {0} /\ count < size /\ k \in Nat /\ k >= 1
  OBVIOUS
<1>2. /\ q \in Nat /\ q < q1
      /\ ((k + 1) * size) % count = 0 => q + 1 < q1
      /\ k < count => q + 1 < size
      /\ k >= count => q >= size
  BY <1>1, QuotientStep
<1>3. /\ q1 \in Nat
      /\ k + 1 < count => q1 + 1 < size
      /\ k + 1 >= count => q1 >= size
  BY <1>1, QuotientStep
<1>4. q >= 1
  <2> DEFINE product == k * size
  <2>1. 1 * size <= product /\ product \in Nat
    BY <1>1, TimesMonotone
  <2>2. q = product \div count
    OBVIOUS
  <2> HIDE DEF product, q, size, count
  <2>3. product = count * q + (product % count) /\ product % count < count /\ product % count \in Nat
    BY <2>1, <2>2, <1>1, DivFacts
  <2>4. CASE q = 0
    BY <2>1, <2>3, <2>4, <1>1
  <2> QED
    BY <2>4, <1>2
<1>5. ASSUME NEW a \in BucketHigh(k)
      PROVE  /\ a \in {q, q + 1} \/ (a = n - 2 /\ q + 1 >= n - 1)
             /\ a \in 1 .. n - 2
             /\ k < count => a <= q + 1
  <2>1. PICK h \in BucketStart(k) : a = IF h >= n - 1 THEN n - 2 ELSE h
    BY DEF BucketHigh
  <2>2. h \in {q, q + 1}
    BY <2>1 DEF BucketStart
  <2> HIDE DEF q
  <2> QED
    BY <2>1, <2>2, <1>1, <1>2, <1>4
<1>6. ASSUME NEW b \in BucketHigh(k + 1)
      PROVE  b = n - 2 \/ b = q1 + 1 \/ (b = q1 /\ ((k + 1) * size) % count = 0)
  <2>1. PICK h \in BucketStart(k + 1) : b = IF h >= n - 1 THEN n - 2 ELSE h
    BY DEF BucketHigh
  <2>2. h = q1 + 1 \/ (h = q1 /\ ((k + 1) * size) % count = 0)
    BY <2>1 DEF BucketStart
  <2> HIDE DEF q1
  <2> QED
    BY <2>1, <2>2
<1> HIDE DEF q, q1
<1>7. ASSUME k < target - 2, NEW a \in BucketHigh(k), NEW b \in BucketHigh(k + 1)
      PROVE  a < b
  BY <1>7, <1>1, <1>2, <1>3, <1>5, <1>6
<1>8. ASSUME k >= target - 2, NEW a \in BucketHigh(k) PROVE a = n - 2
  BY <1>8, <1>5, <1>2, <1>1
<1> QED
  BY <1>5, <1>7, <1>8

(* The end of the first bucket is not rounded.                             *)
LEMMA FirstBucket ==
    ASSUME n \in Nat, target \in Nat, 3 < target, target < n
    PROVE  LET first == (n - 2) \div (target - 2) + 1
           IN  BucketHigh(1) = {first} /\ 1 < first
<1> DEFINE size == n - 2
           count == target - 2
           q == size \div count
<1>1. /\ size \in Nat /\ count \in Nat \ {0} /\ count < size /\ 1 < count
      /\ 1 * size = size /\ 1 \in Nat
  OBVIOUS
<1>2. q \in Nat /\ q + 1 < size
  <2>1. (1 * size) \div count = q
    BY <1>1
  <2>2. (1 * size) \div count \in Nat /\ (1 * size) \div count + 1 < size
    <3> HIDE DEF size, count, q
    <3> QED
      BY <1>1, QuotientStep
  <2> QED
    BY <2>1, <2>2
<1>3. 1 <= q
  <2> HIDE DEF size, count
  <2>1. size = count * q + (size % count) /\ size % count < count /\ size % count \in Nat
    BY <1>1, DivFacts
  <2>2. CASE q = 0
    BY <2>1, <2>2, <1>1
  <2> QED
    BY <2>2, <1>2
<1>4. BucketStart(1) = {q + 1}
  BY <1>1 DEF BucketStart
<1>5. BucketHigh(1) = {IF q + 1 >= n - 1 THEN n - 2 ELSE q + 1}
  BY <1>4 DEF BucketHigh
<1>6. BucketHigh(1) = {q + 1}
  <2> HIDE DEF q
  <2> QED
    BY <1>5, <1>2, <1>1
<1> QED
  BY <1>6, <1>3, <1>2

(* Before a turn the bucket to take from is not empty, and neither is the  *)
(* one to average, but with a target of three.                             *)
LEMMA Turn ==
    ASSUME ChartTypeOK, BucketsInTurn, pc = "loop", i < target - 2,
           NEW high \in BucketHigh(i + 2)
    PROVE  /\ 1 <= bucketLow /\ bucketLow < bucketMiddle /\ bucketMiddle <= high + 1
           /\ high \in 1 .. n - 2
           /\ target > 3 => bucketMiddle <= high
           /\ target = 3 => i = 0 /\ high = n - 2
<1>1. /\ n \in Nat /\ target \in Nat /\ target < n /\ 3 <= target /\ i \in Nat
      /\ bucketLow \in Nat /\ bucketMiddle \in Nat
  BY DEF ChartTypeOK, BucketsInTurn, n
<1>2. CASE target = 3
  <2>1. i = 0 /\ bucketLow = 1 /\ bucketMiddle = n - 1
    BY <1>1, <1>2 DEF BucketsInTurn
  <2>2. high = n - 2
    <3>1. PICK h \in BucketStart(2) : high = IF h >= n - 1 THEN n - 2 ELSE h
      BY <2>1 DEF BucketHigh
    <3>2. (2 * (n - 2)) \div 1 = 2 * (n - 2)
      BY <1>1
    <3>3. h \in {2 * (n - 2), 2 * (n - 2) + 1}
      BY <1>2, <3>1, <3>2 DEF BucketStart
    <3> QED
      BY <3>1, <3>3, <1>1, <1>2
  <2> QED
    BY <2>1, <2>2, <1>1, <1>2
<1>3. CASE target > 3
  <2>1. i + 1 \in 1 .. target - 1 /\ i + 2 \in 1 .. target - 1 /\ i + 1 + 1 = i + 2
    BY <1>1
  <2>2. bucketMiddle \in BucketHigh(i + 1)
    BY <1>3 DEF BucketsInTurn
  <2>3. high \in 1 .. n - 2 /\ bucketMiddle \in 1 .. n - 2
    BY <2>1, <2>2, <1>1, <1>3, Buckets
  <2>4. bucketMiddle <= high
    <3>1. CASE i + 1 < target - 2
      BY <3>1, <2>1, <2>2, <2>3, <1>1, <1>3, Buckets
    <3>2. CASE i + 1 >= target - 2
      <4>1. high = n - 2
        BY <3>2, <2>1, <1>1, <1>3, Buckets
      <4> QED
        BY <4>1, <2>3, <1>1
    <3> QED
      BY <3>1, <3>2, <1>1
  <2>5. 1 <= bucketLow /\ bucketLow < bucketMiddle
    <3>1. CASE i = 0
      <4>1. i + 1 = 1 /\ bucketLow = 1
        BY <3>1 DEF BucketsInTurn
      <4> QED
        BY <4>1, <2>2, <1>1, <1>3, FirstBucket
    <3>2. CASE i > 0
      <4>1. bucketLow \in BucketHigh(i) /\ i \in 1 .. target - 1 /\ i < target - 2
        BY <3>2, <1>1, <1>3 DEF BucketsInTurn
      <4> QED
        BY <4>1, <2>2, <1>1, <1>3, Buckets
    <3> QED
      BY <3>1, <3>2, <1>1
  <2> QED
    BY <2>3, <2>4, <2>5, <1>1, <1>3
<1> QED
  BY <1>1, <1>2, <1>3

(* A set that has an element more than some number is not empty.           *)
LEMMA NotEmpty ==
    ASSUME NEW s, NEW m \in Nat, Cardinality(s) = m + 1
    PROVE  s # {}
<1>1. Cardinality({}) = 0
  BY FS_EmptySet
<1> QED
  BY <1>1

(* The mean of numbers above a is above a.                                 *)
LEMMA MiddleAverages ==
    ASSUME NEW S, S \subseteq Int, IsFiniteSet(S), S # {}, NEW a \in Int, \A x \in S : a < x
    PROVE  /\ Cardinality(S) \in Nat \ {0}
           /\ SumFunction([k \in S |-> k]) \in Int
           /\ Cardinality(S) * a < SumFunction([k \in S |-> k])
<1> DEFINE F == [k \in S |-> k]
           size == Cardinality(S)
<1>1. PICK sum : PartialSums(F, S, sum)
  <2>1. F \in [S -> Int]
    OBVIOUS
  <2> HIDE DEF F
  <2> QED
    BY <2>1, SumUnfolds
<1> DEFINE U == {m \in Nat : \A s \in SUBSET S : Cardinality(s) = m =>
                    sum[s] >= m * a + m}
<1>2. 0 \in U
  <2> SUFFICES ASSUME NEW s \in SUBSET S, Cardinality(s) = 0 PROVE sum[s] >= 0
    OBVIOUS
  <2>1. s = {}
    BY FS_Subset, FS_EmptySet
  <2> QED
    BY <2>1, <1>1 DEF PartialSums
<1>3. ASSUME NEW m \in Nat, m \in U PROVE m + 1 \in U
  <2> SUFFICES ASSUME NEW s \in SUBSET S, Cardinality(s) = m + 1
               PROVE  sum[s] >= (m + 1) * a + (m + 1)
    OBVIOUS
  <2>1. IsFiniteSet(s)
    BY FS_Subset
  <2>2. s # {}
    BY NotEmpty
  <2>3. PICK x \in s : sum[s] = F[x] + sum[s \ {x}]
    BY <2>2, <1>1 DEF PartialSums
  <2>4. s \ {x} \in SUBSET S /\ Cardinality(s \ {x}) = m
    <3>1. Cardinality(s \ {x}) = Cardinality(s) - 1
      BY <2>1, FS_RemoveElement
    <3> QED
      BY <3>1
  <2>5. sum[s \ {x}] >= m * a + m /\ sum[s \ {x}] \in Int
    BY <2>4, <1>1, <1>3 DEF PartialSums
  <2>6. F[x] = x /\ x \in Int /\ x >= a + 1
    OBVIOUS
  <2>7. (m + 1) * a = m * a + a /\ m * a \in Int
    OBVIOUS
  <2> QED
    BY <2>3, <2>5, <2>6, <2>7
<1>4. size \in Nat \ {0}
  BY FS_CardinalityType, FS_EmptySet
<1>5. size \in U
  <2> HIDE DEF U
  <2>1. Nat \subseteq U
    BY <1>2, <1>3, NatInd
  <2> QED
    BY <2>1, <1>4
<1>6. sum[S] >= size * a + size
  BY <1>5
<1> HIDE DEF size
<1>7. size * a \in Int /\ sum[S] \in Int /\ sum[S] = SumFunction(F)
  BY <1>1, <1>4 DEF PartialSums
<1> QED
  BY <1>4, <1>6, <1>7 DEF size

(* The sum of zeros is zero.                                               *)
LEMMA ZeroAverages ==
    ASSUME NEW S, IsFiniteSet(S), NEW F \in [S -> Int], \A x \in S : F[x] = 0
    PROVE  SumFunction(F) = 0
<1>1. PICK sum : PartialSums(F, S, sum)
  BY SumUnfolds
<1> DEFINE U == {m \in Nat : \A s \in SUBSET S : Cardinality(s) = m => sum[s] = 0}
<1>2. 0 \in U
  <2> SUFFICES ASSUME NEW s \in SUBSET S, Cardinality(s) = 0 PROVE sum[s] = 0
    OBVIOUS
  <2>1. s = {}
    BY FS_Subset, FS_EmptySet
  <2> QED
    BY <2>1, <1>1 DEF PartialSums
<1>3. ASSUME NEW m \in Nat, m \in U PROVE m + 1 \in U
  <2> SUFFICES ASSUME NEW s \in SUBSET S, Cardinality(s) = m + 1 PROVE sum[s] = 0
    OBVIOUS
  <2>1. IsFiniteSet(s)
    BY FS_Subset
  <2>2. s # {}
    BY NotEmpty
  <2>3. PICK x \in s : sum[s] = F[x] + sum[s \ {x}]
    BY <2>2, <1>1 DEF PartialSums
  <2>4. s \ {x} \in SUBSET S /\ Cardinality(s \ {x}) = m
    <3>1. Cardinality(s \ {x}) = Cardinality(s) - 1
      BY <2>1, FS_RemoveElement
    <3> QED
      BY <3>1
  <2> QED
    BY <2>3, <2>4, <1>3
<1>4. Cardinality(S) \in U
  <2> HIDE DEF U
  <2>1. Nat \subseteq U
    BY <1>2, <1>3, NatInd
  <2> QED
    BY <2>1, FS_CardinalityType
<1> QED
  BY <1>4, <1>1 DEF PartialSums

(* A point of the chart is a number or NaN.                                *)
LEMMA PointFacts ==
    ASSUME ChartTypeOK, NEW k \in 0 .. n - 1
    PROVE  V(k) # NaN => V(k) \in Int
<1>1. k + 1 \in 1 .. Len(points)
  BY DEF ChartTypeOK, n
<1>2. points[k + 1] \in Numbers \cup {NaN}
  BY <1>1 DEF ChartTypeOK
<1> QED
  BY <1>2, InputAssumption DEF V

(* The point that a turn takes is in its bucket or the first.              *)
LEMMA TakenPoint ==
    ASSUME ChartTypeOK, BucketsInTurn, pc = "loop", i < target - 2,
           NEW high \in BucketHigh(i + 2),
           NEW p \in MaxAreaPoint(prevMaxAreaPoint, high)
    PROVE  /\ p \in 0 .. bucketMiddle - 1
           /\ bucketLow <= p \/ (p = 0 /\ (SomeNaN \/ target = 3))
<1>1. /\ n \in Nat /\ target \in Nat /\ target < n /\ 3 <= target
      /\ bucketLow \in Nat /\ bucketMiddle \in Nat /\ prevMaxAreaPoint \in 0 .. n - 1
  BY DEF ChartTypeOK, BucketsInTurn, n
<1>2. /\ 1 <= bucketLow /\ bucketLow < bucketMiddle /\ high \in 1 .. n - 2
      /\ bucketMiddle <= high + 1
      /\ target > 3 => bucketMiddle <= high
  BY Turn
<1>3. CASE Comparable(prevMaxAreaPoint, high) = {}
  <2>1. p = 0
    BY <1>3 DEF MaxAreaPoint
  <2>2. ASSUME target > 3, ~SomeNaN PROVE FALSE
    <3>1. ~AverageIsNaN(high)
      <4>1. bucketMiddle \in Averaged(high)
        BY <1>1, <1>2, <2>2 DEF Averaged
      <4>2. \A k \in Averaged(high) : k \in 0 .. n - 1
        BY <1>1, <1>2 DEF Averaged
      <4> QED
        BY <4>1, <4>2, <2>2 DEF AverageIsNaN, SomeNaN
    <3>2. V(prevMaxAreaPoint) # NaN /\ V(bucketLow) # NaN
      BY <1>1, <1>2, <2>2 DEF SomeNaN
    <3>3. bucketLow \in Comparable(prevMaxAreaPoint, high)
      BY <3>1, <3>2, <1>1, <1>2 DEF Comparable
    <3> QED
      BY <3>3, <1>3
  <2> QED
    BY <2>1, <2>2, <1>1, <1>2
<1>4. CASE Comparable(prevMaxAreaPoint, high) # {}
  <2>1. p \in Comparable(prevMaxAreaPoint, high)
    BY <1>4 DEF MaxAreaPoint
  <2>2. p \in bucketLow .. bucketMiddle - 1
    BY <2>1 DEF Comparable
  <2> QED
    BY <2>2, <1>1
<1> QED
  BY <1>3, <1>4

(* A product is not zero unless a factor is.                               *)
LEMMA NonZeroProduct ==
    ASSUME NEW a \in Int, NEW b \in Int, a # 0, b # 0
    PROVE  a * b # 0
OBVIOUS

(* A turn takes the lone peak of its bucket: with the other points on the  *)
(* line of the zeros only its triangle has an area.                        *)
LEMMA PeakTaken ==
    ASSUME ChartTypeOK, BucketsInTurn, pc = "loop", i < target - 2, target > 3,
           NEW high \in BucketHigh(i + 2),
           NEW p \in MaxAreaPoint(prevMaxAreaPoint, high),
           NEW k \in bucketLow .. bucketMiddle - 1, LonePeak(k)
    PROVE  p = k
<1> DEFINE a == prevMaxAreaPoint
           A == Averaged(high)
           C == Comparable(a, high)
           count == Cardinality(A)
           sumX == SumFunction([l \in A |-> l])
           sumY == SumFunction([l \in A |-> V(l)])
<1>1. /\ n \in Nat /\ bucketLow \in Nat /\ bucketMiddle \in Nat
      /\ a \in 0 .. n - 1 /\ a < bucketLow
      /\ 1 <= bucketLow /\ bucketLow < bucketMiddle /\ high \in 1 .. n - 2
      /\ bucketMiddle <= high
  BY Turn DEF ChartTypeOK, BucketsInTurn, n
<1>2. /\ A # {} /\ IsFiniteSet(A) /\ A \subseteq Int
      /\ \A l \in A : a < l /\ l # k /\ l \in 0 .. n - 1
  <2>1. A = bucketMiddle .. high
    BY DEF Averaged
  <2>2. IsFiniteSet(A)
    BY <2>1, <1>1, FS_Interval
  <2>3. bucketMiddle \in A
    BY <2>1, <1>1
  <2>4. ASSUME NEW l \in A PROVE a < l /\ l # k /\ l \in 0 .. n - 1
    BY <2>1, <1>1
  <2>5. A \subseteq Int
    BY <2>1, <1>1
  <2> QED
    BY <2>2, <2>3, <2>4, <2>5
<1>3. k \in 0 .. n - 1 /\ a # k
  BY <1>1
<1>4. ~SomeNaN /\ (\A l \in 0 .. n - 1 : V(l) # NaN) /\ \A l \in 0 .. n - 1 : V(l) = 0 <=> l # k
  BY DEF LonePeak, SomeNaN
<1>5. V(a) = 0 /\ V(k) \in Int /\ V(k) # 0
  BY <1>1, <1>3, <1>4, PointFacts
<1>6. sumY = 0
  <2>1. \A l \in A : V(l) = 0
    BY <1>2, <1>4
  <2>2. [l \in A |-> V(l)] \in [A -> Int] /\ \A l \in A : [m \in A |-> V(m)][l] = 0
    BY <2>1
  <2> QED
    BY <1>2, <2>2, ZeroAverages
<1>7. sumX \in Int /\ count \in Nat /\ count * a < sumX
  <2>1. a \in Int
    BY <1>1
  <2> HIDE DEF A, a
  <2>2. \A l \in A : a < l
    BY <1>2
  <2> QED
    BY <1>2, <2>1, <2>2, MiddleAverages
<1>8. C = bucketLow .. bucketMiddle - 1
  <2>1. ~AverageIsNaN(high)
    BY <1>2, <1>4 DEF AverageIsNaN
  <2>2. V(a) # NaN /\ \A c \in bucketLow .. bucketMiddle - 1 : V(c) # NaN
    BY <1>1, <1>4
  <2> QED
    BY <2>1, <2>2 DEF Comparable
<1> HIDE DEF A, C, a
<1>9. \A c \in C : Area(a, high, c) =
         Absolute((a - c) * (sumY - count * V(a)) - (count * a - sumX) * (V(c) - V(a)))
  BY DEF Area, A
<1> HIDE DEF sumX, sumY, count
<1>10. ASSUME NEW c \in C, c # k PROVE Area(a, high, c) = 0
  <2>1. V(c) = 0 /\ c \in Int
    BY <1>1, <1>4, <1>8, <1>10
  <2>2. (a - c) * (sumY - count * V(a)) = 0 /\ (count * a - sumX) * (V(c) - V(a)) = 0
    BY <2>1, <1>1, <1>5, <1>6, <1>7
  <2>3. Area(a, high, c) = Absolute(0 - 0)
    BY <2>2, <1>9
  <2> QED
    BY <2>3 DEF Absolute
<1>11. Area(a, high, k) \in Int /\ Area(a, high, k) > 0
  <2> DEFINE w == count * a - sumX
  <2>1. w \in Int /\ w # 0
    BY <1>1, <1>7
  <2>2. (a - k) * (sumY - count * V(a)) = 0 /\ V(k) - V(a) = V(k)
    BY <1>1, <1>3, <1>5, <1>6, <1>7
  <2> HIDE DEF w
  <2>3. Area(a, high, k) = Absolute(0 - w * V(k))
    BY <2>2, <1>9, <1>8 DEF w
  <2>4. w * V(k) \in Int /\ w * V(k) # 0
    BY <2>1, <1>5, NonZeroProduct
  <2> QED
    BY <2>3, <2>4 DEF Absolute
<1>12. k \in C /\ p \in C /\ Area(a, high, k) <= Area(a, high, p)
  BY <1>8 DEF MaxAreaPoint, C, a
<1> QED
  BY <1>10, <1>11, <1>12

(* The slices of the buckets are in range whenever the buckets are in      *)
(* turn.                                                                   *)
LEMMA SliceFacts == ChartTypeOK /\ BucketsInTurn => SlicesInRange
<1> SUFFICES ASSUME ChartTypeOK, BucketsInTurn, pc = "loop", i < target - 2
             PROVE  /\ 1 <= bucketLow /\ bucketLow < bucketMiddle
                    /\ \A high \in BucketHigh(i + 2) : bucketMiddle <= high + 1 /\ high + 1 < n
  BY DEF SlicesInRange
<1>1. n \in Nat
  BY DEF ChartTypeOK, n
<1>2. BucketHigh(i + 2) # {}
  <2>1. BucketStart(i + 2) # {}
    BY DEF BucketStart
  <2> QED
    BY <2>1 DEF BucketHigh
<1>3. \A high \in BucketHigh(i + 2) :
         /\ 1 <= bucketLow /\ bucketLow < bucketMiddle /\ bucketMiddle <= high + 1
         /\ high \in 1 .. n - 2
  BY Turn
<1> QED
  BY <1>1, <1>2, <1>3

(* What the steps keep.  That slices are in range follows.                 *)
TurnsInv == ChartTypeOK /\ BucketsInTurn /\ InOrder /\ PeakKeptSoFar /\ LonePeakKept

(* Downsampling starts with no point taken.                                *)
LEMMA ChartStart == ChartInit => TurnsInv
<1> SUFFICES ASSUME ChartInit PROVE TurnsInv
  OBVIOUS
<1>1. PICK len \in 1 .. MaxLen : points \in [1 .. len -> Numbers \cup {NaN}]
  BY DEF ChartInit
<1>2. points \in Seq(Numbers \cup {NaN}) /\ n = len /\ len \in Nat \ {0}
  BY <1>1, InputAssumption DEF n
<1>3. target \in Nat
  BY InputAssumption DEF ChartInit
<1>4. ChartTypeOK
  <2>1. sampledData \in Seq(0 .. n - 1)
    BY DEF ChartInit
  <2> QED
    BY <1>2, <1>3, <2>1 DEF ChartInit, ChartTypeOK
<1>5. BucketsInTurn
  BY DEF ChartInit, BucketsInTurn
<1>6. InOrder
  BY DEF ChartInit, InOrder
<1> QED
  BY <1>4, <1>5, <1>6 DEF ChartInit, TurnsInv, PeakKeptSoFar, LonePeakKept, Reduced

(* Appending an element.                                                   *)
LEMMA AppendFacts ==
    ASSUME NEW T, NEW s \in Seq(T), NEW x \in T
    PROVE  /\ Append(s, x) \in Seq(T) /\ Append(s, x) # <<>>
           /\ Len(s) \in Nat /\ Len(Append(s, x)) = Len(s) + 1
           /\ Append(s, x)[Len(s) + 1] = x
           /\ \A j \in 1 .. Len(s) : Append(s, x)[j] = s[j]
OBVIOUS

(* A point taken after the last one: what was kept is kept, and time goes  *)
(* forward if it does so to the new one.                                   *)
LEMMA Taken ==
    ASSUME ChartTypeOK, BucketsInTurn, InOrder, pc = "loop", UNCHANGED input, NEW p \in 0 .. n - 1,
           sampledData' = Append(sampledData, p),
           prevMaxAreaPoint < p \/ (p = 0 /\ (SomeNaN \/ target = 3))
    PROVE  /\ InOrder' /\ sampledData' \in Seq(0 .. n - 1) /\ sampledData' # <<>>
           /\ sampledData'[1] = 0 /\ sampledData'[Len(sampledData')] = p
           /\ Kept(p)' /\ \A k : Kept(k) => Kept(k)'
<1> DEFINE s == sampledData
<1>1. s \in Seq(0 .. n - 1) /\ s # <<>> /\ s[1] = 0 /\ s[Len(s)] = prevMaxAreaPoint
  BY DEF ChartTypeOK, BucketsInTurn
<1>2. /\ s' \in Seq(0 .. n - 1) /\ s' # <<>> /\ Len(s) \in Nat /\ Len(s') = Len(s) + 1
      /\ s'[Len(s) + 1] = p /\ \A j \in 1 .. Len(s) : s'[j] = s[j]
  BY <1>1, AppendFacts
<1>3. Len(s) # 0
  BY <1>1
<1>4. SomeNaN' <=> SomeNaN
  BY DEF input, SomeNaN, n, V
<1>5. InOrder'
  <2> SUFFICES ASSUME NEW j \in 1 .. Len(s') - 1
               PROVE  s'[j] < s'[j + 1] \/ (s'[j + 1] = 0 /\ (SomeNaN' \/ target' = 3))
    BY DEF InOrder
  <2>1. CASE j = Len(s)
    BY <2>1, <1>1, <1>2, <1>3, <1>4 DEF input
  <2>2. CASE j # Len(s)
    <3>1. j \in 1 .. Len(s) - 1 /\ j \in 1 .. Len(s) /\ j + 1 \in 1 .. Len(s)
      BY <2>2, <1>2
    <3>2. s'[j] = s[j] /\ s'[j + 1] = s[j + 1]
      BY <3>1, <1>2
    <3> QED
      BY <3>1, <3>2, <1>4 DEF InOrder, input
  <2> QED
    BY <2>1, <2>2
<1>6. Kept(p)'
  BY <1>2 DEF Kept
<1>7. \A k : Kept(k) => Kept(k)'
  BY <1>2 DEF Kept
<1> QED
  BY <1>1, <1>2, <1>3, <1>5, <1>6, <1>7

(* Every step of downsampling keeps the buckets in turn, what was taken in *)
(* order, and the lone peak.                                               *)
LEMMA ChartStep == TurnsInv /\ [ChartNext]_chartVars => TurnsInv'
<1> SUFFICES ASSUME TurnsInv, [ChartNext]_chartVars PROVE TurnsInv'
  OBVIOUS
<1>1. ChartTypeOK /\ BucketsInTurn /\ InOrder /\ PeakKeptSoFar /\ LonePeakKept
  BY DEF TurnsInv
<1>2. /\ points \in Seq(Numbers \cup {NaN}) /\ n \in Nat \ {0} /\ target \in Nat /\ i \in Nat
      /\ bucketLow \in Nat /\ bucketMiddle \in Nat /\ prevMaxAreaPoint \in 0 .. n - 1
      /\ sampledData \in Seq(0 .. n - 1) /\ Len(sampledData) \in Nat
  <2>1. sampledData \in Seq(0 .. n - 1) /\ prevMaxAreaPoint \in 0 .. n - 1 /\ n \in Nat
    BY <1>1 DEF ChartTypeOK, n
  <2> QED
    BY <1>1, <2>1 DEF ChartTypeOK
<1>3. ASSUME UNCHANGED input PROVE /\ n' = n /\ (SomeNaN' <=> SomeNaN)
                                   /\ \A k : LonePeak(k)' <=> LonePeak(k)
  BY <1>3 DEF input, n, SomeNaN, LonePeak, V
<1>4. CASE UNCHANGED chartVars
  <2>1. ChartTypeOK' /\ BucketsInTurn' /\ InOrder' /\ PeakKeptSoFar'
    BY <1>1, <1>4 DEF chartVars, input, ChartTypeOK, BucketsInTurn, InOrder,
          PeakKeptSoFar, n, SomeNaN, LonePeak, V, Kept, BucketHigh, BucketStart
  <2>2. LonePeakKept'
    BY <1>1, <1>4 DEF chartVars, input, LonePeakKept, Reduced, n, SomeNaN, LonePeak, V, Kept
  <2> QED
    BY <2>1, <2>2 DEF TurnsInv
<1>5. CASE ReturnAll
  <2>1. /\ sampledData' = [k \in 1 .. n |-> k - 1] /\ n' = n /\ pc' = "done"
        /\ target >= n \/ target = 0
        /\ UNCHANGED <<points, target, i, bucketLow, bucketMiddle, prevMaxAreaPoint>>
    BY <1>5 DEF ReturnAll, input, n
  <2>2. Len(sampledData') = n /\ sampledData' \in Seq(0 .. n - 1)
    BY <2>1, <1>2
  <2>3. ChartTypeOK'
    BY <2>1, <2>2, <1>2 DEF ChartTypeOK
  <2>4. BucketsInTurn' /\ PeakKeptSoFar' /\ LonePeakKept'
    BY <2>1, <1>2 DEF BucketsInTurn, PeakKeptSoFar, LonePeakKept, Reduced
  <2>5. InOrder'
    <3> SUFFICES ASSUME NEW j \in 1 .. Len(sampledData') - 1
                 PROVE  sampledData'[j] < sampledData'[j + 1]
      BY DEF InOrder
    <3> QED
      BY <2>1, <2>2, <1>2
  <2> QED
    BY <2>3, <2>4, <2>5 DEF TurnsInv
<1>6. CASE Start
  <2>1. /\ pc = "start" /\ pc' = "loop" /\ target < n /\ target > 0
        /\ sampledData' = <<0>> /\ bucketLow' = 1
        /\ bucketMiddle' = IF target > 2 THEN (n - 2) \div (target - 2) + 1 ELSE 1
        /\ UNCHANGED <<points, target, i, prevMaxAreaPoint>> /\ UNCHANGED input /\ n' = n
    BY <1>6 DEF Start, input, n
  <2>2. i = 0 /\ prevMaxAreaPoint = 0
    BY <2>1, <1>1 DEF BucketsInTurn
  <2>3. sampledData' \in Seq(0 .. n - 1) /\ Len(sampledData') = 1 /\ sampledData'[1] = 0
    BY <2>1, <1>2
  <2>4. target > 3 => bucketMiddle' \in Nat /\ bucketMiddle' \in BucketHigh(1)
    <3>1. ASSUME target > 3 PROVE LET first == (n - 2) \div (target - 2) + 1
                                  IN  BucketHigh(1) = {first} /\ 1 < first
      BY <3>1, <2>1, <1>2, FirstBucket
    <3>2. ASSUME target > 3 PROVE (n - 2) \div (target - 2) \in Nat
      BY <3>2, <2>1, <1>2, DivFacts
    <3> QED
      BY <3>1, <3>2, <2>1, <1>2
  <2>5. target = 3 => bucketMiddle' = n - 1
    BY <2>1, <1>2
  <2>6. bucketMiddle' \in Nat
    <3>1. CASE target <= 2
      BY <3>1, <2>1, <1>2
    <3> QED
      BY <3>1, <2>4, <2>5, <1>2
  <2>7. ChartTypeOK'
    BY <2>1, <2>3, <2>6, <1>2 DEF ChartTypeOK
  <2>8. BucketsInTurn'
    <3>1. target > 3 => bucketMiddle' \in BucketHigh(i + 1)'
      BY <2>1, <2>2, <2>4 DEF BucketHigh, BucketStart
    <3> QED
      BY <2>1, <2>2, <2>3, <2>5, <3>1, <1>2 DEF BucketsInTurn
  <2>9. InOrder' /\ LonePeakKept'
    BY <2>1, <2>3 DEF InOrder, LonePeakKept, Reduced
  <2>10. PeakKeptSoFar'
    BY <2>1, <2>3 DEF PeakKeptSoFar, Kept
  <2> QED
    BY <2>7, <2>8, <2>9, <2>10 DEF TurnsInv
<1>7. CASE TakeFromBucket
  <2>0. PICK high \in BucketHigh(i + 2) :
           prevMaxAreaPoint' \in MaxAreaPoint(prevMaxAreaPoint, high) /\ bucketMiddle' = high
    BY <1>7 DEF TakeFromBucket
  <2>1. PICK p \in MaxAreaPoint(prevMaxAreaPoint, high) :
           prevMaxAreaPoint' = p /\ bucketMiddle' = high
    BY <2>0
  <2>2. /\ pc = "loop" /\ pc' = "loop" /\ i < target - 2 /\ i' = i + 1
        /\ sampledData' = Append(sampledData, p)
        /\ bucketLow' = bucketMiddle
        /\ UNCHANGED <<points, target>> /\ UNCHANGED input /\ n' = n
    BY <1>7, <2>1 DEF TakeFromBucket, input, n
  <2>3. /\ 1 <= bucketLow /\ bucketLow < bucketMiddle /\ bucketMiddle <= high + 1
        /\ high \in 1 .. n - 2
        /\ target > 3 => bucketMiddle <= high
        /\ target = 3 => i = 0 /\ high = n - 2
    BY <2>2, <1>1, Turn
  <2>4. p \in 0 .. bucketMiddle - 1 /\ (bucketLow <= p \/ (p = 0 /\ (SomeNaN \/ target = 3)))
    BY <2>2, <1>1, TakenPoint
  <2>5. /\ prevMaxAreaPoint < bucketLow /\ bucketLow < n /\ target < n /\ 0 < target
        /\ target > 3 => bucketMiddle \in BucketHigh(i + 1)
    BY <2>2, <1>1 DEF BucketsInTurn
  <2>6. p \in 0 .. n - 1 /\ (prevMaxAreaPoint < p \/ (p = 0 /\ (SomeNaN \/ target = 3)))
    BY <2>3, <2>4, <2>5, <1>2
  <2>7. /\ InOrder' /\ sampledData' \in Seq(0 .. n - 1) /\ sampledData' # <<>>
        /\ sampledData'[1] = 0 /\ sampledData'[Len(sampledData')] = p
        /\ Kept(p)' /\ \A k : Kept(k) => Kept(k)'
    BY <2>2, <2>6, <1>1, Taken
  <2>8. ChartTypeOK'
    BY <2>1, <2>2, <2>3, <2>6, <2>7, <1>2 DEF ChartTypeOK
  <2>9. BucketsInTurn'
    <3>1. target > 3 => bucketLow' \in BucketHigh(i)' /\ bucketMiddle' \in BucketHigh(i + 1)'
      <4>1. i + 1 + 1 = i + 2
        BY <1>2
      <4> QED
        BY <4>1, <2>1, <2>2, <2>5 DEF BucketHigh, BucketStart
    <3>2. p < bucketMiddle /\ bucketMiddle < n /\ i + 1 <= target - 2 /\ i + 1 # 0
      BY <2>2, <2>3, <2>4, <1>2
    <3> QED
      BY <2>1, <2>2, <2>5, <2>7, <3>1, <3>2, <1>2 DEF BucketsInTurn
  <2>10. PeakKeptSoFar'
    <3> SUFFICES ASSUME target > 3, NEW k \in 0 .. bucketMiddle - 1, LonePeak(k) PROVE Kept(k)'
      BY <2>2, <1>3 DEF PeakKeptSoFar
    <3>1. CASE k \in 0 .. bucketLow - 1
      <4>1. Kept(k)
        BY <3>1, <2>2, <1>1 DEF PeakKeptSoFar
      <4> QED
        BY <4>1, <2>7
    <3>2. CASE k \in bucketLow .. bucketMiddle - 1
      <4>1. p = k
        BY <3>2, <2>1, <2>2, <1>1, PeakTaken
      <4> QED
        BY <4>1, <2>7
    <3> QED
      BY <3>1, <3>2, <1>2
  <2>11. LonePeakKept'
    BY <2>2 DEF LonePeakKept, Reduced
  <2> QED
    BY <2>7, <2>8, <2>9, <2>10, <2>11 DEF TurnsInv
<1>8. CASE TakeLast
  <2>1. /\ pc = "loop" /\ pc' = "done" /\ i >= target - 2
        /\ sampledData' = Append(sampledData, n - 1)
        /\ UNCHANGED <<points, target, i, bucketLow, bucketMiddle, prevMaxAreaPoint>>
        /\ UNCHANGED input /\ n' = n
    BY <1>8 DEF TakeLast, input, n
  <2>0. PICK last : last = n - 1
    OBVIOUS
  <2>2. last \in 0 .. n - 1 /\ prevMaxAreaPoint < last
    BY <2>0, <2>1, <1>1, <1>2 DEF BucketsInTurn
  <2>3. /\ InOrder' /\ sampledData' \in Seq(0 .. n - 1)
        /\ Kept(last)' /\ \A k : Kept(k) => Kept(k)'
    BY <2>0, <2>1, <2>2, <1>1, Taken
  <2>4. ChartTypeOK'
    BY <2>1, <2>3, <1>2 DEF ChartTypeOK
  <2>5. BucketsInTurn' /\ PeakKeptSoFar'
    BY <2>1 DEF BucketsInTurn, PeakKeptSoFar
  <2>6. LonePeakKept'
    <3> SUFFICES ASSUME target > 3, NEW k \in 0 .. n - 1, k # n - 2, LonePeak(k) PROVE Kept(k)'
      BY <2>1, <1>3 DEF LonePeakKept
    <3>1. bucketLow = n - 2
      <4>1. i = target - 2 /\ bucketLow \in BucketHigh(i) /\ i \in 1 .. target - 1 /\ target < n
        BY <2>1, <1>1, <1>2 DEF BucketsInTurn
      <4> QED
        BY <4>1, <1>2, Buckets
    <3>2. CASE k \in 0 .. n - 3
      <4>1. k \in 0 .. bucketLow - 1
        BY <3>1, <3>2, <1>2
      <4>2. Kept(k)
        BY <4>1, <2>1, <1>1 DEF PeakKeptSoFar
      <4> QED
        BY <4>2, <2>3
    <3>3. CASE k = n - 1
      BY <3>3, <2>0, <2>3
    <3> QED
      BY <3>2, <3>3, <1>2
  <2> QED
    BY <2>3, <2>4, <2>5, <2>6 DEF TurnsInv
<1> QED
  BY <1>4, <1>5, <1>6, <1>7, <1>8 DEF ChartNext, Returned

(* Downsampling takes its points from slices in range and in the order of  *)
(* time, for any points, any target and any rounding of the buckets.       *)
THEOREM ChartInvHolds == ChartSpec => []ChartInv
<1>1. ChartInit => TurnsInv
  BY ChartStart
<1>2. TurnsInv /\ [ChartNext]_chartVars => TurnsInv'
  BY ChartStep
<1>3. TurnsInv => ChartInv
  BY SliceFacts DEF TurnsInv, ChartInv
<1> QED
  BY <1>1, <1>2, <1>3, PTL DEF ChartSpec

(* The chart of any number of points, reduced to any target above three,   *)
(* keeps a lone peak, unless it is the last point but one.                 *)
THEOREM LonePeakIsKept == ChartSpec => []LonePeakKept
<1>1. ChartInit => TurnsInv
  BY ChartStart
<1>2. TurnsInv /\ [ChartNext]_chartVars => TurnsInv'
  BY ChartStep
<1>3. TurnsInv => LonePeakKept
  BY DEF TurnsInv
<1> QED
  BY <1>1, <1>2, <1>3, PTL DEF ChartSpec

-----------------------------------------------------------------------------
(* The matrix of the range query: the chunks and what is sent of them.     *)

(* What a whole multiple of a step leaves, divided by it.                  *)
LEMMA MultipleFacts ==
    ASSUME NEW x \in Int, NEW step \in Nat \ {0}
    PROVE  (step * x) % step = 0
<1> DEFINE p == step * x
           q == p \div step
           r == p % step
<1>1. p \in Int /\ q \in Int /\ r \in Nat /\ r < step /\ p = step * q + r
  BY DivFacts
<1>2. p = step * x
  OBVIOUS
<1> HIDE DEF p, q, r
<1> DEFINE e == x - q
<1>3. e \in Int /\ e * step = r
  <2>1. e \in Int /\ e * step = step * x - step * q
    BY <1>1
  <2> HIDE DEF e
  <2> QED
    BY <2>1, <1>1, <1>2
<1> HIDE DEF e
<1>4. CASE e >= 1
  <2>1. 1 * step <= e * step
    BY <1>4, <1>3, TimesMonotone
  <2> QED
    BY <2>1, <1>3, <1>1
<1>5. CASE e <= 0
  <2>1. e * step <= 0 * step
    BY <1>5, <1>3, TimesMonotone
  <2> QED
    BY <2>1, <1>3, <1>1 DEF r
<1> QED
  BY <1>4, <1>5, <1>3

(* Two starts of chunks that are no more than a chunk apart.               *)
LEMMA NextChunk ==
    ASSUME NEW c \in Nat, NEW d \in Nat, NEW size \in Nat \ {0},
           c % size = 0, d % size = 0, c < d, d <= c + size
    PROVE  d = c + size
<1> DEFINE q == c \div size
           q1 == d \div size
           e == q1 - q
<1>1. q \in Int /\ q1 \in Int /\ c = size * q /\ d = size * q1
  BY DivFacts
<1> HIDE DEF q, q1
<1>2. e \in Int /\ e * size = size * q1 - size * q
  BY <1>1
<1>3. e * size = d - c
  BY <1>1, <1>2
<1> HIDE DEF e
<1>4. CASE e <= 0
  <2>1. e * size <= 0 * size
    BY <1>4, <1>2, TimesMonotone
  <2> QED
    BY <2>1, <1>3
<1>5. CASE e >= 2
  <2>1. 2 * size <= e * size
    BY <1>5, <1>2, TimesMonotone
  <2> QED
    BY <2>1, <1>3
<1>6. CASE e = 1
  <2>1. 1 * size = d - c
    BY <1>6, <1>3
  <2> QED
    BY <2>1
<1> QED
  BY <1>2, <1>4, <1>5, <1>6

(* The chunks that send a time.                                            *)
Sending(t, start, end, step) ==
    {c \in ChunkStarts(start, end) : t \in Steps(c, ChunkEnd(c, end), step)}

(* A time is in one chunk, or, where a chunk ends and the next starts, in  *)
(* two.                                                                    *)
LEMMA CopiesFacts ==
    ASSUME NEW end \in Nat, NEW step \in Nat \ {0}, NEW t \in 0 .. end
    PROVE  /\ Copies(t, 0, end, step) \in {0, 1, 2}
           /\ Copies(t, 0, end, step) = 0 <=> Sending(t, 0, end, step) = {}
           /\ Copies(t, 0, end, step) = 2 => t \in ChunkStarts(0, end)
<1> DEFINE size == maxChunkDuration
           K == Sending(t, 0, end, step)
<1>0. size \in Nat \ {0}
  BY GridAssumption
<1>1. Copies(t, 0, end, step) = Cardinality(K)
  BY DEF Copies, Sending
<1>2. ASSUME NEW c \in K
      PROVE  c \in ChunkStarts(0, end) /\ c \in Nat /\ c <= t /\ t <= c + size /\ c % size = 0
  BY <1>2, <1>0 DEF Sending, Steps, ChunkStarts, ChunkEnd
<1>3. ASSUME NEW c \in K, NEW d \in K, c < d PROVE d = t
  <2>1. d <= c + size
    BY <1>2, <1>0
  <2>2. d = c + size
    BY <2>1, <1>2, <1>3, <1>0, NextChunk
  <2> QED
    BY <2>2, <1>2, <1>0
<1> HIDE DEF K
<1>4. \E c \in K \cup {t} : K \subseteq {c, t}
  <2>1. CASE K \subseteq {t}
    BY <2>1
  <2>2. CASE \E c \in K : c # t
    <3>1. PICK c \in K : c # t
      BY <2>2
    <3>2. ASSUME NEW d \in K, d # t PROVE d = c
      BY <3>1, <3>2, <1>2, <1>3
    <3> QED
      BY <3>1, <3>2
  <2> QED
    BY <2>1, <2>2
<1>5. PICK c \in K \cup {t} : K \subseteq {c, t}
  BY <1>4
<1>6. K = {} \/ K = {c} \/ K = {t} \/ (K = {c, t} /\ c # t /\ t \in K)
  BY <1>5
<1>7. Cardinality({}) = 0 /\ Cardinality({c}) = 1 /\ Cardinality({t}) = 1
  BY FS_EmptySet, FS_Singleton
<1>8. ASSUME c # t PROVE Cardinality({c, t}) = 2
  <2>1. Cardinality({c} \cup {t}) = Cardinality({c}) + 1
    BY <1>8, FS_Singleton, FS_AddElement
  <2>2. {c} \cup {t} = {c, t}
    OBVIOUS
  <2> QED
    BY <2>1, <2>2, <1>7
<1>9. /\ Cardinality(K) \in {0, 1, 2}
      /\ Cardinality(K) = 0 <=> K = {}
      /\ Cardinality(K) = 2 => t \in K
  <2>1. CASE K = {}
    BY <2>1, <1>7
  <2>2. CASE K = {c}
    BY <2>2, <1>7
  <2>3. CASE K = {t}
    BY <2>3, <1>7
  <2>4. CASE K = {c, t} /\ c # t /\ t \in K
    BY <2>4, <1>8
  <2> QED
    BY <1>6, <2>1, <2>2, <2>3, <2>4
<1>10. t \in K => t \in ChunkStarts(0, end)
  BY <1>2
<1>11. Copies(t, 0, end, step) = 0 <=> Sending(t, 0, end, step) = {}
  BY <1>1, <1>9 DEF K
<1> QED
  BY <1>1, <1>9, <1>10, <1>11

(* Where the step divides the chunk, what is sent are the steps.           *)
LEMMA StepsAreSent ==
    ASSUME NEW end \in Nat, NEW step \in Nat \ {0}, maxChunkDuration % step = 0,
           NEW t \in 0 .. end
    PROVE  Sending(t, 0, end, step) # {} <=> t % step = 0
<1> DEFINE size == maxChunkDuration
           b == size \div step
<1>0. size \in Nat \ {0}
  BY GridAssumption
<1>1. b \in Int /\ size = step * b
  BY <1>0, DivFacts
<1>2. \A c \in ChunkStarts(0, end) : c \in 0 .. end /\ c % size = 0
  BY DEF ChunkStarts, Steps
<1>2a. \A c \in 0 .. end : c % size = 0 => c \in ChunkStarts(0, end)
  BY DEF ChunkStarts, Steps
<1> HIDE DEF b
<1>3. ASSUME NEW c \in ChunkStarts(0, end) PROVE \E k \in Int : c = step * k
  <2> DEFINE q == c \div size
  <2>1. q \in Int /\ c = size * q
    BY <1>2, <1>0, DivFacts
  <2> HIDE DEF q, size
  <2>2. b * q \in Int /\ c = step * (b * q)
    BY <2>1, <1>1
  <2> QED
    BY <2>2
<1>4. ASSUME NEW c \in Sending(t, 0, end, step) PROVE t % step = 0
  <2>1. c \in ChunkStarts(0, end) /\ (t - c) % step = 0 /\ t - c \in Int
    BY <1>2 DEF Sending, Steps
  <2>2. PICK k \in Int : c = step * k
    BY <2>1, <1>3
  <2> DEFINE r == (t - c) \div step
  <2>3. r \in Int /\ t - c = step * r
    BY <2>1, DivFacts
  <2> HIDE DEF r
  <2>4. t = step * (k + r) /\ k + r \in Int
    BY <2>2, <2>3, <2>1, <1>2
  <2> QED
    BY <2>4, MultipleFacts
<1>5. ASSUME t % step = 0 PROVE Sending(t, 0, end, step) # {}
  <2> DEFINE q == t \div size
             c == size * q
  <2>1. q \in Nat /\ t = size * q + (t % size) /\ t % size \in Nat /\ t % size < size
    BY <1>0, DivFacts
  <2>2. c \in Int /\ c <= t /\ t < c + size
    BY <2>1, <1>0
  <2>3. c >= 0 /\ c % size = 0
    <3> HIDE DEF q, size
    <3>1. 0 * size <= q * size
      BY <2>1, <1>0, TimesMonotone
    <3> QED
      BY <3>1, <2>1, <1>0, MultipleFacts
  <2> HIDE DEF c
  <2>4. c \in ChunkStarts(0, end)
    BY <2>2, <2>3, <1>2a
  <2>5. PICK k \in Int : c = step * k
    BY <2>4, <1>3
  <2> DEFINE a == t \div step
  <2>6. a \in Int /\ t = step * a
    BY <1>5, DivFacts
  <2> HIDE DEF a
  <2>7. t - c = step * (a - k) /\ a - k \in Int
    BY <2>5, <2>6
  <2>8. (t - c) % step = 0
    BY <2>7, MultipleFacts
  <2>9. t \in c .. ChunkEnd(c, end)
    BY <2>2, <1>0 DEF ChunkEnd
  <2>10. c \in Sending(t, 0, end, step)
    BY <2>4, <2>8, <2>9 DEF Sending, Steps
  <2> QED
    BY <2>10
<1> QED
  BY <1>4, <1>5

(* flat[j] is the first j of the sequences joined, up to m.                *)
Joined(ss, T, flat, m) ==
    /\ flat \in [1 .. m -> Seq(T)]
    /\ \A j \in 1 .. m : flat[j] = IF j = 1 THEN ss[j] ELSE flat[j - 1] \o ss[j]

(* One more sequence is joined.                                            *)
LEMMA JoinMore ==
    ASSUME NEW T, NEW ss \in Seq(Seq(T)), NEW m \in Nat, m + 1 <= Len(ss),
           NEW flat, Joined(ss, T, flat, m)
    PROVE  \E more : Joined(ss, T, more, m + 1)
<1> DEFINE more == [j \in 1 .. m + 1 |-> IF j = 1 THEN ss[j] ELSE flat[j - 1] \o ss[j]]
<1>0. /\ \A j \in 1 .. m + 1 : more[j] = IF j = 1 THEN ss[j] ELSE flat[j - 1] \o ss[j]
      /\ more = [j \in 1 .. m + 1 |-> more[j]]
  OBVIOUS
<1> HIDE DEF more
<1>1. ASSUME NEW j \in 1 .. m PROVE more[j] = flat[j]
  <2>1. flat[j] = IF j = 1 THEN ss[j] ELSE flat[j - 1] \o ss[j]
    BY DEF Joined
  <2>2. j \in 1 .. m + 1
    OBVIOUS
  <2> QED
    BY <2>1, <2>2, <1>0, Zenon
<1>2. ASSUME NEW j \in 1 .. m + 1
      PROVE  more[j] \in Seq(T) /\ more[j] = IF j = 1 THEN ss[j] ELSE more[j - 1] \o ss[j]
  <2>1. ss[j] \in Seq(T)
    OBVIOUS
  <2>2. CASE j = 1
    BY <2>1, <2>2, <1>0
  <2>3. CASE j # 1
    <3>1. j - 1 \in 1 .. m
      BY <2>3
    <3>2. flat[j - 1] \in Seq(T)
      BY <3>1 DEF Joined
    <3>3. more[j] = flat[j - 1] \o ss[j] /\ more[j - 1] = flat[j - 1]
      BY <3>1, <2>3, <1>0, <1>1, Zenon
    <3>4. more[j] = more[j - 1] \o ss[j]
      BY <3>3, Zenon
    <3>5. flat[j - 1] \o ss[j] \in Seq(T)
      BY <3>2, <2>1
    <3> QED
      BY <3>3, <3>4, <3>5, <2>3, Zenon
  <2> QED
    BY <2>2, <2>3
<1>4. Joined(ss, T, more, m + 1)
  BY <1>0, <1>2 DEF Joined
<1> QED
  BY <1>4

(* What holds of the first sequence, and stays as the next one is appended,*)
(* holds of all of them joined.                                            *)
LEMMA FlattenInduction ==
    ASSUME NEW T, NEW ss \in Seq(Seq(T)), ss # <<>>, NEW R,
           <<1, ss[1]>> \in R,
           \A m \in 1 .. Len(ss) - 1 : \A x \in Seq(T) :
              <<m, x>> \in R => <<m + 1, x \o ss[m + 1]>> \in R
    PROVE  FlattenSeq(ss) \in Seq(T) /\ <<Len(ss), FlattenSeq(ss)>> \in R
<1> DEFINE size == Len(ss)
           U == {m \in Nat : m <= size => \E flat : Joined(ss, T, flat, m)}
<1>1. size \in Nat \ {0}
  OBVIOUS
<1>2. 0 \in U
  <2>1. Joined(ss, T, [j \in 1 .. 0 |-> <<>>], 0)
    BY DEF Joined
  <2> QED
    BY <2>1
<1>3. ASSUME NEW m \in Nat, m \in U PROVE m + 1 \in U
  <2> SUFFICES ASSUME m + 1 <= size PROVE \E more : Joined(ss, T, more, m + 1)
    OBVIOUS
  <2>1. PICK flat : Joined(ss, T, flat, m)
    BY <1>3, <1>1
  <2> QED
    BY <2>1, JoinMore
<1>4. size \in U
  <2> HIDE DEF U
  <2>1. Nat \subseteq U
    BY <1>2, <1>3, NatInd
  <2> QED
    BY <2>1, <1>1
<1>5. PICK g : Joined(ss, T, g, size)
  BY <1>4, <1>1
<1> DEFINE flatten == CHOOSE f : f = [j \in 1 .. size |-> IF j = 1 THEN ss[j] ELSE f[j - 1] \o ss[j]]
<1>6. g = [j \in 1 .. size |-> IF j = 1 THEN ss[j] ELSE g[j - 1] \o ss[j]]
  BY <1>5 DEF Joined
<1>7. flatten = [j \in 1 .. size |-> IF j = 1 THEN ss[j] ELSE flatten[j - 1] \o ss[j]]
  BY <1>6
<1>8. FlattenSeq(ss) = flatten[size]
  BY <1>1 DEF FlattenSeq
<1> HIDE DEF flatten
<1> DEFINE W == {m \in Nat : m + 1 <= size => flatten[m + 1] \in Seq(T) /\ <<m + 1, flatten[m + 1]>> \in R}
<1>9. \A j \in 1 .. size : flatten[j] = IF j = 1 THEN ss[j] ELSE flatten[j - 1] \o ss[j]
  BY <1>7
<1>10. 0 \in W
  <2>1. flatten[0 + 1] = ss[1] /\ ss[1] \in Seq(T) /\ 0 + 1 = 1
    BY <1>1, <1>9
  <2> QED
    BY <2>1
<1>11. ASSUME NEW m \in Nat, m \in W PROVE m + 1 \in W
  <2> SUFFICES ASSUME m + 1 + 1 <= size
               PROVE  flatten[m + 1 + 1] \in Seq(T) /\ <<m + 1 + 1, flatten[m + 1 + 1]>> \in R
    OBVIOUS
  <2> DEFINE l == m + 1 + 1
  <2>1. l \in 1 .. size /\ l - 1 = m + 1 /\ l # 1
    BY <1>1
  <2>2. flatten[l - 1] \in Seq(T) /\ <<l - 1, flatten[l - 1]>> \in R /\ ss[l] \in Seq(T)
    BY <1>11, <1>1, <2>1
  <2>2a. l - 1 \in 1 .. Len(ss) - 1 /\ l - 1 + 1 = l
    BY <1>1, <2>1
  <2> HIDE DEF l
  <2>3. flatten[l] = flatten[l - 1] \o ss[l]
    BY <2>1, <1>9
  <2>4. flatten[l] \in Seq(T)
    BY <2>2, <2>3
  <2>5. <<l - 1 + 1, flatten[l - 1] \o ss[l - 1 + 1]>> \in R
    BY <2>2, <2>2a
  <2>6. <<l, flatten[l]>> \in R
    BY <2>5, <2>2a, <2>3, Zenon
  <2> QED
    BY <2>4, <2>6 DEF l
<1>12. size - 1 \in W
  <2> HIDE DEF W
  <2>1. Nat \subseteq W
    BY <1>10, <1>11, NatInd
  <2> QED
    BY <2>1, <1>1
<1> QED
  BY <1>8, <1>12, <1>1

(* The samples of the times before m, sorted.                              *)
Sampled(end, step, times, m, x) ==
    /\ x \in Seq(Times) /\ Ascending(x)
    /\ \A j \in 1 .. Len(x) : x[j] < m /\ x[j] \in times /\ Sending(x[j], 0, end, step) # {}
    /\ \A t \in times : t < m /\ Sending(t, 0, end, step) # {} => \E j \in 1 .. Len(x) : x[j] = t
    /\ \A j \in 1 .. Len(x) - 1 :
          \/ x[j] < x[j + 1]
          \/ /\ x[j] = x[j + 1] /\ x[j] \in ChunkStarts(0, end)
             /\ j + 2 <= Len(x) => x[j + 2] > x[j]

(* The elements of two sequences joined.                                   *)
LEMMA ConcatFacts ==
    ASSUME NEW T, NEW x \in Seq(T), NEW y \in Seq(T)
    PROVE  /\ x \o y \in Seq(T) /\ Len(x) \in Nat /\ Len(y) \in Nat
           /\ Len(x \o y) = Len(x) + Len(y)
           /\ \A j \in 1 .. Len(x) : (x \o y)[j] = x[j]
           /\ \A j \in Len(x) + 1 .. Len(x) + Len(y) : (x \o y)[j] = y[j - Len(x)]
OBVIOUS

(* The samples of one more time are appended.                              *)
LEMMA SampleMore ==
    ASSUME NEW end \in Nat, end <= MaxTime, NEW step \in Nat \ {0}, NEW times \in SUBSET Times,
           NEW t \in 0 .. end,
           NEW x, Sampled(end, step, times, t, x),
           NEW y \in Seq(Times), Len(y) = (IF t \in times THEN Copies(t, 0, end, step) ELSE 0),
           \A j \in 1 .. Len(y) : y[j] = t
    PROVE  Sampled(end, step, times, t + 1, x \o y)
<1> DEFINE z == x \o y
           a == Len(x)
           k == Len(y)
<1>1. x \in Seq(Times) /\ \A j \in 1 .. a : x[j] \in Times
  BY DEF Sampled
<1>2. /\ z \in Seq(Times) /\ a \in Nat /\ Len(z) = a + k
      /\ \A j \in 1 .. a : z[j] = x[j]
      /\ \A j \in a + 1 .. a + k : z[j] = t
  <2>1. \A j \in a + 1 .. a + k : z[j] = y[j - a]
    BY <1>1, ConcatFacts
  <2>2. k \in Nat /\ \A j \in a + 1 .. a + k : j - a \in 1 .. k
    BY <1>1
  <2>3. \A j \in a + 1 .. a + k : z[j] = t
    BY <2>1, <2>2
  <2>4. z \in Seq(Times) /\ a \in Nat /\ Len(z) = a + k /\ \A j \in 1 .. a : z[j] = x[j]
    BY <1>1, ConcatFacts
  <2> QED
    BY <2>3, <2>4
<1>3. /\ k \in {0, 1, 2}
      /\ k # 0 => t \in times /\ Sending(t, 0, end, step) # {}
      /\ t \in times /\ Sending(t, 0, end, step) # {} => k # 0
      /\ k = 2 => t \in ChunkStarts(0, end)
  BY CopiesFacts
<1>4. t \in Times /\ t \in Nat
  BY GridAssumption DEF Times
<1>5. \A j \in 1 .. a : x[j] \in Nat /\ x[j] < t
  BY <1>1 DEF Sampled, Times
<1> HIDE DEF z, a, k
<1>6. Ascending(z)
  <2> SUFFICES ASSUME NEW j \in 1 .. Len(z), NEW l \in 1 .. Len(z), j <= l PROVE z[j] <= z[l]
    BY DEF Ascending
  <2>1. CASE l <= a
    <3>1. x[j] <= x[l]
      BY <2>1, <1>2 DEF Sampled, Ascending, a
    <3> QED
      BY <3>1, <2>1, <1>2
  <2>2. CASE l > a
    BY <2>2, <1>2, <1>4, <1>5, <1>3
  <2> QED
    BY <2>1, <2>2, <1>2, <1>3
<1>7. \A j \in 1 .. Len(z) : z[j] < t + 1 /\ z[j] \in times /\ Sending(z[j], 0, end, step) # {}
  <2> SUFFICES ASSUME NEW j \in 1 .. Len(z)
               PROVE  z[j] < t + 1 /\ z[j] \in times /\ Sending(z[j], 0, end, step) # {}
    OBVIOUS
  <2>1. CASE j <= a
    BY <2>1, <1>2, <1>4, <1>5 DEF Sampled, a
  <2>2. CASE j > a
    BY <2>2, <1>2, <1>3, <1>4
  <2> QED
    BY <2>1, <2>2, <1>2, <1>3
<1>8. ASSUME NEW u \in times, u < t + 1, Sending(u, 0, end, step) # {}
      PROVE  \E j \in 1 .. Len(z) : z[j] = u
  <2>1. CASE u = t
    <3>1. a + 1 \in 1 .. Len(z) /\ z[a + 1] = t
      BY <2>1, <1>8, <1>2, <1>3
    <3> QED
      BY <3>1, <2>1
  <2>2. CASE u # t
    <3>1. u < t
      BY <2>2, <1>8, <1>4 DEF Times
    <3>2. PICK j \in 1 .. a : x[j] = u
      BY <3>1, <1>8 DEF Sampled, a
    <3> QED
      BY <3>2, <1>2, <1>3
  <2> QED
    BY <2>1, <2>2
<1>9. ASSUME NEW j \in 1 .. Len(z) - 1
      PROVE  \/ z[j] < z[j + 1]
             \/ /\ z[j] = z[j + 1] /\ z[j] \in ChunkStarts(0, end)
                /\ j + 2 <= Len(z) => z[j + 2] > z[j]
  <2>1. CASE j < a
    <3>1. \/ x[j] < x[j + 1]
          \/ /\ x[j] = x[j + 1] /\ x[j] \in ChunkStarts(0, end)
             /\ j + 2 <= a => x[j + 2] > x[j]
      BY <2>1, <1>2 DEF Sampled, a
    <3>2. z[j] = x[j] /\ z[j + 1] = x[j + 1] /\ (j + 2 <= a => z[j + 2] = x[j + 2])
      BY <2>1, <1>2
    <3>3. j + 2 <= Len(z) /\ ~(j + 2 <= a) => z[j + 2] > z[j]
      BY <2>1, <1>2, <1>3, <1>4, <1>5
    <3> QED
      BY <3>1, <3>2, <3>3, Zenon
  <2>2. CASE j = a
    <3>1. j \in 1 .. a /\ j + 1 \in a + 1 .. a + k
      BY <2>2, <1>2, <1>3
    <3>2. z[j] < t /\ z[j + 1] = t
      BY <3>1, <1>2, <1>5
    <3> QED
      BY <3>2
  <2>3. CASE j > a
    BY <2>3, <1>2, <1>3, <1>4
  <2> QED
    BY <2>1, <2>2, <2>3, <1>2, <1>3
<1> QED
  BY <1>2, <1>6, <1>7, <1>8, <1>9 DEF Sampled, z

(* The samples of all times of the range, sorted: SampleTimes is flattened *)
(* from a sequence for every time.                                         *)
LEMMA SampleTimesFacts ==
    ASSUME NEW end \in Int, end <= MaxTime, NEW step \in Nat \ {0}, NEW times \in SUBSET Times
    PROVE  Sampled(end, step, times, end + 1, SampleTimes(0, end, step, times)) \/
           (end < 0 /\ SampleTimes(0, end, step, times) = <<>>)
<1> DEFINE size(t) == IF t \in times THEN Copies(t, 0, end, step) ELSE 0
           sent(t) == [k \in 1 .. size(t) |-> t]
           ss == [j \in 1 .. end - 0 + 1 |-> sent(0 + j - 1)]
<1>1. SampleTimes(0, end, step, times) = FlattenSeq(ss)
  BY DEF SampleTimes
<1>2. CASE end < 0
  <2>1. ss = <<>>
    BY <1>2
  <2>2. FlattenSeq(<<>>) = <<>>
    BY DEF FlattenSeq
  <2> HIDE DEF ss
  <2> QED
    BY <1>1, <1>2, <2>1, <2>2
<1>3. CASE end >= 0
  <2>0. end \in Nat /\ Times = 0 .. MaxTime /\ MaxTime \in Nat
    BY <1>3, GridAssumption DEF Times
  <2>1. \A t \in 0 .. end : size(t) \in Nat
    BY <2>0, CopiesFacts
  <2>2. ASSUME NEW t \in 0 .. end
        PROVE  /\ sent(t) \in Seq(Times) /\ Len(sent(t)) = size(t)
               /\ \A k \in 1 .. Len(sent(t)) : sent(t)[k] = t
    <3>1. t \in Times /\ size(t) \in Nat
      BY <2>0, <2>1
    <3> HIDE DEF size
    <3> QED
      BY <3>1
  <2> HIDE DEF sent
  <2>3. \A j \in 1 .. end + 1 : 0 + j - 1 = j - 1 /\ j - 1 \in 0 .. end
    BY <2>0
  <2>4. ss \in Seq(Seq(Times)) /\ Len(ss) = end + 1
    BY <2>0, <2>2, <2>3
  <2>5. \A j \in 1 .. end + 1 : ss[j] = sent(j - 1)
    BY <2>0, <2>3
  <2>6. ss # <<>>
    BY <2>4, <2>0
  <2> HIDE DEF ss
  <2> DEFINE R == {r \in (1 .. end + 1) \X Seq(Times) : Sampled(end, step, times, r[1], r[2])}
  <2>7. ASSUME NEW t \in 0 .. end, NEW x, Sampled(end, step, times, t, x)
        PROVE  Sampled(end, step, times, t + 1, x \o ss[t + 1])
    <3>1. /\ ss[t + 1] \in Seq(Times) /\ Len(ss[t + 1]) = size(t)
          /\ \A k \in 1 .. Len(ss[t + 1]) : ss[t + 1][k] = t
      <4>1. t + 1 \in 1 .. end + 1 /\ t + 1 - 1 = t
        BY <2>0
      <4>2. ss[t + 1] = sent(t)
        BY <4>1, <2>5
      <4> QED
        BY <4>2, <2>2
    <3> QED
      BY <2>0, <2>7, <3>1, SampleMore
  <2>8. Sampled(end, step, times, 0, <<>>)
    BY <2>0 DEF Sampled, Ascending, Times
  <2>9. <<1, ss[1]>> \in R
    <3>1. 0 \in 0 .. end /\ ss[1] \in Seq(Times)
      BY <2>0, <2>4
    <3>2. <<>> \o ss[1] = ss[1]
      BY <3>1
    <3>3. Sampled(end, step, times, 0 + 1, <<>> \o ss[0 + 1])
      BY <3>1, <2>7, <2>8
    <3>4. Sampled(end, step, times, 1, ss[1])
      BY <3>2, <3>3
    <3> QED
      BY <3>1, <3>4, <2>0
  <2>10. ASSUME NEW m \in 1 .. Len(ss) - 1, NEW x \in Seq(Times), <<m, x>> \in R
         PROVE  <<m + 1, x \o ss[m + 1]>> \in R
    <3>1. m \in 0 .. end /\ Sampled(end, step, times, m, x)
      BY <2>10, <2>4, <2>0
    <3>2. Sampled(end, step, times, m + 1, x \o ss[m + 1])
      BY <3>1, <2>7
    <3>3. x \o ss[m + 1] \in Seq(Times)
      BY <3>2 DEF Sampled
    <3>4. m + 1 \in 1 .. end + 1
      BY <3>1, <2>4, <2>0
    <3> DEFINE y == x \o ss[m + 1]
    <3>5. Sampled(end, step, times, m + 1, y) /\ y \in Seq(Times)
      BY <3>2, <3>3
    <3> HIDE DEF y
    <3>6. <<m + 1, y>> \in R
      BY <3>4, <3>5
    <3> QED
      BY <3>6 DEF y
  <2>11. <<Len(ss), FlattenSeq(ss)>> \in R
    <3> HIDE DEF R
    <3> QED
      BY <2>4, <2>6, <2>9, <2>10, FlattenInduction
  <2> QED
    BY <2>11, <2>4, <1>1
<1> QED
  BY <1>2, <1>3

-----------------------------------------------------------------------------
(* Searching the matrix, and what becomes of an alert.                     *)

(* The least of a set of natural numbers is in it and below the others.    *)
LEMMA MinFacts ==
    ASSUME NEW T, T \subseteq Nat, T # {}
    PROVE  Min(T) \in T /\ \A k \in T : Min(T) <= k
<1>1. \E m \in T : \A k \in T : m <= k
  BY LeastNat
<1> QED
  BY <1>1 DEF Min

(* The rest of the points from a place on: searching finds the time, if it *)
(* is there at all, as long as the place is before it.                     *)
LEMMA CandidateFacts ==
    ASSUME entry \in [Series -> Seq(Times)], NEW s \in Series, NEW t,
           NEW place \in [Series -> Nat], Candidates(place, s, t) # {}
    PROVE  /\ Min(Candidates(place, s, t)) \in place[s] + 1 .. Len(entry[s])
           /\ entry[s][Min(Candidates(place, s, t))] >= t
           /\ \A k \in Candidates(place, s, t) : Min(Candidates(place, s, t)) <= k
<1>1. Len(entry[s]) \in Nat /\ place[s] \in Nat
  OBVIOUS
<1>2. Candidates(place, s, t) \subseteq place[s] + 1 .. Len(entry[s])
  BY DEF Candidates
<1>3. \A k \in Candidates(place, s, t) : entry[s][k] >= t
  BY DEF Candidates
<1> DEFINE C == Candidates(place, s, t)
<1>4. C \subseteq Nat
  BY <1>1, <1>2
<1> HIDE DEF C
<1>5. Min(C) \in C /\ \A k \in C : Min(C) <= k
  BY <1>4, MinFacts DEF C
<1> QED
  BY <1>2, <1>3, <1>5 DEF C

(* Searching from a place before a time finds the time where the series    *)
(* has a sample of it.                                                     *)
LEMMA Lookup ==
    ASSUME entry \in [Series -> Seq(Times)], NEW s \in Series, Ascending(entry[s]),
           NEW t \in Times, NEW place \in [Series -> Nat], place[s] <= Len(entry[s]),
           place[s] = 0 \/ entry[s][place[s]] < t
    PROVE  Found(place, s, t) <=> t \in PointSet(s)
<1> DEFINE C == Candidates(place, s, t)
           points_s == entry[s]
<1>1. points_s \in Seq(Times) /\ Len(points_s) \in Nat /\ place[s] \in Nat /\ t \in Nat
      /\ \A k \in 1 .. Len(points_s) : points_s[k] \in Nat
  BY GridAssumption DEF Times
<1>2. ASSUME Found(place, s, t) PROVE t \in PointSet(s)
  <2>1. C # {} /\ points_s[Min(C)] = t
    BY <1>2 DEF Found
  <2>2. Min(C) \in place[s] + 1 .. Len(points_s)
    BY <2>1, CandidateFacts
  <2> HIDE DEF C
  <2>3. Min(C) \in 1 .. Len(points_s)
    BY <2>2, <1>1
  <2> QED
    BY <2>1, <2>3 DEF PointSet
<1>3. ASSUME t \in PointSet(s) PROVE Found(place, s, t)
  <2>1. PICK k \in 1 .. Len(points_s) : points_s[k] = t
    BY <1>3 DEF PointSet
  <2>2. k > place[s]
    <3>1. CASE place[s] = 0
      BY <3>1
    <3>2. CASE place[s] # 0 /\ k <= place[s]
      <4>1. place[s] \in 1 .. Len(points_s)
        BY <3>2, <1>1
      <4>2. points_s[k] <= points_s[place[s]]
        BY <4>1, <3>2 DEF Ascending
      <4> QED
        BY <4>1, <4>2, <3>2, <2>1, <1>1
    <3> QED
      BY <3>1, <3>2, <1>1
  <2>3. k \in C
    BY <2>1, <2>2, <1>1 DEF Candidates
  <2>4. /\ Min(C) \in place[s] + 1 .. Len(points_s) /\ points_s[Min(C)] >= t /\ Min(C) <= k
    BY <2>3, CandidateFacts
  <2> DEFINE m == Min(C)
  <2> HIDE DEF m, C
  <2>5. m \in 1 .. Len(points_s) /\ points_s[m] >= t /\ m <= k
    BY <2>4, <1>1 DEF m
  <2>6. points_s[m] <= points_s[k]
    BY <2>5, <2>1 DEF Ascending
  <2>7. points_s[m] = t
    BY <2>5, <2>6, <2>1, <1>1
  <2> QED
    BY <2>3, <2>7 DEF Found, m, C
<1> QED
  BY <1>2, <1>3

(* A place a search has got to, not beyond a time.                         *)
NotBeyond(place, t) ==
    \A s \in Series : /\ place[s] \in 0 .. Len(entry[s])
                      /\ place[s] = 0 \/ entry[s][place[s]] <= t

(* A search for a time ends at a place not beyond it.                      *)
LEMMA AdvanceFacts ==
    ASSUME entry \in [Series -> Seq(Times)], NEW t \in Times,
           NEW place \in [Series -> Nat], NotBeyond(place, t)
    PROVE  Advance(place, t) \in [Series -> Nat] /\ NotBeyond(Advance(place, t), t)
<1> SUFFICES ASSUME NEW s \in Series
             PROVE  LET l == Advance(place, t)[s]
                    IN  /\ l \in Nat /\ l \in 0 .. Len(entry[s])
                        /\ l = 0 \/ entry[s][l] <= t
  BY DEF Advance, NotBeyond
<1>1. Advance(place, t)[s] = IF Found(place, s, t) THEN Min(Candidates(place, s, t)) ELSE place[s]
  BY DEF Advance
<1>2. Len(entry[s]) \in Nat /\ place[s] \in Nat /\ t \in Nat
  BY GridAssumption DEF Times
<1>3. CASE Found(place, s, t)
  <2>1. Candidates(place, s, t) # {} /\ entry[s][Min(Candidates(place, s, t))] = t
    BY <1>3 DEF Found
  <2>2. Min(Candidates(place, s, t)) \in place[s] + 1 .. Len(entry[s])
    BY <2>1, CandidateFacts
  <2> QED
    BY <2>1, <2>2, <1>1, <1>2, <1>3
<1>4. CASE ~Found(place, s, t)
  BY <1>1, <1>2, <1>4 DEF NotBeyond
<1> QED
  BY <1>3, <1>4

-----------------------------------------------------------------------------
(* At t a pending alert a is held long enough and fires.                   *)
BecomesFiring(a, p, t) ==
    /\ p \in Alerts /\ p.state = "firing" /\ p.activeAt = a.activeAt
    /\ p.firedAt = t /\ p.resolvedAt = Never /\ t - a.activeAt >= holdDuration

(* At t a firing alert a is resolved.                                      *)
BecomesResolved(a, p, t) ==
    /\ p \in Alerts /\ p.state = "inactive" /\ p.activeAt = a.activeAt
    /\ p.firedAt = a.firedAt /\ p.resolvedAt = t

(* At t a new alert begins.                                                *)
Begins(p, t) ==
    /\ p \in Alerts /\ p.activeAt = t /\ p.resolvedAt = Never
    /\ \/ p.state = "pending" /\ p.firedAt = Never /\ holdDuration > 0
       \/ p.state = "firing" /\ p.firedAt = t /\ holdDuration = 0

(* What becomes of an alert at a time at which its series is there.        *)
Here(a, p, t) ==
    \/ a.state = "firing" /\ p = a
    \/ a.state = "pending" /\ p = a /\ t - a.activeAt < holdDuration
    \/ a.state = "pending" /\ BecomesFiring(a, p, t)
    \/ a.state \in {"none", "inactive"} /\ Begins(p, t)

(* What becomes of it at a time at which its series is not there.          *)
Gone(a, p, t) ==
    \/ a.state = "pending" /\ p = NoAlert
    \/ a.state = "firing" /\ BecomesResolved(a, p, t)
    \/ a.state = "inactive" /\ p \in {a, NoAlert}
    \/ a.state = "none" /\ p = NoAlert

(* No alert is none of the alerts; and the times of alerts are times or    *)
(* never.                                                                  *)
LEMMA NoAlertFacts ==
    /\ NoAlert.state = "none" /\ NoAlert.activeAt = Never /\ NoAlert.firedAt = Never
    /\ NoAlert.resolvedAt = Never /\ NoAlert \notin Alerts
    /\ \A a \in Alerts : /\ a.state \in {"pending", "firing", "inactive"}
                         /\ a.activeAt \in Times /\ a.firedAt \in Times \cup {Never}
                         /\ a.resolvedAt \in Times \cup {Never}
    /\ \A u \in Times : u \in Nat /\ u # Never
  BY GridAssumption DEF NoAlert, Alerts, Times, Never

(* What Present makes of an alert.                                         *)
LEMMA PresentOutcome ==
    ASSUME NEW a \in Alerts \cup {NoAlert}, a # NoAlert => Lifecycle(a), NEW t \in Times,
           holdDuration \in Nat
    PROVE  Here(a, Present(a, t), t)
<1> DEFINE start == [NoAlert EXCEPT !.state = "pending", !.activeAt = t]
<1>0. t \in Nat /\ t - t = 0
  BY NoAlertFacts
<1>1. start \in Alerts /\ start.state = "pending" /\ start.activeAt = t
      /\ start.firedAt = Never /\ start.resolvedAt = Never
  BY DEF Alerts, NoAlert
<1> HIDE DEF start
<1>2. ASSUME NEW b \in Alerts, b.state = "pending", t - b.activeAt >= holdDuration
      PROVE  /\ Fires(b, t) \in Alerts /\ Fires(b, t).state = "firing"
             /\ Fires(b, t).activeAt = b.activeAt /\ Fires(b, t).firedAt = t
             /\ Fires(b, t).resolvedAt = b.resolvedAt
  <2>1. Fires(b, t) = [b EXCEPT !.state = "firing", !.firedAt = t]
    BY <1>2 DEF Fires
  <2> QED
    BY <2>1 DEF Alerts
<1>3. ASSUME NEW b \in Alerts, b.state # "pending" \/ ~(t - b.activeAt >= holdDuration)
      PROVE  Fires(b, t) = b
  BY <1>3 DEF Fires
<1>4. CASE a.state = "firing"
  <2>1. a \in Alerts /\ Present(a, t) = Fires(a, t)
    BY <1>4, NoAlertFacts DEF Present
  <2> QED
    BY <2>1, <1>3, <1>4 DEF Here
<1>5. CASE a.state = "pending"
  <2>1. a \in Alerts /\ Present(a, t) = Fires(a, t) /\ a.activeAt \in Nat /\ a.resolvedAt = Never
    BY <1>5, NoAlertFacts DEF Present, Lifecycle
  <2>2. CASE t - a.activeAt >= holdDuration
    <3>1. BecomesFiring(a, Present(a, t), t)
      BY <2>1, <2>2, <1>2, <1>5 DEF BecomesFiring
    <3> QED
      BY <3>1, <1>5 DEF Here
  <2>3. CASE ~(t - a.activeAt >= holdDuration)
    <3>1. Present(a, t) = a
      BY <2>1, <2>3, <1>3
    <3>2. t - a.activeAt < holdDuration
      BY <2>1, <2>3, <1>0
    <3> QED
      BY <3>1, <3>2, <1>5 DEF Here
  <2> QED
    BY <2>2, <2>3
<1>6. CASE a.state \in {"none", "inactive"}
  <2>1. Present(a, t) = Fires(start, t)
    BY <1>6 DEF Present, start
  <2>2. CASE holdDuration = 0
    <3>1. Begins(Present(a, t), t)
      BY <2>1, <2>2, <1>1, <1>2, <1>0 DEF Begins
    <3> QED
      BY <3>1, <1>6 DEF Here
  <2>3. CASE holdDuration > 0
    <3>1. Begins(Present(a, t), t)
      BY <2>1, <2>3, <1>1, <1>3, <1>0 DEF Begins
    <3> QED
      BY <3>1, <1>6 DEF Here
  <2>4. holdDuration = 0 \/ holdDuration > 0
    OBVIOUS
  <2> QED
    BY <2>2, <2>3, <2>4
<1>7. a.state \in {"pending", "firing", "inactive", "none"}
  BY NoAlertFacts
<1> QED
  BY <1>4, <1>5, <1>6, <1>7

(* What Absent makes of an alert.                                          *)
LEMMA AbsentOutcome ==
    ASSUME NEW a \in Alerts \cup {NoAlert}, a # NoAlert => Lifecycle(a), NEW t \in Times
    PROVE  Gone(a, Absent(a, t), t)
<1>1. CASE a.state = "firing"
  <2>1. a \in Alerts /\ a.resolvedAt = Never
    BY <1>1, NoAlertFacts DEF Lifecycle
  <2>2. Absent(a, t) = [a EXCEPT !.state = "inactive", !.resolvedAt = t]
    BY <1>1, <2>1 DEF Absent, Dropped
  <2>3. BecomesResolved(a, Absent(a, t), t)
    BY <2>1, <2>2 DEF BecomesResolved, Alerts
  <2> QED
    BY <2>3, <1>1 DEF Gone
<1>2. CASE a.state = "pending"
  BY <1>2 DEF Absent, Dropped, Gone
<1>3. CASE a.state = "inactive"
  BY <1>3 DEF Absent, Dropped, Gone
<1>4. CASE a.state = "none"
  <2>1. a = NoAlert
    BY <1>4, NoAlertFacts
  <2> QED
    BY <2>1, <1>4, NoAlertFacts DEF Absent, Dropped, Gone
<1> QED
  BY <1>1, <1>2, <1>3, <1>4, NoAlertFacts

(* The times before t have been evaluated, and the next one is next.       *)
OnGrid(end, step, t, E, next) ==
    /\ end \in Int /\ step \in Nat \ {0} /\ t \in Nat /\ t <= end
    /\ t % step = 0 \/ t = end
    /\ E = {u \in Steps(0, end, step) : u < t}
    /\ next = IF end - t # 0 /\ end - t < step THEN end ELSE t + step

(* The next time of an evaluation: the grid up to t is evaluated, and at   *)
(* the end the end.                                                        *)
LEMMA GridStep ==
    ASSUME NEW end, NEW step, NEW t, NEW E, NEW next, OnGrid(end, step, t, E, next)
    PROVE  /\ next \in Nat /\ t < next
           /\ next <= end => /\ E \cup {t} = {u \in Steps(0, end, step) : u < next}
                             /\ next % step = 0 \/ next = end
           /\ next > end => E \cup {t} = Steps(0, end, step) \cup {end}
<1> USE DEF OnGrid
<1>1. \A u \in Steps(0, end, step) : u \in Nat /\ u <= end /\ u % step = 0
  BY DEF Steps
<1>2. \A u \in Nat : u <= end /\ u % step = 0 => u \in Steps(0, end, step)
  BY DEF Steps
<1>3. CASE t = end
  <2>1. next = end + step
    BY <1>3
  <2> QED
    BY <2>1, <1>1, <1>3
<1>4. CASE t # end
  <2>1. t % step = 0 /\ t < end /\ t \in Steps(0, end, step)
    BY <1>4, <1>2
  <2>2. next \in Nat /\ t < next /\ next <= t + step /\ next <= end
    BY <2>1
  <2>3. ASSUME NEW u \in Steps(0, end, step), u < next PROVE u <= t
    <3>1. CASE u > t
      <4>1. u = t + step
        BY <3>1, <2>1, <2>2, <2>3, <1>1, NextChunk
      <4> QED
        BY <4>1, <2>2, <2>3
    <3> QED
      BY <3>1, <1>1
  <2>4. E \cup {t} = {u \in Steps(0, end, step) : u < next}
    <3>1. \A u \in Steps(0, end, step) : u < next <=> (u < t \/ u = t)
      BY <2>2, <2>3, <1>1
    <3>2. \A u \in Steps(0, end, step) : u \in E <=> u < t
      OBVIOUS
    <3>3. E \subseteq Steps(0, end, step)
      OBVIOUS
    <3> QED
      BY <2>1, <3>1, <3>2, <3>3, Zenon
  <2>5. next % step = 0 \/ next = end
    <3>1. CASE next = t + step
      <4> DEFINE q == t \div step
      <4>1. q \in Int /\ t = step * q
        BY <2>1, DivFacts
      <4> HIDE DEF q
      <4>2. next = step * (q + 1) /\ q + 1 \in Int
        BY <3>1, <4>1
      <4> QED
        BY <4>2, MultipleFacts
    <3> QED
      BY <3>1
  <2> QED
    BY <2>2, <2>4, <2>5
<1> QED
  BY <1>3, <1>4

-----------------------------------------------------------------------------
(* The alerts at a time t, of which those now are made of the active ones. *)
EvaluatesAt(t, now) ==
    /\ now \in [Series -> Alerts \cup {NoAlert}]
    /\ \A s \in Series : \/ t \in PointSet(s) /\ Here(active[s], now[s], t)
                         \/ t \notin PointSet(s) /\ Gone(active[s], now[s], t)

(* An alert that is still the one it was.                                  *)
GoesOn(a, p) ==
    /\ a \in Alerts /\ p \in Alerts /\ p.activeAt = a.activeAt
    /\ Moments(a) \subseteq Moments(p)
    /\ a.resolvedAt # Never => p = a

(* The moments of an alert are the times that are set in it.               *)
LEMMA MomentFacts ==
    /\ \A a \in Alerts : /\ Moments(a) \subseteq Times /\ a.activeAt \in Moments(a)
                         /\ a.firedAt # Never => a.firedAt \in Moments(a)
                         /\ a.resolvedAt # Never => a.resolvedAt \in Moments(a)
    /\ Moments(NoAlert) = {}
    /\ \A a : Never \notin Moments(a)
BY NoAlertFacts DEF Moments

(* What becomes of an alert at t is the alert that goes on, a new one, or  *)
(* none.                                                                   *)
LEMMA MoveFacts ==
    ASSUME NEW a \in Alerts \cup {NoAlert}, a # NoAlert => Lifecycle(a), NEW t \in Times,
           \A u \in Moments(a) : u < t,
           NEW p, Here(a, p, t) \/ Gone(a, p, t), holdDuration \in Nat
    PROVE  /\ p \in Alerts \cup {NoAlert}
           /\ p # NoAlert => /\ p \in Alerts /\ Lifecycle(p) /\ Moments(p) \subseteq Moments(a) \cup {t}
                             /\ \/ GoesOn(a, p) /\ p.activeAt < t
                                \/ Begins(p, t) /\ a.state \in {"none", "inactive"}
<1>1. a = NoAlert \/ (a \in Alerts /\ Lifecycle(a) /\ a.activeAt < t /\ a.activeAt \in Nat
                       /\ (a.firedAt # Never => a.firedAt < t /\ a.firedAt \in Nat)
                       /\ (a.resolvedAt # Never => a.resolvedAt < t))
  BY MomentFacts, NoAlertFacts
<1>2. t \in Nat /\ t # Never
  BY NoAlertFacts
<1>3. CASE a \in Alerts /\ p = a
  <2>1. GoesOn(a, p)
    BY <1>3 DEF GoesOn
  <2> QED
    BY <1>1, <1>3, <2>1, NoAlertFacts
<1>4. CASE a.state = "pending" /\ BecomesFiring(a, p, t)
  <2>1. a \in Alerts /\ p \in Alerts /\ a.firedAt = Never /\ a.resolvedAt = Never
    BY <1>1, <1>4, NoAlertFacts DEF Lifecycle, BecomesFiring
  <2>2. Moments(a) \subseteq Moments(p) /\ Moments(p) \subseteq Moments(a) \cup {t}
    BY <2>1, <1>4, <1>2 DEF Moments, BecomesFiring
  <2>3. Lifecycle(p)
    BY <2>1, <1>1, <1>4, NoAlertFacts DEF Lifecycle, BecomesFiring
  <2>4. GoesOn(a, p) /\ p.activeAt < t
    BY <2>1, <2>2, <1>1, <1>4, NoAlertFacts DEF GoesOn, BecomesFiring
  <2> QED
    BY <2>1, <2>2, <2>3, <2>4
<1>5. CASE a.state \in {"none", "inactive"} /\ Begins(p, t)
  <2>1. p \in Alerts /\ Lifecycle(p)
    BY <1>5, <1>2, NoAlertFacts DEF Begins, Lifecycle
  <2>2. Moments(p) \subseteq {t}
    BY <1>5 DEF Begins, Moments
  <2> QED
    BY <1>5, <2>1, <2>2
<1>6. CASE a.state = "firing" /\ BecomesResolved(a, p, t)
  <2>1. a \in Alerts /\ p \in Alerts /\ a.resolvedAt = Never /\ a.activeAt <= a.firedAt
    BY <1>1, <1>6, NoAlertFacts DEF Lifecycle, BecomesResolved
  <2>2. Moments(a) \subseteq Moments(p) /\ Moments(p) \subseteq Moments(a) \cup {t}
    BY <2>1, <1>6, <1>2 DEF Moments, BecomesResolved
  <2>3. a.firedAt # Never
    BY <2>1, <1>1, NoAlertFacts DEF Never
  <2>4. Lifecycle(p)
    BY <2>1, <2>3, <1>1, <1>6, NoAlertFacts DEF Lifecycle, BecomesResolved
  <2>5. GoesOn(a, p) /\ p.activeAt < t
    BY <2>1, <2>2, <1>1, <1>6, NoAlertFacts DEF GoesOn, BecomesResolved
  <2> QED
    BY <2>1, <2>2, <2>4, <2>5
<1>7. CASE p = NoAlert
  BY <1>7
<1>8. a \in Alerts \/ a.state = "none"
  BY NoAlertFacts
<1>9. (a \in Alerts /\ p = a) \/ p = NoAlert \/ (a.state = "pending" /\ BecomesFiring(a, p, t))
      \/ (a.state \in {"none", "inactive"} /\ Begins(p, t)) \/ (a.state = "firing" /\ BecomesResolved(a, p, t))
  BY <1>8 DEF Here, Gone
<1> QED
  BY <1>3, <1>4, <1>5, <1>6, <1>7, <1>9

(* The alerts evaluated at t follow from those before, if the query        *)
(* answers which series are there at t.                                    *)
LEMMA EvaluatedFacts ==
    ASSUME active \in [Series -> Alerts \cup {NoAlert}], ActiveInv, NEW t \in Times,
           holdDuration \in Nat, Answer(pass, t) = {s \in Series : t \in PointSet(s)}
    PROVE  EvaluatesAt(t, Evaluated(t))
<1> SUFFICES ASSUME NEW s \in Series
             PROVE  /\ Evaluated(t)[s] \in Alerts \cup {NoAlert}
                    /\ \/ t \in PointSet(s) /\ Here(active[s], Evaluated(t)[s], t)
                       \/ t \notin PointSet(s) /\ Gone(active[s], Evaluated(t)[s], t)
  BY DEF EvaluatesAt, Evaluated
<1> DEFINE a == active[s]
<1>1. a \in Alerts \cup {NoAlert} /\ (a # NoAlert => Lifecycle(a))
  BY DEF ActiveInv
<1>2. Evaluated(t)[s] = IF t \in PointSet(s) THEN Present(a, t) ELSE Absent(a, t)
  BY DEF Evaluated
<1> HIDE DEF a
<1>3. CASE t \in PointSet(s)
  <2>1. Here(a, Present(a, t), t)
    BY <1>1, PresentOutcome
  <2>2. Present(a, t) \in Alerts \cup {NoAlert}
    BY <1>1, <2>1 DEF Here, BecomesFiring, Begins
  <2> QED
    BY <1>2, <1>3, <2>1, <2>2 DEF a
<1>4. CASE t \notin PointSet(s)
  <2>1. Gone(a, Absent(a, t), t)
    BY <1>1, AbsentOutcome
  <2>2. Absent(a, t) \in Alerts \cup {NoAlert}
    BY <1>1, <2>1 DEF Gone, BecomesResolved
  <2> QED
    BY <1>2, <1>4, <2>1, <2>2 DEF a
<1> QED
  BY <1>3, <1>4

-----------------------------------------------------------------------------
(* The first pass.                                                         *)

(* The episodes that the alerts of now do not go on with.                  *)
Over(now) == {e \in episodes : now[e[1]] # NoAlert => e[2].activeAt # now[e[1]].activeAt}

(* The episodes of the alerts of now.                                      *)
Current(now) == {<<s, now[s]>> : s \in {r \in Series : now[r] # NoAlert}}

(* A step of the first pass that makes the alerts those of now.            *)
FirstPassAt(now) ==
    /\ pass = "eval" /\ pass' = "eval" /\ ts \in Times /\ ts <= maxTimestamp
    /\ EvaluatesAt(ts, now)
    /\ active' = now
    /\ important' = important \cup UNION {Moments(e[2]) : e \in Current(now)}
    /\ episodes' = Over(now) \cup Current(now)
    /\ forgotten' <=> (forgotten \/ \E s \in Series : active[s].state = "pending" /\ ts \notin PointSet(s))
    /\ forgotten' \in BOOLEAN
    /\ evaluated' = evaluated \cup {ts}
    /\ ts' = NextIter(ts)
    /\ holdDuration' = holdDuration /\ limit' = limit /\ range' = range /\ entry' = entry
    /\ activeAlertsByLabels' = activeAlertsByLabels
    /\ \A u \in evaluated : u \in Times /\ u < ts

(* An alert is visible where there is one.                                 *)
LEMMA VisibleFacts ==
    ASSUME NEW now \in [Series -> Alerts \cup {NoAlert}]
    PROVE  Visible(now) = {s \in Series : now[s] # NoAlert}
<1>1. \A s \in Series : now[s].state # "none" <=> now[s] # NoAlert
  BY NoAlertFacts
<1> QED
  BY <1>1 DEF Visible

(* In the first pass a query answers which series are there.               *)
LEMMA EvalAnswers ==
    ASSUME TypeOK, WhereItIs, pass = "eval", ts <= maxTimestamp
    PROVE  ts \in Times /\ \A t \in ts .. maxTimestamp :
              Answer("eval", t) = {s \in Series : t \in PointSet(s)}
<1>0. ts \in Nat /\ maxTimestamp \in Int /\ maxTimestamp <= MaxTime
  BY GridAssumption DEF TypeOK, CacheTypeOK
<1>1. entry \in [Series -> Seq(Times)] /\ \A s \in Series : Ascending(entry[s])
  BY DEF WhereItIs, Fetched
<1>2. index["eval"] \in [Series -> Nat]
  BY DEF TypeOK, CacheTypeOK, Functions
<1>3. ASSUME NEW s \in Series PROVE index["eval"][s] <= Len(entry[s])
  <2>1. index["eval"][s] \in 0 .. (IF entry = NoEntry THEN 0 ELSE Len(entry[s]))
    BY DEF TypeOK, CacheTypeOK, Functions
  <2>2. Len(entry[s]) \in Nat
    BY <1>1
  <2> QED
    BY <2>1, <2>2
<1>4. ASSUME NEW t \in ts .. maxTimestamp
      PROVE  Answer("eval", t) = {s \in Series : t \in PointSet(s)}
  <2>1. t \in Times
    BY <1>0, GridAssumption DEF Times
  <2>2. ASSUME NEW s \in Series PROVE Found(index["eval"], s, t) <=> t \in PointSet(s)
    <3> DEFINE place == index["eval"]
    <3>1. place[s] = 0 \/ entry[s][place[s]] < ts
      BY DEF WhereItIs, SearchedUpTo
    <3>2. place[s] # 0 => entry[s][place[s]] \in Nat
      <4>1. place[s] # 0 => place[s] \in 1 .. Len(entry[s])
        BY <1>2, <1>3
      <4> QED
        BY <4>1, <1>1, NoAlertFacts
    <3>3. place[s] = 0 \/ entry[s][place[s]] < t
      BY <3>1, <3>2, <1>0
    <3> HIDE DEF place
    <3>4. place \in [Series -> Nat] /\ place[s] <= Len(entry[s])
      BY <1>2, <1>3 DEF place
    <3>5. Found(place, s, t) <=> t \in PointSet(s)
      BY <1>1, <2>1, <3>3, <3>4, Lookup
    <3> QED
      BY <3>5 DEF place
  <2> QED
    BY <2>2 DEF Answer
<1> QED
  BY <1>0, <1>4, GridAssumption DEF Times

(* FirstPass is a step that makes the alerts those of some now.            *)
LEMMA FirstPassNow ==
    ASSUME ReplayInv, FirstPass
    PROVE  \E now : FirstPassAt(now)
<1> DEFINE now == Evaluated(ts)
<1>1. TypeOK /\ WhereItIs /\ ActiveInv /\ EvaluatedSoFar
  BY DEF ReplayInv
<1>2. /\ pass = "eval" /\ ts <= maxTimestamp /\ pass' = "eval" /\ active' = now
      /\ important' = important \cup UNION {Moments(now[s]) : s \in Visible(now)}
      /\ episodes' = {e \in episodes : \A s \in Visible(now) :
                         e[1] = s => e[2].activeAt # now[s].activeAt}
                     \cup {<<s, now[s]>> : s \in Visible(now)}
      /\ forgotten' = (forgotten \/ \E s \in Series :
                           active[s].state = "pending" /\ s \notin Answer("eval", ts))
      /\ evaluated' = evaluated \cup {ts} /\ ts' = NextIter(ts)
      /\ holdDuration' = holdDuration /\ limit' = limit /\ range' = range /\ entry' = entry
      /\ activeAlertsByLabels' = activeAlertsByLabels
  BY <1>1 DEF FirstPass, rule, range, Asked, TypeOK
<1>3. ts \in Times /\ Answer("eval", ts) = {s \in Series : ts \in PointSet(s)}
  <2>1. ts \in Times /\ \A t \in ts .. maxTimestamp :
           Answer("eval", t) = {s \in Series : t \in PointSet(s)}
    BY <1>1, <1>2, EvalAnswers
  <2>2. ts \in ts .. maxTimestamp
    BY <2>1, <1>1, <1>2, GridAssumption DEF Times, TypeOK, CacheTypeOK
  <2> QED
    BY <2>1, <2>2
<1>4. EvaluatesAt(ts, now)
  <2>1. holdDuration \in Nat /\ active \in [Series -> Alerts \cup {NoAlert}]
    BY <1>1, ReplayAssumption DEF TypeOK
  <2> QED
    BY <2>1, <1>1, <1>2, <1>3, EvaluatedFacts
<1> HIDE DEF now
<1>5. now \in [Series -> Alerts \cup {NoAlert}]
  BY <1>4 DEF EvaluatesAt
<1>6. Visible(now) = {s \in Series : now[s] # NoAlert}
  BY <1>5, VisibleFacts
<1>7. important' = important \cup UNION {Moments(e[2]) : e \in Current(now)}
  <2>1. UNION {Moments(e[2]) : e \in Current(now)} = UNION {Moments(now[s]) : s \in Visible(now)}
    <3>1. \A e \in Current(now) : e[1] \in Visible(now) /\ e[2] = now[e[1]]
      BY <1>6 DEF Current
    <3>2. \A s \in Visible(now) : <<s, now[s]>> \in Current(now) /\ <<s, now[s]>>[2] = now[s]
      BY <1>6 DEF Current
    <3> QED
      BY <3>1, <3>2
  <2> QED
    BY <2>1, <1>2
<1>8. episodes' = Over(now) \cup Current(now)
  <2>1. Current(now) = {<<s, now[s]>> : s \in Visible(now)}
    BY <1>6 DEF Current
  <2>2. Over(now) = {e \in episodes : \A s \in Visible(now) : e[1] = s => e[2].activeAt # now[s].activeAt}
    <3>1. \A e \in episodes : e[1] \in Series
      BY <1>1 DEF TypeOK
    <3>2. ASSUME NEW e \in episodes
          PROVE  (now[e[1]] # NoAlert => e[2].activeAt # now[e[1]].activeAt)
                 <=> \A s \in Visible(now) : e[1] = s => e[2].activeAt # now[s].activeAt
      BY <3>1, <1>6
    <3> QED
      BY <3>2 DEF Over
  <2> QED
    BY <2>1, <2>2, <1>2
<1>9. (\E s \in Series : active[s].state = "pending" /\ s \notin Answer("eval", ts))
         <=> \E s \in Series : active[s].state = "pending" /\ ts \notin PointSet(s)
  BY <1>3
<1>10. /\ forgotten' \in BOOLEAN
       /\ forgotten' <=> (forgotten \/ \E s \in Series : active[s].state = "pending" /\ ts \notin PointSet(s))
  BY <1>2, <1>9, Zenon
<1>11. \A u \in evaluated : u \in Times /\ u < ts
  <2>1. evaluated = {t \in Steps(0, maxTimestamp, interval) : t < ts}
    BY <1>1, <1>2 DEF EvaluatedSoFar
  <2> QED
    BY <2>1, <1>1 DEF TypeOK
<1> QED
  BY <1>2, <1>3, <1>4, <1>7, <1>8, <1>10, <1>11 DEF FirstPassAt

(* The alert of a series before and after a step of the first pass.        *)
LEMMA NowFacts ==
    ASSUME ReplayInv, NEW now, FirstPassAt(now), NEW s \in Series
    PROVE  /\ active[s] = NoAlert
              \/ (/\ active[s] \in Alerts /\ Lifecycle(active[s]) /\ Moments(active[s]) \subseteq evaluated
                  /\ <<s, active[s]>> \in episodes)
           /\ now[s] \in Alerts \cup {NoAlert}
           /\ now[s] # NoAlert =>
                 /\ now[s] \in Alerts /\ Lifecycle(now[s])
                 /\ Moments(now[s]) \subseteq Moments(active[s]) \cup {ts}
                 /\ \/ GoesOn(active[s], now[s]) /\ now[s].activeAt < ts
                    \/ Begins(now[s], ts) /\ active[s].state \in {"none", "inactive"}
           /\ now[s] = NoAlert => \/ active[s].state \in {"none", "inactive"}
                                  \/ active[s].state = "pending" /\ forgotten'
<1> DEFINE a == active[s]
           p == now[s]
<1>1. TypeOK /\ ActiveInv /\ CurrentEpisodes /\ EpisodesInv
  BY DEF ReplayInv
<1>2. /\ pass = "eval" /\ ts \in Times /\ EvaluatesAt(ts, now)
      /\ forgotten' <=> (forgotten \/ \E r \in Series : active[r].state = "pending" /\ ts \notin PointSet(r))
      /\ \A u \in evaluated : u \in Times /\ u < ts
  BY DEF FirstPassAt
<1>3. active \in [Series -> Alerts \cup {NoAlert}] /\ holdDuration \in Nat
  BY <1>1, ReplayAssumption DEF TypeOK
<1>4. a = NoAlert \/ (/\ a \in Alerts /\ Lifecycle(a) /\ Moments(a) \subseteq evaluated
                      /\ <<s, a>> \in episodes)
  <2> SUFFICES ASSUME a # NoAlert
               PROVE  /\ a \in Alerts /\ Lifecycle(a) /\ Moments(a) \subseteq evaluated
                      /\ <<s, a>> \in episodes
    OBVIOUS
  <2>1. a \in Alerts /\ Lifecycle(a)
    BY <1>3, <1>1 DEF ActiveInv
  <2>2. s \in Visible(active)
    BY <1>3, VisibleFacts
  <2>3. <<s, a>> \in episodes
    BY <2>2, <1>1, <1>2 DEF CurrentEpisodes
  <2>4. EpisodeInv(<<s, a>>[1], <<s, a>>[2])
    BY <2>3, <1>1, <1>2 DEF EpisodesInv, Fetched
  <2>5. EpisodeInv(s, a)
    BY <2>4
  <2> QED
    BY <2>1, <2>3, <2>5 DEF EpisodeInv
<1>5. \/ ts \in PointSet(s) /\ Here(a, p, ts)
      \/ ts \notin PointSet(s) /\ Gone(a, p, ts)
  BY <1>2 DEF EvaluatesAt
<1>6. \A u \in Moments(a) : u < ts
  BY <1>4, <1>2, MomentFacts
<1>7. (Here(a, p, ts) \/ Gone(a, p, ts)) /\ a \in Alerts \cup {NoAlert} /\ (a # NoAlert => Lifecycle(a))
  BY <1>4, <1>5
<1>8. /\ p \in Alerts \cup {NoAlert}
      /\ p # NoAlert => /\ p \in Alerts /\ Lifecycle(p)
                        /\ Moments(p) \subseteq Moments(a) \cup {ts}
                        /\ \/ GoesOn(a, p) /\ p.activeAt < ts
                           \/ Begins(p, ts) /\ a.state \in {"none", "inactive"}
  <2> HIDE DEF a, p
  <2> QED
    BY <1>2, <1>3, <1>6, <1>7, MoveFacts
<1>9. p = NoAlert => a.state \in {"none", "inactive"} \/ (a.state = "pending" /\ ts \notin PointSet(s))
  BY <1>5, NoAlertFacts DEF Here, Gone, BecomesResolved, BecomesFiring, Begins
<1>10. p = NoAlert => a.state \in {"none", "inactive"} \/ (a.state = "pending" /\ forgotten')
  BY <1>9, <1>2
<1> QED
  BY <1>4, <1>8, <1>10

(* The times that are set in an alert tell its state.                      *)
LEMMA ResolvedFacts ==
    ASSUME NEW a \in Alerts, Lifecycle(a)
    PROVE  /\ a.state = "inactive" <=> a.resolvedAt # Never
           /\ a.state = "pending" <=> a.firedAt = Never
           /\ a.resolvedAt # Never => a.firedAt < a.resolvedAt
           /\ a.firedAt # Never => a.activeAt <= a.firedAt
BY NoAlertFacts DEF Lifecycle, Never

(* An episode the alerts of now do not go on with is over.                 *)
LEMMA OverFacts ==
    ASSUME ReplayInv, NEW now, FirstPassAt(now), NEW e \in Over(now)
    PROVE  /\ e \in episodes /\ e[1] \in Series /\ e[2] \in Alerts /\ EpisodeInv(e[1], e[2])
           /\ e[2] # now[e[1]]
           /\ e[2].resolvedAt # Never \/ (forgotten' /\ e[2].state = "pending")
<1> DEFINE s == e[1]
           x == e[2]
<1>1. e \in episodes /\ (now[s] # NoAlert => x.activeAt # now[s].activeAt)
  BY DEF Over
<1>2. s \in Series /\ x \in Alerts /\ EpisodeInv(s, x)
  BY <1>1 DEF ReplayInv, TypeOK, EpisodesInv, Fetched, FirstPassAt
<1>3. x # now[s]
  BY <1>1, <1>2, NoAlertFacts
<1>4. forgotten => forgotten'
  BY DEF FirstPassAt
<1>5. CASE x # active[s]
  <2>1. x.resolvedAt # Never \/ (forgotten /\ x.state = "pending")
    BY <1>1, <1>5 DEF ReplayInv, CurrentEpisodes, FirstPassAt
  <2> QED
    BY <2>1, <1>1, <1>2, <1>3, <1>4
<1>6. CASE x = active[s]
  <2>1. x.state # "none" /\ Lifecycle(x)
    BY <1>2, NoAlertFacts DEF EpisodeInv
  <2>2. now[s] = NoAlert \/ ~GoesOn(x, now[s])
    BY <1>1 DEF GoesOn
  <2>3. x.state = "inactive" \/ (x.state = "pending" /\ forgotten')
    BY <1>2, <1>6, <2>1, <2>2, NowFacts
  <2> QED
    BY <2>1, <2>3, <1>1, <1>2, <1>3, ResolvedFacts
<1> QED
  BY <1>5, <1>6

(* An episode that is over stays what it is.                               *)
LEMMA OverEpisodeInv ==
    ASSUME ReplayInv, NEW now, FirstPassAt(now), NEW e \in Over(now)
    PROVE  EpisodeInv(e[1], e[2])'
<1>0. PICK s, x : s = e[1] /\ x = e[2]
  OBVIOUS
<1>1. /\ s \in Series /\ x \in Alerts /\ EpisodeInv(s, x) /\ x # now[s]
      /\ x.resolvedAt # Never \/ (forgotten' /\ x.state = "pending")
  BY <1>0, OverFacts
<1>2. /\ evaluated' = evaluated \cup {ts} /\ active' = now /\ holdDuration' = holdDuration
      /\ entry' = entry /\ ts \in Nat /\ \A u \in evaluated : u \in Times /\ u < ts
  BY NoAlertFacts DEF FirstPassAt
<1>3. PointSet(s)' = PointSet(s)
  BY <1>2 DEF PointSet
<1>4. /\ Lifecycle(x) /\ Moments(x) \subseteq evaluated
      /\ x.firedAt # Never => x.firedAt - x.activeAt >= holdDuration
      /\ x.resolvedAt # Never => x.resolvedAt \notin PointSet(s)
  BY <1>1 DEF EpisodeInv
<1>5. ASSUME x.resolvedAt # Never PROVE EpisodeInv(s, x)'
  <2>1. x.state = "inactive" /\ x.firedAt # Never /\ x.resolvedAt < ts /\ x.firedAt < ts
    BY <1>1, <1>2, <1>4, <1>5, ResolvedFacts, MomentFacts
  <2>2. \A u \in evaluated :
           /\ Covers(x, u) => u \in PointSet(s)
           /\ x.activeAt <= u /\ (x.firedAt # Never => u < x.firedAt) => u - x.activeAt < holdDuration
    BY <1>1, <2>1 DEF EpisodeInv
  <2>3. ~Covers(x, ts) /\ ~(ts < x.firedAt)
    BY <1>1, <1>2, <1>5, <2>1, NoAlertFacts DEF Covers
  <2>4. \A u \in evaluated' :
           /\ Covers(x, u) => u \in PointSet(s)
           /\ x.activeAt <= u /\ (x.firedAt # Never => u < x.firedAt) => u - x.activeAt < holdDuration
    BY <1>2, <2>1, <2>2, <2>3
  <2> QED
    BY <1>2, <1>3, <1>4, <2>4 DEF EpisodeInv
<1>6. ASSUME forgotten', x.state = "pending" PROVE EpisodeInv(s, x)'
  <2>1. x # active'[s]
    BY <1>1, <1>2
  <2> QED
    BY <1>2, <1>3, <1>4, <1>6, <2>1 DEF EpisodeInv
<1>7. EpisodeInv(s, x)'
  BY <1>1, <1>5, <1>6
<1> QED
  BY <1>0, <1>7, Zenon

(* The alert of now is an episode as it should be: its series has been     *)
(* there while it lasts, and it fired as soon as it was held.              *)
LEMMA NewEpisodeInv ==
    ASSUME ReplayInv, NEW now, FirstPassAt(now), NEW s \in Series, now[s] # NoAlert
    PROVE  EpisodeInv(s, now[s])'
<1> DEFINE a == active[s]
           p == now[s]
<1>1. /\ evaluated' = evaluated \cup {ts} /\ active' = now /\ holdDuration' = holdDuration
      /\ entry' = entry /\ ts \in Nat /\ \A u \in evaluated : u \in Times /\ u \in Nat /\ u < ts
      /\ pass = "eval" /\ EvaluatesAt(ts, now) /\ holdDuration \in Nat /\ ts \in Times
  BY NoAlertFacts, ReplayAssumption DEF FirstPassAt, ReplayInv, TypeOK
<1>2. PointSet(s)' = PointSet(s)
  BY <1>1 DEF PointSet
<1>3. /\ a = NoAlert \/ (/\ a \in Alerts /\ Lifecycle(a) /\ Moments(a) \subseteq evaluated
                         /\ <<s, a>> \in episodes)
      /\ p \in Alerts /\ Lifecycle(p) /\ Moments(p) \subseteq Moments(a) \cup {ts}
  BY NowFacts
<1>4. \/ ts \in PointSet(s) /\ Here(a, p, ts)
      \/ ts \notin PointSet(s) /\ Gone(a, p, ts)
  BY <1>1 DEF EvaluatesAt
<1>5. ASSUME a # NoAlert
      PROVE  /\ a.firedAt # Never => a.firedAt - a.activeAt >= holdDuration
             /\ a.resolvedAt # Never => a.resolvedAt \notin PointSet(s)
             /\ \A u \in evaluated :
                   /\ Covers(a, u) => u \in PointSet(s)
                   /\ a.activeAt <= u /\ (a.firedAt # Never => u < a.firedAt) => u - a.activeAt < holdDuration
  <2>1. EpisodeInv(<<s, a>>[1], <<s, a>>[2])
    BY <1>1, <1>3, <1>5 DEF ReplayInv, EpisodesInv, Fetched
  <2>2. EpisodeInv(s, a)
    BY <2>1
  <2> QED
    BY <2>2, <1>1 DEF EpisodeInv
<1>6. Moments(p) \subseteq evaluated'
  BY <1>1, <1>3, MomentFacts
<1> DEFINE Good(u) == /\ Covers(p, u) => u \in PointSet(s)
                      /\ p.activeAt <= u /\ (p.firedAt # Never => u < p.firedAt) => u - p.activeAt < holdDuration
           AllGood == /\ p.firedAt # Never => p.firedAt - p.activeAt >= holdDuration
                      /\ p.resolvedAt # Never => p.resolvedAt \notin PointSet(s)
                      /\ \A u \in evaluated : Good(u)
                      /\ Good(ts)
<1> HIDE DEF a, p
<1>7. ASSUME p = a
      PROVE  AllGood
  <2>1. a \in Alerts /\ Lifecycle(a) /\ a.activeAt \in Nat /\ a.activeAt < ts
        /\ (a.firedAt # Never => a.firedAt < ts /\ a.firedAt \in Nat)
        /\ (a.resolvedAt # Never => a.resolvedAt < ts /\ a.resolvedAt \in Nat)
    BY <1>1, <1>3, <1>7, MomentFacts, NoAlertFacts
  <2>2. a.state = "pending" => ts \in PointSet(s) /\ ts - a.activeAt < holdDuration
    BY <1>1, <1>3, <1>4, <1>7, <2>1, NoAlertFacts DEF Here, Gone, BecomesFiring, Begins
  <2>3. a.state = "firing" => ts \in PointSet(s)
    BY <1>1, <1>3, <1>4, <1>7, <2>1, NoAlertFacts DEF Here, Gone, BecomesResolved
  <2>4. Good(ts)
    BY <2>1, <2>2, <2>3, <1>7, <1>1, ResolvedFacts, NoAlertFacts DEF Covers
  <2>5. a # NoAlert
    BY <2>1, NoAlertFacts
  <2> QED
    BY <2>4, <2>5, <1>5, <1>7
<1>8. ASSUME a.state = "pending" /\ BecomesFiring(a, p, ts) /\ ts \in PointSet(s)
      PROVE  AllGood
  <2>1. a \in Alerts /\ a # NoAlert /\ a.firedAt = Never /\ a.resolvedAt = Never /\ a.activeAt \in Nat
    BY <1>3, <1>8, NoAlertFacts DEF Lifecycle
  <2>2. p.activeAt = a.activeAt /\ p.firedAt = ts /\ p.resolvedAt = Never /\ ts - a.activeAt >= holdDuration
    BY <1>8 DEF BecomesFiring
  <2>3. \A u \in evaluated : Good(u)
    BY <2>1, <2>2, <1>5, <1>1 DEF Covers
  <2>4. Good(ts)
    BY <2>2, <1>8, <1>1, NoAlertFacts
  <2> QED
    BY <2>2, <2>3, <2>4
<1>9. ASSUME a.state \in {"none", "inactive"} /\ Begins(p, ts) /\ ts \in PointSet(s)
      PROVE  AllGood
  <2>1. p.activeAt = ts /\ p.resolvedAt = Never /\ ts - ts = 0
        /\ \/ p.firedAt = Never /\ holdDuration > 0
           \/ p.firedAt = ts /\ holdDuration = 0
    BY <1>9, <1>1 DEF Begins
  <2>2. \A u \in evaluated : Good(u)
    BY <2>1, <1>1 DEF Covers
  <2>3. Good(ts)
    BY <2>1, <1>9, <1>1, NoAlertFacts
  <2> QED
    BY <2>1, <2>2, <2>3, <1>1
<1>10. ASSUME a.state = "firing" /\ BecomesResolved(a, p, ts) /\ ts \notin PointSet(s)
      PROVE  AllGood
  <2>1. a \in Alerts /\ a # NoAlert /\ a.resolvedAt = Never /\ a.activeAt \in Nat
        /\ a.firedAt # Never /\ a.firedAt \in Nat /\ a.firedAt < ts
    BY <1>1, <1>3, <1>10, MomentFacts, ResolvedFacts, NoAlertFacts DEF Lifecycle
  <2>2. p.activeAt = a.activeAt /\ p.firedAt = a.firedAt /\ p.resolvedAt = ts
    BY <1>10 DEF BecomesResolved
  <2>3. \A u \in evaluated : Good(u)
    BY <2>1, <2>2, <1>5, <1>1 DEF Covers
  <2>4. Good(ts)
    BY <2>1, <2>2, <1>1, NoAlertFacts DEF Covers
  <2> QED
    BY <2>1, <2>2, <2>3, <2>4, <1>5, <1>10
<1>11. AllGood
  <2>1. p # NoAlert
    BY <1>3, NoAlertFacts
  <2>2. \/ p = a
        \/ a.state = "pending" /\ BecomesFiring(a, p, ts) /\ ts \in PointSet(s)
        \/ a.state \in {"none", "inactive"} /\ Begins(p, ts) /\ ts \in PointSet(s)
        \/ a.state = "firing" /\ BecomesResolved(a, p, ts) /\ ts \notin PointSet(s)
    BY <2>1, <1>4 DEF Here, Gone
  <2> QED
    BY <2>2, <1>7, <1>8, <1>9, <1>10
<1>12. \A u \in evaluated' : Good(u)
  BY <1>11, <1>1
<1>13. /\ Lifecycle(p)
       /\ p.firedAt # Never => p.firedAt - p.activeAt >= holdDuration'
       /\ p.resolvedAt # Never => p.resolvedAt \notin PointSet(s)'
       /\ \A u \in evaluated' :
             /\ Covers(p, u) => u \in PointSet(s)'
             /\ p.activeAt <= u /\ (p.firedAt # Never => u < p.firedAt) => u - p.activeAt < holdDuration'
  BY <1>1, <1>2, <1>3, <1>11, <1>12
<1> QED
  <2>1. PICK c : c = p
    OBVIOUS
  <2>2. EpisodeInv(s, c)'
    BY <1>6, <1>13, <2>1 DEF EpisodeInv
  <2> QED
    BY <2>1, <2>2 DEF p

(* An episode of the first pass is of a series and of times that were      *)
(* evaluated.                                                              *)
LEMMA EpisodeTimes ==
    ASSUME ReplayInv, pass = "eval", NEW e \in episodes
    PROVE  /\ e[1] \in Series /\ e[2] \in Alerts /\ e = <<e[1], e[2]>> /\ Lifecycle(e[2])
           /\ Moments(e[2]) \subseteq evaluated /\ e[2].activeAt \in evaluated
           /\ e[2].resolvedAt # Never => e[2].resolvedAt \in evaluated
<1>1. e[1] \in Series /\ e[2] \in Alerts /\ e = <<e[1], e[2]>> /\ EpisodeInv(e[1], e[2])
  BY DEF ReplayInv, TypeOK, EpisodesInv, Fetched
<1> QED
  BY <1>1, MomentFacts DEF EpisodeInv

(* An episode that is over came before the alert of now.                   *)
LEMMA OverBeforeNew ==
    ASSUME ReplayInv, NEW now, FirstPassAt(now), NEW e \in Over(now), now[e[1]] # NoAlert
    PROVE  /\ e[2].activeAt < now[e[1]].activeAt
           /\ \/ e[2].resolvedAt # Never /\ e[2].resolvedAt < now[e[1]].activeAt
              \/ forgotten' /\ e[2].state = "pending"
<1>0. PICK s, x : s = e[1] /\ x = e[2]
  OBVIOUS
<1> DEFINE a == active[s]
           p == now[s]
<1>1. /\ e \in episodes /\ e = <<s, x>> /\ s \in Series /\ x \in Alerts
      /\ x.activeAt \in evaluated /\ (x.resolvedAt # Never => x.resolvedAt \in evaluated)
      /\ x.resolvedAt # Never \/ (forgotten' /\ x.state = "pending")
      /\ x.activeAt # p.activeAt
  BY <1>0, OverFacts, EpisodeTimes DEF FirstPassAt, Over
<1>2. /\ pass = "eval" /\ ts \in Nat /\ (forgotten => forgotten')
      /\ \A u \in evaluated : u \in Nat /\ u < ts
  BY NoAlertFacts DEF FirstPassAt
<1>3. /\ p \in Alerts
      /\ \/ GoesOn(a, p) /\ a \in Alerts /\ <<s, a>> \in episodes
         \/ Begins(p, ts)
  BY <1>0, <1>1, NowFacts, NoAlertFacts DEF GoesOn
<1>4. CASE GoesOn(a, p) /\ a \in Alerts /\ <<s, a>> \in episodes
  <2>1. p.activeAt = a.activeAt
    BY <1>4 DEF GoesOn
  <2>2. active \in [Series -> Alerts \cup {NoAlert}]
    BY DEF ReplayInv, TypeOK
  <2>3. s \in Visible(active)
    BY <2>2, <1>1, <1>4, VisibleFacts, NoAlertFacts
  <2>4. x.activeAt <= a.activeAt
    BY <2>3, <1>0, <1>1, <1>2 DEF ReplayInv, CurrentEpisodes
  <2>5. x.activeAt < a.activeAt
    BY <2>1, <2>4, <1>1, <1>4, NoAlertFacts
  <2> DEFINE f == <<s, a>>
  <2>6. f \in episodes /\ e[1] = f[1] /\ e # f /\ f[2] = a
    BY <1>0, <1>1, <1>4, <2>1
  <2>7. EpisodesApart
    BY <1>2 DEF ReplayInv, EpisodesInv, Fetched
  <2> HIDE DEF f, a, p
  <2>8. \/ x.resolvedAt # Never /\ x.resolvedAt < a.activeAt
        \/ forgotten /\ x.state = "pending"
    BY <2>5, <2>6, <2>7, <1>0, <1>1 DEF EpisodesApart
  <2> QED
    BY <1>0, <1>2, <2>1, <2>5, <2>8 DEF p
<1>5. CASE Begins(p, ts)
  <2>1. p.activeAt = ts
    BY <1>5 DEF Begins
  <2> QED
    BY <1>0, <1>1, <1>2, <2>1
<1> QED
  BY <1>3, <1>4, <1>5

(* The episodes of a series stay apart.                                    *)
LEMMA ApartStep ==
    ASSUME ReplayInv, NEW now, FirstPassAt(now)
    PROVE  EpisodesApart'
<1>1. /\ episodes' = Over(now) \cup Current(now) /\ Over(now) \subseteq episodes
      /\ (forgotten => forgotten') /\ EpisodesApart
      /\ Current(now) = {<<s, now[s]>> : s \in {r \in Series : now[r] # NoAlert}}
  BY DEF FirstPassAt, Over, Current, ReplayInv, EpisodesInv, Fetched
<1>2. \A e \in Current(now) : e[1] \in Series /\ e[2] = now[e[1]] /\ e[2] # NoAlert /\ e[2] \in Alerts
                              /\ e = <<e[1], e[2]>>
  <2> SUFFICES ASSUME NEW s \in Series, now[s] # NoAlert PROVE now[s] \in Alerts
    BY <1>1
  <2> QED
    BY NowFacts
<1>3. ASSUME NEW e \in episodes', NEW f \in episodes', e[1] = f[1], e # f
      PROVE  /\ e[2].activeAt # f[2].activeAt
             /\ e[2].activeAt < f[2].activeAt =>
                   \/ e[2].resolvedAt # Never /\ e[2].resolvedAt < f[2].activeAt
                   \/ forgotten' /\ e[2].state = "pending"
  <2>1. CASE e \in Over(now) /\ f \in Over(now)
    <3>1. e \in episodes /\ f \in episodes
      BY <2>1, <1>1
    <3> QED
      BY <3>1, <1>1, <1>3 DEF EpisodesApart
  <2>2. CASE e \in Over(now) /\ f \in Current(now)
    <3>1. now[e[1]] # NoAlert /\ now[e[1]] = f[2] /\ e[2] \in Alerts /\ f[2] \in Alerts
      BY <2>2, <1>2, <1>3, OverFacts
    <3>2. /\ e[2].activeAt < f[2].activeAt
          /\ \/ e[2].resolvedAt # Never /\ e[2].resolvedAt < f[2].activeAt
             \/ forgotten' /\ e[2].state = "pending"
      BY <3>1, <2>2, OverBeforeNew
    <3> QED
      BY <3>1, <3>2, NoAlertFacts
  <2>3. CASE e \in Current(now) /\ f \in Over(now)
    <3>1. now[f[1]] # NoAlert /\ now[f[1]] = e[2] /\ e[2] \in Alerts /\ f[2] \in Alerts
      BY <2>3, <1>2, <1>3, OverFacts
    <3>2. f[2].activeAt < e[2].activeAt
      BY <3>1, <2>3, OverBeforeNew
    <3> QED
      BY <3>1, <3>2, NoAlertFacts
  <2>4. CASE e \in Current(now) /\ f \in Current(now)
    BY <2>4, <1>2, <1>3
  <2> QED
    BY <1>1, <2>1, <2>2, <2>3, <2>4
<1> QED
  BY <1>3 DEF EpisodesApart

(* An episode that is not kept is the one the alerts of now go on with.    *)
LEMMA NotOver ==
    ASSUME ReplayInv, NEW now, FirstPassAt(now), NEW e \in episodes, e \notin Over(now)
    PROVE  /\ e = <<e[1], active[e[1]]>> /\ e[1] \in Series /\ now[e[1]] # NoAlert
           /\ GoesOn(active[e[1]], now[e[1]])
<1>0. PICK s : s = e[1]
  OBVIOUS
<1> DEFINE a == active[s]
           p == now[s]
<1>1. p # NoAlert /\ e[2].activeAt = p.activeAt
  BY <1>0 DEF Over
<1>2. /\ e = <<s, e[2]>> /\ s \in Series /\ e[2] \in Alerts /\ e[2].activeAt \in evaluated
      /\ EpisodesApart /\ ts \notin evaluated
  BY <1>0, EpisodeTimes, NoAlertFacts DEF FirstPassAt, ReplayInv, EpisodesInv, Fetched
<1>3. p.activeAt # ts
  BY <1>1, <1>2
<1>4. GoesOn(a, p) /\ a \in Alerts /\ <<s, a>> \in episodes
  BY <1>1, <1>2, <1>3, NowFacts, NoAlertFacts DEF Begins, GoesOn
<1> DEFINE f == <<s, a>>
<1>5. f \in episodes /\ f[1] = e[1] /\ f[2] = a /\ a.activeAt = e[2].activeAt
  BY <1>0, <1>1, <1>4 DEF GoesOn
<1>6. e = f
  <2> HIDE DEF f
  <2> QED
    BY <1>5, <1>2 DEF EpisodesApart
<1> QED
  BY <1>0, <1>1, <1>2, <1>4, <1>6

(* Whatever sample was evaluated is in an episode, if no pending alert was *)
(* dropped.                                                                *)
LEMMA CoveredStep ==
    ASSUME ReplayInv, NEW now, FirstPassAt(now), ~forgotten',
           NEW s \in Series, NEW u \in evaluated', u \in PointSet(s)
    PROVE  \E e \in episodes' : e[1] = s /\ Covers(e[2], u)
<1> DEFINE a == active[s]
           p == now[s]
<1>1. /\ pass = "eval" /\ ts \in Nat /\ ~forgotten /\ evaluated' = evaluated \cup {ts}
      /\ \A r \in evaluated : r \in Nat /\ r < ts
      /\ EvaluatesAt(ts, now)
      /\ episodes' = Over(now) \cup Current(now)
  BY NoAlertFacts DEF FirstPassAt
<1>2. p # NoAlert => <<s, p>> \in episodes' /\ p \in Alerts
  BY <1>1, NowFacts DEF Current
<1>3. CASE u = ts
  <2>1. Here(a, p, ts)
    BY <1>1, <1>3 DEF EvaluatesAt
  <2>2. p # NoAlert
    BY <2>1, NoAlertFacts DEF Here, BecomesFiring, Begins
  <2>3. p.resolvedAt = Never
    <3>1. a # NoAlert => a \in Alerts /\ Lifecycle(a)
      BY NowFacts
    <3> QED
      BY <2>1, <2>2, <3>1, NoAlertFacts DEF Here, BecomesFiring, Begins, Lifecycle
  <2>4. p.activeAt <= ts
    <3>1. (GoesOn(a, p) /\ p.activeAt < ts) \/ Begins(p, ts)
      BY <2>2, NowFacts
    <3>2. p.activeAt \in Nat
      BY <2>2, <1>2, NoAlertFacts
    <3> HIDE DEF p
    <3> QED
      BY <3>1, <3>2, <1>1 DEF Begins
  <2>5. Covers(p, u)
    BY <2>3, <2>4, <1>3 DEF Covers
  <2> DEFINE e == <<s, p>>
  <2>6. e \in episodes' /\ e[1] = s /\ e[2] = p
    BY <2>2, <1>2
  <2> QED
    BY <2>5, <2>6
<1>4. CASE u \in evaluated
  <2>1. PICK e \in episodes : e[1] = s /\ Covers(e[2], u)
    BY <1>1, <1>4 DEF ReplayInv, EpisodesInv, Fetched
  <2>2. CASE e \in Over(now)
    BY <2>1, <2>2, <1>1
  <2>3. CASE e \notin Over(now)
    <3>1. e = <<s, a>> /\ p # NoAlert /\ GoesOn(a, p)
      BY <2>1, <2>3, NotOver
    <3>4. a \in Alerts
      BY <3>1 DEF GoesOn
    <3>7. Covers(a, u)
      BY <2>1, <3>1
    <3>8. Covers(p, u)
      <4>1. CASE p = a
        BY <4>1, <3>7
      <4>2. CASE p # a
        <5>1. a.resolvedAt = Never /\ p.activeAt = a.activeAt
          BY <3>1, <4>2 DEF GoesOn
        <5>2. p.resolvedAt \in {Never, ts}
          BY <1>1, <3>1, <3>4, <4>2, <5>1, NoAlertFacts DEF EvaluatesAt, Here, Gone, BecomesFiring, BecomesResolved, Begins
        <5> QED
          BY <5>1, <5>2, <3>7, <1>1, <1>4 DEF Covers
      <4> QED
        BY <4>1, <4>2
    <3> DEFINE g == <<s, p>>
    <3>9. g \in episodes' /\ g[1] = s /\ g[2] = p
      BY <3>1, <1>2
    <3> QED
      BY <3>8, <3>9
  <2> QED
    BY <2>2, <2>3
<1> QED
  BY <1>1, <1>3, <1>4

(* The alerts of now are the last of the episodes.                         *)
LEMMA CurrentStep ==
    ASSUME ReplayInv, NEW now, FirstPassAt(now)
    PROVE  CurrentEpisodes'
<1>1. /\ pass = "eval" /\ ts \in Nat /\ active' = now
      /\ \A u \in evaluated : u \in Nat /\ u < ts
      /\ episodes' = Over(now) \cup Current(now) /\ Over(now) \subseteq episodes
      /\ now \in [Series -> Alerts \cup {NoAlert}]
      /\ important' = important \cup UNION {Moments(e[2]) : e \in Current(now)}
      /\ important = UNION {Moments(e[2]) : e \in episodes}
  BY NoAlertFacts DEF FirstPassAt, Over, EvaluatesAt, ReplayInv, CurrentEpisodes, AllMoments
<1>2. \A e \in Current(now) : e[1] \in Series /\ e[2] = now[e[1]] /\ e[2] # NoAlert
  BY DEF Current
<1>3. Visible(now) = {s \in Series : now[s] # NoAlert}
  BY <1>1, VisibleFacts
<1>4. important' = AllMoments'
  <2>1. ASSUME NEW e \in episodes, NEW u \in Moments(e[2])
        PROVE  \E f \in episodes' : u \in Moments(f[2])
    <3>1. CASE e \in Over(now)
      BY <3>1, <1>1
    <3>2. CASE e \notin Over(now)
      <4>1. PICK s : s = e[1]
        OBVIOUS
      <4>2. e = <<s, active[s]>> /\ s \in Series /\ now[s] # NoAlert /\ GoesOn(active[s], now[s])
        BY <3>2, <4>1, NotOver
      <4> DEFINE f == <<s, now[s]>>
      <4>3. f \in episodes' /\ f[2] = now[s]
        BY <4>2, <1>1 DEF Current
      <4>4. u \in Moments(now[s])
        BY <4>2 DEF GoesOn
      <4> QED
        BY <4>3, <4>4
    <3> QED
      BY <3>1, <3>2
  <2>2. important' \subseteq AllMoments'
    BY <1>1, <2>1 DEF AllMoments
  <2>3. AllMoments' \subseteq important'
    BY <1>1 DEF AllMoments
  <2> QED
    BY <2>2, <2>3
<1>5. \A s \in Visible(now) : <<s, now[s]>> \in episodes'
  BY <1>1, <1>3 DEF Current
<1>6. ASSUME NEW e \in episodes', e[2] # now[e[1]]
      PROVE  e[2].resolvedAt # Never \/ (forgotten' /\ e[2].state = "pending")
  <2>1. e \in Over(now)
    BY <1>1, <1>2, <1>6
  <2> QED
    BY <2>1, OverFacts
<1>7. ASSUME NEW e \in episodes', e[1] \in Visible(now)
      PROVE  e[2].activeAt <= now[e[1]].activeAt
  <2>1. now[e[1]] # NoAlert /\ e[1] \in Series
    BY <1>3, <1>7
  <2>2. CASE e \in Over(now)
    <3>1. e[2].activeAt < now[e[1]].activeAt
      BY <2>1, <2>2, OverBeforeNew
    <3>2. e[2].activeAt \in Nat /\ now[e[1]].activeAt \in Nat
      BY <2>1, <2>2, <1>1, OverFacts, NoAlertFacts
    <3> QED
      BY <3>1, <3>2
  <2>3. CASE e \in Current(now)
    <3>1. e[2] = now[e[1]] /\ e[2].activeAt \in Nat
      BY <2>1, <2>3, <1>1, <1>2, NoAlertFacts
    <3> QED
      BY <3>1
  <2> QED
    BY <2>2, <2>3, <1>1
<1> QED
  BY <1>1, <1>4, <1>5, <1>6, <1>7 DEF CurrentEpisodes, Visible

(* The first pass keeps the invariant of the episodes.                     *)
LEMMA EpisodesStep ==
    ASSUME ReplayInv, NEW now, FirstPassAt(now)
    PROVE  EpisodesInv'
<1>1. episodes' = Over(now) \cup Current(now)
  BY DEF FirstPassAt
<1>2. ASSUME NEW e \in episodes' PROVE EpisodeInv(e[1], e[2])'
  <2>1. CASE e \in Over(now)
    BY <2>1, OverEpisodeInv
  <2>2. CASE e \in Current(now)
    <3>1. PICK s \in Series : now[s] # NoAlert /\ e = <<s, now[s]>>
      BY <2>2 DEF Current
    <3>2. EpisodeInv(s, now[s])'
      BY <3>1, NewEpisodeInv
    <3>3. e[1] = s /\ e[2] = now[s]
      BY <3>1
    <3> QED
      BY <3>2, <3>3, Zenon
  <2> QED
    BY <1>1, <2>1, <2>2
<1>3. EpisodesApart'
  BY ApartStep
<1>4. ASSUME ~forgotten', NEW s \in Series, NEW u \in evaluated' \cap PointSet(s)'
      PROVE  \E e \in episodes' : e[1] = s /\ Covers(e[2], u)
  <2>1. PointSet(s)' = PointSet(s)
    BY DEF PointSet, FirstPassAt
  <2> QED
    BY <1>4, <2>1, CoveredStep
<1> QED
  BY <1>2, <1>3, <1>4 DEF EpisodesInv

(* ReplayInv without what follows from the rest: that the first answer of  *)
(* a query is a lookup.                                                    *)
CoreInv ==
    /\ TypeOK
    /\ CopiesAtSeamsOnly /\ ChunksAreSeamless
    /\ EvaluatesWholeRange /\ ShownOnce
    /\ WhereItIs /\ EvaluatedSoFar /\ (pass = "eval" /\ ts > maxTimestamp => EvaluatedAll)
    /\ ActiveInv /\ EpisodesInv /\ CurrentEpisodes /\ ShownInv /\ FiringSoFar /\ FaithfulSoFar

(* The entry of the cache, once it is fetched, and the places of the       *)
(* searches.                                                               *)
LEMMA EntryFacts ==
    ASSUME TypeOK, WhereItIs, Fetched
    PROVE  /\ entry \in [Series -> Seq(Times)] /\ \A s \in Series : Ascending(entry[s])
           /\ \A f \in Functions : /\ index[f] \in [Series -> Nat]
                                   /\ \A s \in Series : index[f][s] \in 0 .. Len(entry[s])
<1>1. entry \in [Series -> Seq(Times)] /\ \A s \in Series : Ascending(entry[s])
  BY DEF WhereItIs
<1>2. ASSUME NEW f \in Functions, NEW s \in Series
      PROVE  index[f][s] \in 0 .. Len(entry[s])
  <2>1. index[f][s] \in 0 .. (IF entry = NoEntry THEN 0 ELSE Len(entry[s]))
    BY DEF TypeOK, CacheTypeOK
  <2>2. Len(entry[s]) \in Nat
    BY <1>1
  <2> QED
    BY <2>1, <2>2
<1> QED
  BY <1>1, <1>2 DEF TypeOK, CacheTypeOK

(* A function that has searched up to a time answers which series are      *)
(* there at that time.                                                     *)
LEMMA SearchedFacts ==
    ASSUME TypeOK, WhereItIs, Fetched, NEW f \in Functions, NEW t \in Times,
           \A s \in Series : SearchedUpTo(f, s, t)
    PROVE  Answer(f, t) = {s \in Series : t \in PointSet(s)}
<1> SUFFICES ASSUME NEW s \in Series PROVE Found(index[f], s, t) <=> t \in PointSet(s)
  BY DEF Answer
<1> DEFINE place == index[f]
<1>1. /\ entry \in [Series -> Seq(Times)] /\ Ascending(entry[s])
      /\ place \in [Series -> Nat] /\ place[s] \in 0 .. Len(entry[s])
      /\ place[s] = 0 \/ entry[s][place[s]] < t
  BY EntryFacts DEF SearchedUpTo
<1> HIDE DEF place
<1>2. place[s] <= Len(entry[s])
  BY <1>1
<1>3. Found(place, s, t) <=> t \in PointSet(s)
  BY <1>1, <1>2, Lookup
<1> QED
  BY <1>3 DEF place

(* Where the function has got to when it has been asked, once or twice.    *)
LEMMA SearchStep ==
    ASSUME TypeOK, WhereItIs, Fetched, NEW f \in Functions, NEW t \in Times,
           \A s \in Series : SearchedUpTo(f, s, t), Asked(f, t) \/ AskedTwice(f, t)
    PROVE  /\ range' = range /\ entry' = entry
           /\ index' \in [Functions -> [Series -> Nat]]
           /\ \A g \in Functions, s \in Series : index'[g][s] \in 0 .. Len(entry[s])
           /\ \A g \in Functions : g # f => index'[g] = index[g]
           /\ \A s \in Series, u \in Nat : t < u => SearchedUpTo(f, s, u)'
<1>1. /\ entry \in [Series -> Seq(Times)]
      /\ \A g \in Functions : /\ index[g] \in [Series -> Nat]
                              /\ \A s \in Series : index[g][s] \in 0 .. Len(entry[s])
      /\ index \in [Functions -> [Series -> Nat]] /\ t \in Nat
  BY EntryFacts, NoAlertFacts DEF TypeOK, CacheTypeOK
<1>2. NotBeyond(index[f], t)
  <2> SUFFICES ASSUME NEW s \in Series PROVE index[f][s] = 0 \/ entry[s][index[f][s]] <= t
    BY <1>1 DEF NotBeyond
  <2>1. CASE index[f][s] = 0
    BY <2>1
  <2>2. CASE index[f][s] # 0
    <3>1. index[f][s] \in 1 .. Len(entry[s])
      BY <1>1, <2>2
    <3>2. entry[s][index[f][s]] \in Times
      BY <1>1, <3>1
    <3>3. entry[s][index[f][s]] < t
      BY <2>2 DEF SearchedUpTo
    <3> DEFINE z == entry[s][index[f][s]]
    <3>4. z \in Nat /\ z < t
      BY <3>2, <3>3, NoAlertFacts
    <3> HIDE DEF z
    <3>5. z <= t
      BY <3>4, <1>1
    <3> QED
      BY <3>5 DEF z
  <2> QED
    BY <2>1, <2>2
<1> DEFINE once == Advance(index[f], t)
           twice == Advance(once, t)
<1>3. once \in [Series -> Nat] /\ NotBeyond(once, t)
  BY <1>1, <1>2, AdvanceFacts
<1>4. twice \in [Series -> Nat] /\ NotBeyond(twice, t)
  <2> HIDE DEF once
  <2> QED
    BY <1>1, <1>3, AdvanceFacts
<1>5. PICK place \in {once, twice} : index' = [index EXCEPT ![f] = place]
  BY DEF Asked, AskedTwice
<1>6. place \in [Series -> Nat] /\ NotBeyond(place, t)
  BY <1>3, <1>4, <1>5
<1> HIDE DEF once, twice
<1>7. index'[f] = place /\ \A g \in Functions : g # f => index'[g] = index[g]
  BY <1>1, <1>5
<1>8. range' = range /\ entry' = entry
  BY DEF Asked, AskedTwice
<1>9. index' \in [Functions -> [Series -> Nat]]
  BY <1>1, <1>5, <1>6
<1>10. ASSUME NEW g \in Functions, NEW s \in Series PROVE index'[g][s] \in 0 .. Len(entry[s])
  <2>1. CASE g = f
    BY <2>1, <1>6, <1>7 DEF NotBeyond
  <2>2. CASE g # f
    BY <2>2, <1>1, <1>7
  <2> QED
    BY <2>1, <2>2
<1>11. ASSUME NEW s \in Series, NEW u \in Nat, t < u PROVE SearchedUpTo(f, s, u)'
  <2>1. place[s] = 0 \/ entry[s][place[s]] < u
    <3>1. CASE place[s] = 0
      BY <3>1
    <3>2. CASE place[s] # 0
      <4>1. place[s] \in 1 .. Len(entry[s]) /\ entry[s][place[s]] <= t
        BY <3>2, <1>6 DEF NotBeyond
      <4>2. entry[s][place[s]] \in Times
        BY <4>1, <1>1
      <4> DEFINE z == entry[s][place[s]]
      <4>3. z \in Nat /\ z <= t
        BY <4>1, <4>2, NoAlertFacts
      <4> HIDE DEF z
      <4>4. z < u
        BY <4>3, <1>1, <1>11
      <4> QED
        BY <4>4 DEF z
    <3> QED
      BY <3>1, <3>2
  <2> QED
    BY <2>1, <1>7, <1>8 DEF SearchedUpTo
<1> QED
  BY <1>7, <1>8, <1>9, <1>10, <1>11

(* A search changes no more of the cache than its places.                  *)
LEMMA CacheTypeKept ==
    ASSUME CacheTypeOK, range' = range, entry' = entry, entry \in [Series -> Seq(Times)],
           index' \in [Functions -> [Series -> Nat]],
           \A g \in Functions, s \in Series : index'[g][s] \in 0 .. Len(entry[s])
    PROVE  CacheTypeOK'
<1>1. data' = data /\ maxTimestamp' = maxTimestamp /\ interval' = interval
  BY DEF range
<1>2. ASSUME NEW g \in Functions, NEW s \in Series
      PROVE  index'[g][s] \in 0 .. (IF entry' = NoEntry THEN 0 ELSE Len(entry'[s]))
  <2>1. entry # NoEntry
    BY DEF NoEntry
  <2> QED
    BY <2>1
<1> QED
  BY <1>1, <1>2 DEF CacheTypeOK

(* The first pass keeps the invariant.                                     *)
LEMMA FirstPassStep ==
    ASSUME ReplayInv, FirstPass
    PROVE  CoreInv'
<1>1. PICK now : FirstPassAt(now)
  BY FirstPassNow
<1>2. TypeOK /\ WhereItIs /\ Fetched /\ EvaluatedSoFar /\ CopiesAtSeamsOnly /\ ChunksAreSeamless /\ ShownOnce
  BY <1>1 DEF ReplayInv, Fetched, FirstPassAt
<1>3. /\ pass = "eval" /\ pass' = "eval" /\ ts \in Times /\ ts <= maxTimestamp /\ ts \in Nat
      /\ active' = now /\ now \in [Series -> Alerts \cup {NoAlert}]
      /\ evaluated' = evaluated \cup {ts} /\ ts' = NextIter(ts)
      /\ holdDuration' = holdDuration /\ limit' = limit /\ range' = range /\ entry' = entry
      /\ activeAlertsByLabels' = activeAlertsByLabels /\ forgotten' \in BOOLEAN
      /\ important' = important \cup UNION {Moments(e[2]) : e \in Current(now)}
      /\ episodes' = Over(now) \cup Current(now)
      /\ data' = data /\ maxTimestamp' = maxTimestamp /\ interval' = interval
  BY <1>1, NoAlertFacts DEF FirstPassAt, EvaluatesAt, range
<1>4. /\ maxTimestamp \in Int /\ interval \in Nat \ {0}
  BY <1>2, GridAssumption DEF TypeOK, CacheTypeOK
<1>5. /\ ts' \in Nat /\ ts < ts'
      /\ ts' <= maxTimestamp => /\ evaluated' = {u \in Steps(0, maxTimestamp, interval) : u < ts'}
                                /\ ts' % interval = 0 \/ ts' = maxTimestamp
      /\ ts' > maxTimestamp => evaluated' = Steps(0, maxTimestamp, interval) \cup {maxTimestamp}
  <2>1. /\ evaluated = {u \in Steps(0, maxTimestamp, interval) : u < ts}
        /\ ts % interval = 0 \/ ts = maxTimestamp
    BY <1>2, <1>3 DEF EvaluatedSoFar
  <2>2. ts' = IF maxTimestamp - ts # 0 /\ maxTimestamp - ts < interval THEN maxTimestamp ELSE ts + interval
    BY <1>3 DEF NextIter
  <2>3. PICK E, next, end, step, t :
           /\ E = evaluated /\ next = ts' /\ end = maxTimestamp /\ step = interval /\ t = ts
    OBVIOUS
  <2>4. /\ next \in Nat /\ t < next
        /\ next <= end => /\ E \cup {t} = {u \in Steps(0, end, step) : u < next}
                          /\ next % step = 0 \/ next = end
        /\ next > end => E \cup {t} = Steps(0, end, step) \cup {end}
    <3>1. OnGrid(end, step, t, E, next)
      BY <1>3, <1>4, <2>1, <2>2, <2>3 DEF OnGrid
    <3> QED
      BY <3>1, GridStep
  <2> QED
    BY <1>3, <2>3, <2>4
<1>6. /\ "eval" \in Functions /\ "replay" \in Functions /\ \A s \in Series : SearchedUpTo("eval", s, ts)
      /\ Asked("eval", ts)
  BY <1>2, <1>3 DEF Functions, WhereItIs, FirstPass
<1>7. /\ index' \in [Functions -> [Series -> Nat]]
      /\ \A g \in Functions, s \in Series : index'[g][s] \in 0 .. Len(entry[s])
      /\ index'["replay"] = index["replay"]
      /\ \E u : u = ts' /\ \A s \in Series : SearchedUpTo("eval", s, u)'
  <2>1. /\ index' \in [Functions -> [Series -> Nat]]
        /\ \A g \in Functions, s \in Series : index'[g][s] \in 0 .. Len(entry[s])
        /\ \A g \in Functions : g # "eval" => index'[g] = index[g]
        /\ \A s \in Series, u \in Nat : ts < u => SearchedUpTo("eval", s, u)'
    BY <1>2, <1>3, <1>6, SearchStep
  <2>2. PICK u \in Nat : u = ts' /\ ts < u
    BY <1>5
  <2>3. \A s \in Series : SearchedUpTo("eval", s, u)'
    BY <2>1, <2>2
  <2>4. index'["replay"] = index["replay"]
    BY <2>1, <1>6
  <2> QED
    BY <2>1, <2>2, <2>3, <2>4
<1>8. \A e \in Current(now) : e[1] \in Series /\ e[2] \in Alerts /\ Lifecycle(e[2]) /\ e = <<e[1], e[2]>>
  <2> SUFFICES ASSUME NEW s \in Series, now[s] # NoAlert
               PROVE  now[s] \in Alerts /\ Lifecycle(now[s])
    BY DEF Current
  <2> QED
    BY <1>1, NowFacts
<1>9. TypeOK'
  <2>1. CacheTypeOK'
    BY <1>2, <1>3, <1>7, EntryFacts, CacheTypeKept DEF TypeOK
  <2>2. important' \subseteq Times
    BY <1>2, <1>3, <1>8, MomentFacts DEF TypeOK
  <2>3. episodes' \subseteq Series \X Alerts
    BY <1>2, <1>3, <1>8 DEF TypeOK, Over
  <2> QED
    BY <2>1, <2>2, <2>3, <1>2, <1>3, <1>5 DEF TypeOK
<1>10. CopiesAtSeamsOnly' /\ ChunksAreSeamless' /\ ShownOnce'
  BY <1>2, <1>3 DEF CopiesAtSeamsOnly, ChunksAreSeamless, ShownOnce, PointSet
<1>11. WhereItIs'
  <2>1. \A s \in Series : SearchedUpTo("eval", s, ts)'
    <3>1. PICK u : u = ts' /\ \A s \in Series : SearchedUpTo("eval", s, u)'
      BY <1>7
    <3> QED
      BY <3>1 DEF SearchedUpTo
  <2>2. NoneShown' /\ \A s \in Series : index'["replay"][s] = 0
    BY <1>2, <1>3, <1>7 DEF WhereItIs, NoneShown
  <2>3. entry' \in [Series -> Seq(Times)] /\ \A s \in Series : Ascending(entry'[s])
    BY <1>2, <1>3, EntryFacts
  <2> QED
    BY <2>1, <2>2, <2>3, <1>3 DEF WhereItIs
<1>12. EvaluatedSoFar' /\ (pass' = "eval" /\ ts' > maxTimestamp' => EvaluatedAll')
  BY <1>3, <1>4, <1>5 DEF EvaluatedSoFar, EvaluatedAll
<1>13. ActiveInv'
  <2> SUFFICES ASSUME NEW s \in Series, now[s] # NoAlert PROVE now[s] \in Alerts /\ Lifecycle(now[s])
    BY <1>3 DEF ActiveInv
  <2> QED
    BY <1>1, NowFacts
<1>14. EpisodesInv' /\ CurrentEpisodes'
  BY <1>1, EpisodesStep, CurrentStep
<1> QED
  BY <1>3, <1>9, <1>10, <1>11, <1>12, <1>13, <1>14
     DEF CoreInv, EvaluatesWholeRange, ShownInv, FiringSoFar, FaithfulSoFar

-----------------------------------------------------------------------------
(* The second pass.                                                        *)

(* An alert is shown as it is, a resolved one as having fired.             *)
LEMMA ShownFacts ==
    ASSUME NEW a \in Alerts
    PROVE  /\ AsShown(a) \in Alerts
           /\ AsShown(a).state = IF a.state = "inactive" THEN "firing" ELSE a.state
           /\ AsShown(a).activeAt = a.activeAt /\ AsShown(a).firedAt = a.firedAt
           /\ AsShown(a).resolvedAt = a.resolvedAt
           /\ a.state # "inactive" => AsShown(a) = a
BY DEF AsShown, Alerts

(* An alert is its state and its three times.                              *)
LEMMA SameRecord ==
    ASSUME NEW a \in Alerts, NEW b \in Alerts, a.state = b.state, a.activeAt = b.activeAt,
           a.firedAt = b.firedAt, a.resolvedAt = b.resolvedAt
    PROVE  a = b
BY DEF Alerts

(* Merging into a list of one alert that decides.                          *)
LEMMA MergeSingle ==
    ASSUME NEW o, NEW p, Decides(o, p)
    PROVE  Merge(<<o>>, p) = <<Merged(o, p)>>
<1>0. PICK list : list = <<o>>
  OBVIOUS
<1>1. DOMAIN list = {1} /\ list[1] = o
  BY <1>0
<1> DEFINE deciding == {j \in DOMAIN list : Decides(list[j], p)}
<1>2. deciding = {1}
  BY <1>1
<1>3. Merge(list, p) = IF deciding = {} THEN Append(list, p)
                       ELSE [list EXCEPT ![Min(deciding)] = Merged(list[Min(deciding)], p)]
  BY DEF Merge
<1> HIDE DEF deciding
<1>4. Min({1}) = 1
  <2>1. {1} \subseteq Nat /\ {1} # {}
    OBVIOUS
  <2>2. Min({1}) \in {1}
    BY <2>1, MinFacts
  <2> QED
    BY <2>2
<1>5. Merge(list, p) = [list EXCEPT ![1] = Merged(list[1], p)]
  BY <1>2, <1>3, <1>4
<1>6. PICK m : m = Merged(o, p)
  OBVIOUS
<1>7. Merge(list, p) = [list EXCEPT ![1] = m]
  BY <1>1, <1>5, <1>6
<1>8. [list EXCEPT ![1] = m] = <<m>>
  BY <1>0
<1> QED
  BY <1>0, <1>6, <1>7, <1>8

(* The list of an alert that goes on is kept in step with it.              *)
LEMMA MergeGoesOn ==
    ASSUME NEW a \in Alerts, Lifecycle(a), NEW t \in Times, \A u \in Moments(a) : u < t,
           NEW p, \/ p = a
                  \/ a.state = "pending" /\ BecomesFiring(a, p, t)
                  \/ a.state = "firing" /\ BecomesResolved(a, p, t)
    PROVE  Merge(<<AsShown(a)>>, p) = <<AsShown(p)>>
<1>0. PICK o : o = AsShown(a)
  OBVIOUS
<1>1. /\ o \in Alerts /\ o.state = (IF a.state = "inactive" THEN "firing" ELSE a.state)
      /\ o.activeAt = a.activeAt /\ o.firedAt = a.firedAt /\ o.resolvedAt = a.resolvedAt
      /\ a.state # "inactive" => o = a
  BY <1>0, ShownFacts
<1>2. t # Never /\ a.state \in {"pending", "firing", "inactive"}
      /\ (a.state = "inactive" <=> a.resolvedAt # Never)
  BY NoAlertFacts, ResolvedFacts
<1>3. CASE p = a
  <2>1. ~Resolves(o, p) /\ ~Advances(o, p)
    BY <1>1, <1>2, <1>3 DEF Resolves, Advances
  <2>2. Decides(o, p)
    BY <1>1, <1>2, <1>3 DEF Decides, SameAlert
  <2>3. Merged(o, p) = o
    BY <2>1 DEF Merged
  <2> QED
    BY <1>0, <1>3, <2>2, <2>3, MergeSingle
<1>4. CASE a.state = "pending" /\ BecomesFiring(a, p, t)
  <2>1. ~Resolves(o, p) /\ Advances(o, p)
    BY <1>1, <1>2, <1>4 DEF Resolves, Advances, BecomesFiring
  <2>2. Decides(o, p) /\ Merged(o, p) = p
    BY <2>1 DEF Decides, Merged
  <2>3. AsShown(p) = p
    BY <1>4, ShownFacts DEF BecomesFiring
  <2> QED
    BY <1>0, <2>2, <2>3, MergeSingle
<1>5. CASE a.state = "firing" /\ BecomesResolved(a, p, t)
  <2>1. Resolves(o, p)
    BY <1>1, <1>2, <1>5, NoAlertFacts DEF Resolves, BecomesResolved
  <2>2. Decides(o, p)
    BY <2>1 DEF Decides
  <2>6. Merged(o, p) = [o EXCEPT !.resolvedAt = p.resolvedAt]
    <3>1. ~Advances(o, p)
      BY <1>5 DEF Advances, BecomesResolved
    <3> QED
      BY <2>1, <3>1, Zenon DEF Merged
  <2>3. p \in Alerts /\ p.state = "inactive" /\ p.activeAt = a.activeAt /\ p.firedAt = a.firedAt /\ p.resolvedAt = t
    BY <1>5 DEF BecomesResolved
  <2> DEFINE m == [o EXCEPT !.resolvedAt = p.resolvedAt]
  <2>4. m \in Alerts /\ m.state = o.state /\ m.activeAt = o.activeAt /\ m.firedAt = o.firedAt /\ m.resolvedAt = t
    BY <1>1, <2>3 DEF Alerts
  <2> HIDE DEF m
  <2>5. m = AsShown(p)
    BY <2>3, <2>4, <1>1, <1>5, ShownFacts, SameRecord
  <2> QED
    BY <1>0, <2>2, <2>5, <2>6, MergeSingle DEF m
<1> QED
  BY <1>3, <1>4, <1>5

(* A new alert starts its list.                                            *)
LEMMA MergeBegins ==
    ASSUME NEW p, NEW t, Begins(p, t)
    PROVE  Merge(<<>>, p) = <<AsShown(p)>>
<1>1. {j \in DOMAIN <<>> : Decides(<<>>[j], p)} = {}
  OBVIOUS
<1>2. Merge(<<>>, p) = Append(<<>>, p)
  BY <1>1 DEF Merge
<1>3. AsShown(p) = p
  BY ShownFacts DEF Begins
<1> QED
  BY <1>2, <1>3

-----------------------------------------------------------------------------
(* A step of the second pass at t that makes the alerts those of now.      *)
SecondPassAt(t, now) ==
    /\ pass = "replay" /\ pass' = "replay"
    /\ t \in important /\ t \in Times /\ t \in Nat /\ \A u \in important \ {t} : t < u
    /\ EvaluatesAt(t, now) /\ active' = now
    /\ important' = important \ {t}
    /\ AllMoments' = AllMoments /\ t \in AllMoments /\ t \in evaluated
    /\ Past' = Past \cup {t} /\ \A u \in Past : u \in Times /\ u \in Nat /\ u < t
    /\ ts' = ts /\ evaluated' = evaluated /\ episodes' = episodes /\ forgotten' = forgotten
    /\ holdDuration' = holdDuration /\ limit' = limit /\ range' = range /\ entry' = entry

(* SecondPass at t makes the alerts those evaluated at t.                  *)
LEMMA SecondPassNow ==
    ASSUME ReplayInv, NEW t, SecondPass(t)
    PROVE  SecondPassAt(t, Evaluated(t))
<1>1. TypeOK /\ WhereItIs /\ ActiveInv /\ ShownInv /\ EpisodesInv
  BY DEF ReplayInv
<1>2. /\ pass = "replay" /\ pass' = "replay" /\ important # {} /\ t = Min(important)
      /\ active' = Evaluated(t) /\ important' = important \ {t}
      /\ ts' = ts /\ evaluated' = evaluated /\ episodes' = episodes /\ forgotten' = forgotten
      /\ holdDuration' = holdDuration /\ limit' = limit /\ range' = range /\ entry' = entry
  BY <1>1 DEF SecondPass, rule, history, Asked, AskedTwice
<1>3. important \subseteq Times /\ important \subseteq Nat
  BY <1>1, NoAlertFacts DEF TypeOK
<1>4. t \in important /\ \A u \in important \ {t} : t < u
  <2>1. t \in important /\ \A u \in important : t <= u
    BY <1>2, <1>3, MinFacts
  <2> QED
    BY <2>1, <1>3
<1>5. Answer(pass, t) = {s \in Series : t \in PointSet(s)}
  <2>1. Fetched /\ "replay" \in Functions /\ \A s \in Series : SearchedUpTo("replay", s, t)
    BY <1>1, <1>2, <1>4 DEF Fetched, Functions, WhereItIs
  <2> QED
    BY <1>1, <1>2, <1>3, <1>4, <2>1, SearchedFacts
<1>6. EvaluatesAt(t, Evaluated(t))
  <2>1. holdDuration \in Nat /\ active \in [Series -> Alerts \cup {NoAlert}] /\ t \in Times
    BY <1>1, <1>3, <1>4, ReplayAssumption DEF TypeOK
  <2> QED
    BY <2>1, <1>1, <1>5, EvaluatedFacts
<1>7. AllMoments' = AllMoments
  BY <1>2 DEF AllMoments
<1>8. important \subseteq AllMoments /\ \A u \in Past, v \in important : u < v
  BY <1>1, <1>2 DEF ShownInv
<1>9. AllMoments \subseteq evaluated /\ AllMoments \subseteq Times
  <2>1. \A e \in episodes : Moments(e[2]) \subseteq evaluated
    BY <1>1, <1>2 DEF EpisodesInv, Fetched, EpisodeInv
  <2> QED
    BY <2>1, <1>1 DEF AllMoments, TypeOK
<1>10. Past' = Past \cup {t} /\ \A u \in Past : u \in Times /\ u \in Nat /\ u < t
  <2>1. Past' = Past \cup {t}
    BY <1>2, <1>4, <1>7, <1>8 DEF Past
  <2>2. Past \subseteq Times
    BY <1>9 DEF Past
  <2> QED
    BY <2>1, <2>2, <1>4, <1>8, NoAlertFacts
<1> QED
  BY <1>2, <1>3, <1>4, <1>6, <1>7, <1>8, <1>9, <1>10 DEF SecondPassAt

(* The alert of a series before and after a step of the second pass.       *)
LEMMA ReplayNow ==
    ASSUME ReplayInv, NEW t, NEW now, SecondPassAt(t, now), NEW s \in Series
    PROVE  /\ active[s] = NoAlert
              \/ (/\ active[s] \in Alerts /\ Lifecycle(active[s]) /\ Moments(active[s]) \subseteq Past
                  /\ activeAlertsByLabels[<<s, active[s].activeAt>>] = <<AsShown(active[s])>>)
           /\ now[s] \in Alerts \cup {NoAlert}
           /\ now[s] # NoAlert =>
                 /\ now[s] \in Alerts /\ Lifecycle(now[s])
                 /\ Moments(now[s]) \subseteq Moments(active[s]) \cup {t}
                 /\ \/ GoesOn(active[s], now[s]) /\ now[s].activeAt < t
                    \/ Begins(now[s], t) /\ active[s].state \in {"none", "inactive"}
<1> DEFINE a == active[s]
           p == now[s]
<1>1. TypeOK /\ ActiveInv /\ ShownInv
  BY DEF ReplayInv
<1>2. pass = "replay" /\ t \in Times /\ EvaluatesAt(t, now) /\ \A u \in Past : u < t
  BY DEF SecondPassAt
<1>3. active \in [Series -> Alerts \cup {NoAlert}] /\ holdDuration \in Nat
  BY <1>1, ReplayAssumption DEF TypeOK
<1>4. a = NoAlert \/ (/\ a \in Alerts /\ Lifecycle(a) /\ Moments(a) \subseteq Past
                      /\ activeAlertsByLabels[<<s, a.activeAt>>] = <<AsShown(a)>>)
  <2> SUFFICES ASSUME a # NoAlert
               PROVE  /\ a \in Alerts /\ Lifecycle(a) /\ Moments(a) \subseteq Past
                      /\ activeAlertsByLabels[<<s, a.activeAt>>] = <<AsShown(a)>>
    OBVIOUS
  <2>1. a \in Alerts /\ Lifecycle(a)
    BY <1>3, <1>1 DEF ActiveInv
  <2>2. s \in Visible(active)
    BY <1>3, VisibleFacts
  <2> QED
    BY <2>1, <2>2, <1>1, <1>2 DEF ShownInv
<1>5. Here(a, p, t) \/ Gone(a, p, t)
  BY <1>2 DEF EvaluatesAt
<1>6. \A u \in Moments(a) : u < t
  BY <1>4, <1>2, MomentFacts
<1>7. a \in Alerts \cup {NoAlert} /\ (a # NoAlert => Lifecycle(a))
  BY <1>4
<1>8. /\ p \in Alerts \cup {NoAlert}
      /\ p # NoAlert => /\ p \in Alerts /\ Lifecycle(p)
                        /\ Moments(p) \subseteq Moments(a) \cup {t}
                        /\ \/ GoesOn(a, p) /\ p.activeAt < t
                           \/ Begins(p, t) /\ a.state \in {"none", "inactive"}
  <2> HIDE DEF a, p
  <2> QED
    BY <1>2, <1>3, <1>5, <1>6, <1>7, MoveFacts
<1> QED
  BY <1>4, <1>8

(* What the lists are after the step.                                      *)
ListsAt(now) ==
    /\ activeAlertsByLabels' \in [Series \X Times -> Seq(Alerts)]
    /\ \A s \in Series, u \in Times :
          activeAlertsByLabels'[<<s, u>>] =
             IF now[s] # NoAlert /\ u = now[s].activeAt THEN <<AsShown(now[s])>>
             ELSE activeAlertsByLabels[<<s, u>>]

(* SecondPass changes the list of the alert of now and no other.           *)
LEMMA ListsStep ==
    ASSUME ReplayInv, NEW t, SecondPass(t)
    PROVE  ListsAt(Evaluated(t))
<1>0. PICK now : now = Evaluated(t)
  OBVIOUS
<1>1. SecondPassAt(t, now)
  BY <1>0, SecondPassNow
<1>2. now \in [Series -> Alerts \cup {NoAlert}]
  BY <1>1 DEF SecondPassAt, EvaluatesAt
<1>3. activeAlertsByLabels' = [b \in Series \X Times |->
                 IF b[1] \in Visible(now) /\ b[2] = now[b[1]].activeAt
                 THEN Merge(activeAlertsByLabels[b], now[b[1]])
                 ELSE activeAlertsByLabels[b]]
  BY <1>0 DEF SecondPass
<1>4. \A s \in Series : s \in Visible(now) <=> now[s] # NoAlert
  BY <1>2, VisibleFacts
<1>5. ASSUME NEW s \in Series, NEW u \in Times
      PROVE  activeAlertsByLabels'[<<s, u>>] =
                IF now[s] # NoAlert /\ u = now[s].activeAt THEN <<AsShown(now[s])>>
                ELSE activeAlertsByLabels[<<s, u>>]
  <2>0. PICK b : b = <<s, u>>
    OBVIOUS
  <2>1. b \in Series \X Times /\ b[1] = s /\ b[2] = u
    BY <2>0
  <2>2. activeAlertsByLabels'[b] = IF now[s] # NoAlert /\ u = now[s].activeAt
                                   THEN Merge(activeAlertsByLabels[b], now[s])
                                   ELSE activeAlertsByLabels[b]
    BY <1>3, <1>4, <2>1
  <2>3. CASE now[s] # NoAlert /\ u = now[s].activeAt
    <3>1. PICK a, p : a = active[s] /\ p = now[s]
      OBVIOUS
    <3>2. /\ p \in Alerts /\ (GoesOn(a, p) \/ Begins(p, t))
          /\ a = NoAlert \/ (/\ a \in Alerts /\ Lifecycle(a) /\ Moments(a) \subseteq Past
                             /\ activeAlertsByLabels[<<s, a.activeAt>>] = <<AsShown(a)>>)
      BY <2>3, <3>1, <1>1, ReplayNow
    <3>3. t \in Times /\ (\A v \in Past : v < t) /\ (Here(a, p, t) \/ Gone(a, p, t)) /\ t \in Nat
      BY <1>1, <3>1 DEF SecondPassAt, EvaluatesAt
    <3>4. CASE GoesOn(a, p)
      <4>1. a \in Alerts /\ p.activeAt = a.activeAt
        BY <3>4 DEF GoesOn
      <4>2. /\ Lifecycle(a) /\ Moments(a) \subseteq Past
            /\ activeAlertsByLabels[<<s, a.activeAt>>] = <<AsShown(a)>>
        BY <3>2, <4>1, NoAlertFacts
      <4>3. activeAlertsByLabels[b] = <<AsShown(a)>>
        BY <2>0, <2>3, <3>1, <4>1, <4>2
      <4>4. \A v \in Moments(a) : v < t
        BY <4>2, <3>3
      <4>5. \/ p = a
            \/ a.state = "pending" /\ BecomesFiring(a, p, t)
            \/ a.state = "firing" /\ BecomesResolved(a, p, t)
        <5>1. a.activeAt < t
          BY <4>1, <4>4, MomentFacts
        <5>2. p # NoAlert /\ ~Begins(p, t)
          BY <5>1, <4>1, <3>2, <3>3, NoAlertFacts DEF Begins
        <5> QED
          BY <5>2, <3>3 DEF Here, Gone
      <4>6. Merge(<<AsShown(a)>>, p) = <<AsShown(p)>>
        BY <4>1, <4>2, <4>4, <4>5, <3>3, MergeGoesOn
      <4> QED
        BY <2>0, <2>2, <2>3, <3>1, <4>3, <4>6
    <3>5. CASE Begins(p, t)
      <4>1. u = t
        BY <2>3, <3>1, <3>5 DEF Begins
      <4>2. activeAlertsByLabels[b] = <<>>
        <5>1. activeAlertsByLabels[b] # <<>> => b[2] \in Past
          BY <1>1, <2>1 DEF ReplayInv, ShownInv, SecondPassAt
        <5> QED
          BY <5>1, <2>1, <3>3, <4>1
      <4>3. Merge(<<>>, p) = <<AsShown(p)>>
        BY <3>5, MergeBegins
      <4> QED
        BY <2>0, <2>2, <2>3, <3>1, <4>2, <4>3
    <3> QED
      BY <3>2, <3>4, <3>5
  <2>4. CASE ~(now[s] # NoAlert /\ u = now[s].activeAt)
    BY <2>0, <2>2, <2>4
  <2> QED
    BY <2>3, <2>4
<1>6. activeAlertsByLabels' \in [Series \X Times -> Seq(Alerts)]
  <2>1. ASSUME NEW s \in Series, NEW u \in Times PROVE activeAlertsByLabels'[<<s, u>>] \in Seq(Alerts)
    <3>1. activeAlertsByLabels[<<s, u>>] \in Seq(Alerts)
      BY DEF ReplayInv, TypeOK
    <3>2. ASSUME now[s] # NoAlert PROVE <<AsShown(now[s])>> \in Seq(Alerts)
      <4>1. now[s] \in Alerts
        BY <3>2, <1>2
      <4>2. AsShown(now[s]) \in Alerts
        BY <4>1, ShownFacts
      <4> QED
        BY <4>2
    <3> QED
      BY <3>1, <3>2, <1>5
  <2>2. \A b \in Series \X Times : activeAlertsByLabels'[b] \in Seq(Alerts)
    <3> SUFFICES ASSUME NEW b \in Series \X Times PROVE activeAlertsByLabels'[b] \in Seq(Alerts)
      OBVIOUS
    <3>1. b = <<b[1], b[2]>> /\ b[1] \in Series /\ b[2] \in Times
      OBVIOUS
    <3> QED
      BY <3>1, <2>1
  <2>3. \E L : activeAlertsByLabels' = [b \in Series \X Times |-> L[b]]
    BY <1>3
  <2> QED
    BY <2>2, <2>3
<1> QED
  BY <1>0, <1>5, <1>6 DEF ListsAt

(* The second pass keeps what it shows in step with its alerts.            *)
LEMMA ShownStep ==
    ASSUME ReplayInv, NEW t, NEW now, SecondPassAt(t, now), ListsAt(now)
    PROVE  ShownInv' /\ ShownOnce'
<1>1. /\ pass' = "replay" /\ pass = "replay" /\ t \in important /\ important' = important \ {t}
      /\ active' = now /\ AllMoments' = AllMoments /\ Past' = Past \cup {t}
      /\ \A u \in important \ {t} : t < u
      /\ now \in [Series -> Alerts \cup {NoAlert}]
  BY DEF SecondPassAt, EvaluatesAt
<1>2. ShownInv
  BY DEF ReplayInv
<1>3. ASSUME NEW s \in Series, now[s] # NoAlert
      PROVE  /\ Moments(now[s]) \subseteq Past \cup {t} /\ now[s].activeAt \in Moments(now[s])
             /\ now[s].activeAt \in Times
             /\ activeAlertsByLabels'[<<s, now[s].activeAt>>] = <<AsShown(now[s])>>
  <2>1. now[s] \in Alerts /\ Moments(now[s]) \subseteq Moments(active[s]) \cup {t}
    BY <1>3, ReplayNow
  <2>2. active[s] = NoAlert \/ Moments(active[s]) \subseteq Past
    BY ReplayNow
  <2>3. Moments(now[s]) \subseteq Past \cup {t}
    BY <2>1, <2>2, MomentFacts
  <2>4. now[s].activeAt \in Moments(now[s]) /\ now[s].activeAt \in Times
    BY <2>1, MomentFacts, NoAlertFacts
  <2> QED
    BY <2>3, <2>4, <1>3 DEF ListsAt
<1>4. ASSUME NEW b \in Series \X Times, activeAlertsByLabels'[b] # <<>>
      PROVE  b[2] \in Past \cup {t} /\ Len(activeAlertsByLabels'[b]) = 1
  <2>1. PICK s \in Series, u \in Times : b = <<s, u>>
    OBVIOUS
  <2>2. CASE now[s] # NoAlert /\ u = now[s].activeAt
    <3>1. activeAlertsByLabels'[b] = <<AsShown(now[s])>>
      BY <2>1, <2>2, <1>3
    <3>2. u \in Past \cup {t}
      BY <2>2, <1>3
    <3> QED
      BY <2>1, <3>1, <3>2
  <2>3. CASE ~(now[s] # NoAlert /\ u = now[s].activeAt)
    <3>1. activeAlertsByLabels'[b] = activeAlertsByLabels[b]
      BY <2>1, <2>3 DEF ListsAt
    <3> QED
      BY <3>1, <1>1, <1>2, <1>4 DEF ShownInv
  <2> QED
    BY <2>2, <2>3
<1>5. \A s \in Visible(now) : s \in Series /\ now[s] # NoAlert
  BY <1>1, VisibleFacts
<1>6. ShownInv'
  <2>1. important' \subseteq AllMoments'
    BY <1>1, <1>2 DEF ShownInv
  <2>2. \A u \in Past', v \in important' : u < v
    BY <1>1, <1>2 DEF ShownInv
  <2>3. \A s \in Visible(now) :
           /\ Moments(now[s]) \subseteq Past'
           /\ activeAlertsByLabels'[<<s, now[s].activeAt>>] = <<AsShown(now[s])>>
    BY <1>1, <1>3, <1>5
  <2>4. \A b \in Series \X Times : activeAlertsByLabels'[b] # <<>> =>
           b[2] \in Past' /\ Len(activeAlertsByLabels'[b]) = 1
    BY <1>1, <1>4
  <2> QED
    BY <2>1, <2>2, <2>3, <2>4, <1>1 DEF ShownInv
<1>7. ShownOnce'
  <2>1. \A b \in Series \X Times : activeAlertsByLabels'[b] = <<>> \/ Len(activeAlertsByLabels'[b]) = 1
    BY <1>4
  <2>2. ASSUME NEW b \in Series \X Times PROVE Len(activeAlertsByLabels'[b]) <= 1
    <3>1. PICK l : l = activeAlertsByLabels'[b]
      OBVIOUS
    <3>2. Len(l) = 0 \/ Len(l) = 1
      BY <2>1, <3>1
    <3>3. Len(l) <= 1
      BY <3>2
    <3> QED
      BY <3>1, <3>3
  <2> QED
    BY <2>2 DEF ShownOnce
<1> QED
  BY <1>6, <1>7

(* An episode at the time the second pass has come to.                     *)
LEMMA EpisodeThen ==
    ASSUME ReplayInv, NEW t, NEW now, SecondPassAt(t, now), NEW e \in episodes
    PROVE  /\ e[1] \in Series /\ e[2] \in Alerts /\ Lifecycle(e[2]) /\ t \in Nat
           /\ e[2].activeAt \in Nat
           /\ \A m \in Moments(e[2]) : m \in Nat /\ (m \in Past <=> m < t) /\ (m \in Past' <=> m <= t)
           /\ Never \notin Past /\ Never \notin Past'
           /\ e[2].firedAt # Never => e[2].firedAt - e[2].activeAt >= holdDuration
           /\ e[2].resolvedAt = t => t \notin PointSet(e[1])
           /\ e[2].state # "pending" \/ ~forgotten =>
                 /\ Covers(e[2], t) => t \in PointSet(e[1])
                 /\ e[2].activeAt <= t /\ (e[2].firedAt # Never => t < e[2].firedAt) =>
                       t - e[2].activeAt < holdDuration
<1>1. /\ t \in Nat /\ t \in evaluated /\ t \in important /\ \A u \in important \ {t} : t < u
      /\ pass = "replay" /\ Past' = Past \cup {t} /\ \A u \in Past : u \in Times /\ u \in Nat /\ u < t
      /\ important \subseteq Times
  BY DEF SecondPassAt, ReplayInv, TypeOK
<1>2. e[1] \in Series /\ e[2] \in Alerts /\ EpisodeInv(e[1], e[2])
  BY <1>1 DEF ReplayInv, TypeOK, EpisodesInv, Fetched
<1>3. Moments(e[2]) \subseteq AllMoments
  BY DEF AllMoments
<1>4. \A m \in Moments(e[2]) : m \in Nat /\ (m \in Past \/ m \in important)
  BY <1>2, <1>3, MomentFacts, NoAlertFacts DEF Past
<1>5. \A m \in Moments(e[2]) : (m \in Past <=> m < t) /\ (m \in Past' <=> m <= t)
  BY <1>1, <1>4
<1>6. Never \notin Past /\ Never \notin Past'
  BY <1>1, NoAlertFacts DEF Never
<1>7. e[2].resolvedAt = t => t \notin PointSet(e[1])
  BY <1>1, <1>2, NoAlertFacts DEF EpisodeInv, Never
<1> QED
  BY <1>1, <1>2, <1>4, <1>5, <1>6, <1>7, NoAlertFacts DEF EpisodeInv

(* Its times, compared with that time.                                     *)
LEMMA EpisodeOrder ==
    ASSUME ReplayInv, NEW t, NEW now, SecondPassAt(t, now), NEW e \in episodes,
           NEW x, x = e[2]
    PROVE  /\ x.activeAt \in Past <=> x.activeAt < t
           /\ x.activeAt \in Past' <=> x.activeAt <= t
           /\ x.firedAt \in Past <=> x.firedAt # Never /\ x.firedAt < t
           /\ x.firedAt \in Past' <=> x.firedAt # Never /\ x.firedAt <= t
           /\ x.resolvedAt \in Past <=> x.resolvedAt # Never /\ x.resolvedAt < t
           /\ x.resolvedAt \in Past' <=> x.resolvedAt # Never /\ x.resolvedAt <= t
           /\ x.firedAt # Never => x.firedAt \in Nat /\ x.activeAt <= x.firedAt
           /\ x.resolvedAt # Never => x.resolvedAt \in Nat /\ x.firedAt # Never /\ x.firedAt < x.resolvedAt
           /\ x.firedAt # Never <=> x.state # "pending"
<1>1. /\ x \in Alerts /\ Lifecycle(x)
      /\ \A m \in Moments(x) : m \in Nat /\ (m \in Past <=> m < t) /\ (m \in Past' <=> m <= t)
      /\ Never \notin Past /\ Never \notin Past'
  BY EpisodeThen
<1>2. /\ x.activeAt \in Moments(x) /\ (x.firedAt # Never => x.firedAt \in Moments(x))
      /\ (x.resolvedAt # Never => x.resolvedAt \in Moments(x))
  BY <1>1, MomentFacts
<1>3. /\ x.state = "inactive" <=> x.resolvedAt # Never
      /\ x.state = "pending" <=> x.firedAt = Never
      /\ x.resolvedAt # Never => x.firedAt < x.resolvedAt
      /\ x.firedAt # Never => x.activeAt <= x.firedAt
  BY <1>1, ResolvedFacts
<1> QED
  BY <1>1, <1>2, <1>3

(* An alert the first pass saw fire, while it lasts.                       *)
LEMMA FiringGoesOn ==
    ASSUME ReplayInv, NEW t, NEW now, SecondPassAt(t, now), NEW e \in episodes,
           e[2].firedAt # Never, e[2].activeAt \in Past', e[2].resolvedAt \notin Past'
    PROVE  /\ now[e[1]].state \in {"pending", "firing"} /\ now[e[1]].activeAt <= e[2].activeAt
           /\ e[2].firedAt \in Past' =>
                 now[e[1]].state = "firing" /\ now[e[1]].firedAt <= e[2].firedAt
<1>1. PICK s, x, a, p : s = e[1] /\ x = e[2] /\ a = active[s] /\ p = now[s]
  OBVIOUS
<1>2. s \in Series /\ x.activeAt \in Nat /\ t \in Nat /\ t \in Times /\ holdDuration \in Nat
      /\ x.firedAt - x.activeAt >= holdDuration
      /\ (Covers(x, t) /\ x.state # "pending" => t \in PointSet(s))
  BY <1>1, EpisodeThen, ReplayAssumption DEF SecondPassAt, ReplayInv, TypeOK
<1>3. /\ x.activeAt \in Past <=> x.activeAt < t
      /\ x.activeAt <= t
      /\ x.firedAt \in Past <=> x.firedAt < t
      /\ x.firedAt \in Past' <=> x.firedAt <= t
      /\ x.resolvedAt # Never => t < x.resolvedAt /\ x.resolvedAt \notin Past
      /\ x.firedAt \in Nat /\ x.activeAt <= x.firedAt /\ x.state # "pending"
  <2>1. /\ x.activeAt \in Past <=> x.activeAt < t
        /\ x.activeAt \in Past' <=> x.activeAt <= t
        /\ x.firedAt \in Past <=> x.firedAt # Never /\ x.firedAt < t
        /\ x.firedAt \in Past' <=> x.firedAt # Never /\ x.firedAt <= t
        /\ x.resolvedAt \in Past <=> x.resolvedAt # Never /\ x.resolvedAt < t
        /\ x.resolvedAt \in Past' <=> x.resolvedAt # Never /\ x.resolvedAt <= t
        /\ x.firedAt # Never => x.firedAt \in Nat /\ x.activeAt <= x.firedAt
        /\ x.resolvedAt # Never => x.resolvedAt \in Nat /\ x.firedAt # Never /\ x.firedAt < x.resolvedAt
        /\ x.firedAt # Never <=> x.state # "pending"
    BY <1>1, EpisodeOrder
  <2> QED
    BY <1>1, <1>2, <2>1
<1>4. Here(a, p, t)
  <2>1. t \in PointSet(s)
    BY <1>2, <1>3 DEF Covers
  <2> QED
    BY <1>1, <1>2, <2>1 DEF SecondPassAt, EvaluatesAt
<1>5. a = NoAlert \/ (/\ a \in Alerts /\ a.activeAt \in Nat /\ a.activeAt < t
                      /\ (a.firedAt # Never => a.firedAt < t))
  <2>1. a = NoAlert \/ (a \in Alerts /\ Moments(a) \subseteq Past)
    BY <1>1, <1>2, ReplayNow
  <2>2. \A u \in Past : u < t
    BY DEF SecondPassAt
  <2> QED
    BY <2>1, <2>2, MomentFacts, NoAlertFacts
<1>6. Lifecycle(a) \/ a = NoAlert
  BY <1>1, <1>2, ReplayNow
<1>7. CASE x.activeAt < t
  <2>1. /\ a.state \in {"pending", "firing"} /\ a.activeAt <= x.activeAt
        /\ x.firedAt \in Past => a.state = "firing" /\ a.firedAt <= x.firedAt
    <3>1. x.activeAt \in Past /\ x.resolvedAt \notin Past
      <4>1. x.resolvedAt = Never => x.resolvedAt \notin Past
        BY <1>1, EpisodeThen
      <4> QED
        BY <1>3, <1>7, <4>1
    <3> QED
      BY <1>1, <3>1 DEF ReplayInv, FiringSoFar, SecondPassAt
  <2>2. a \in Alerts /\ a.activeAt \in Nat /\ a.activeAt < t /\ (a.firedAt # Never => a.firedAt < t)
        /\ Lifecycle(a)
    BY <2>1, <1>5, <1>6, NoAlertFacts
  <2>3. CASE a.state = "firing"
    <3>1. p = a
      BY <2>3, <1>4 DEF Here
    <3>2. a.firedAt < t /\ a.firedAt \in Nat
      BY <2>2, <2>3, ResolvedFacts, NoAlertFacts
    <3> QED
      BY <1>1, <1>2, <1>3, <2>1, <2>2, <2>3, <3>1, <3>2
  <2>4. CASE a.state = "pending"
    <3>1. ~(x.firedAt \in Past)
      BY <2>1, <2>4
    <3>2. CASE p = a /\ t - a.activeAt < holdDuration
      <4>1. ~(x.firedAt <= t)
        BY <3>1, <3>2, <1>2, <1>3, <2>1, <2>2
      <4> QED
        BY <1>1, <1>3, <2>1, <2>4, <3>2, <4>1
    <3>3. CASE BecomesFiring(a, p, t)
      <4>1. p.state = "firing" /\ p.activeAt = a.activeAt /\ p.firedAt = t
        BY <3>3 DEF BecomesFiring
      <4>2. x.firedAt \in Past' => t <= x.firedAt
        BY <3>1, <1>2, <1>3
      <4> QED
        BY <1>1, <2>1, <4>1, <4>2
    <3> QED
      BY <2>4, <1>4, <3>2, <3>3 DEF Here
  <2> QED
    BY <2>1, <2>3, <2>4
<1>8. CASE x.activeAt = t
  <2>1. x.firedAt \in Past' => x.firedAt = t /\ holdDuration = 0
    BY <1>2, <1>3, <1>8
  <2>2. CASE a.state = "firing" /\ p = a
    <3>1. a \in Alerts /\ a.firedAt < t /\ a.firedAt \in Nat /\ a.activeAt < t /\ a.activeAt \in Nat
      BY <1>5, <1>6, <2>2, NoAlertFacts, ResolvedFacts
    <3> QED
      BY <1>1, <1>2, <1>8, <2>1, <2>2, <3>1
  <2>3. CASE a.state = "pending" /\ p = a /\ t - a.activeAt < holdDuration
    <3>1. a \in Alerts /\ a.activeAt \in Nat /\ a.activeAt < t
      BY <1>5, <2>3, NoAlertFacts
    <3>2. ~(x.firedAt \in Past')
      BY <2>1, <2>3, <3>1, <1>2
    <3> QED
      BY <1>1, <1>2, <1>8, <2>3, <3>1, <3>2
  <2>4. CASE a.state = "pending" /\ BecomesFiring(a, p, t)
    <3>1. a \in Alerts /\ a.activeAt \in Nat /\ a.activeAt < t
      BY <1>5, <2>4, NoAlertFacts
    <3>2. p.state = "firing" /\ p.activeAt = a.activeAt /\ p.firedAt = t
      BY <2>4 DEF BecomesFiring
    <3> QED
      BY <1>1, <1>2, <1>8, <2>1, <3>1, <3>2
  <2>5. CASE Begins(p, t)
    <3>1. p.activeAt = t /\ p.state \in {"pending", "firing"}
          /\ (holdDuration = 0 => p.state = "firing" /\ p.firedAt = t)
      BY <2>5 DEF Begins
    <3> QED
      BY <1>1, <1>2, <1>8, <2>1, <3>1
  <2> QED
    BY <1>4, <2>2, <2>3, <2>4, <2>5 DEF Here
<1> QED
  BY <1>2, <1>3, <1>7, <1>8

(* When it is resolved, it is shown so, and stays shown.                   *)
LEMMA FiringResolved ==
    ASSUME ReplayInv, NEW t, NEW now, SecondPassAt(t, now), ListsAt(now), NEW e \in episodes,
           e[2].firedAt # Never, e[2].resolvedAt \in Past'
    PROVE  \E b \in Series \X Times : \E k \in DOMAIN activeAlertsByLabels'[b] :
              /\ b[1] = e[1] /\ activeAlertsByLabels'[b][k].firedAt \in 0 .. e[2].firedAt
              /\ activeAlertsByLabels'[b][k].resolvedAt = e[2].resolvedAt
<1>1. PICK s, x, a, p : s = e[1] /\ x = e[2] /\ a = active[s] /\ p = now[s]
  OBVIOUS
<1>2. /\ x.activeAt \in Past <=> x.activeAt < t
      /\ x.firedAt \in Past <=> x.firedAt < t
      /\ x.resolvedAt \in Past <=> x.resolvedAt < t
      /\ x.resolvedAt # Never /\ x.resolvedAt <= t
      /\ x.firedAt \in Nat /\ x.activeAt <= x.firedAt /\ x.resolvedAt \in Nat /\ x.firedAt < x.resolvedAt
  <2>1. /\ x.activeAt \in Past <=> x.activeAt < t
        /\ x.firedAt \in Past <=> x.firedAt # Never /\ x.firedAt < t
        /\ x.resolvedAt \in Past <=> x.resolvedAt # Never /\ x.resolvedAt < t
        /\ x.resolvedAt \in Past' <=> x.resolvedAt # Never /\ x.resolvedAt <= t
        /\ x.firedAt # Never => x.firedAt \in Nat /\ x.activeAt <= x.firedAt
        /\ x.resolvedAt # Never => x.resolvedAt \in Nat /\ x.firedAt # Never /\ x.firedAt < x.resolvedAt
    BY <1>1, EpisodeOrder
  <2> QED
    BY <1>1, <2>1
<1>3. s \in Series /\ x.activeAt \in Nat /\ t \in Nat /\ t \in Times /\ pass = "replay"
      /\ \A u \in Past : u < t
  BY <1>1, EpisodeThen DEF SecondPassAt
<1>4. CASE x.resolvedAt < t
  <2>1. \E c \in Shown : c[1] = s /\ c[2].firedAt \in 0 .. x.firedAt /\ c[2].resolvedAt = x.resolvedAt
    BY <1>1, <1>2, <1>3, <1>4 DEF ReplayInv, FiringSoFar
  <2>2. PICK b \in Series \X Times : \E k \in DOMAIN activeAlertsByLabels[b] :
           /\ b[1] = s /\ activeAlertsByLabels[b][k].firedAt \in 0 .. x.firedAt
           /\ activeAlertsByLabels[b][k].resolvedAt = x.resolvedAt
    BY <2>1 DEF Shown
  <2>3. PICK k \in DOMAIN activeAlertsByLabels[b] :
           /\ b[1] = s /\ activeAlertsByLabels[b][k].firedAt \in 0 .. x.firedAt
           /\ activeAlertsByLabels[b][k].resolvedAt = x.resolvedAt
    BY <2>2
  <2>4. PICK u \in Times : b = <<s, u>> /\ u = b[2]
    BY <2>3
  <2>5. activeAlertsByLabels'[b] = activeAlertsByLabels[b]
    <3>1. CASE ~(p # NoAlert /\ u = p.activeAt)
      BY <1>1, <1>3, <2>4, <3>1 DEF ListsAt
    <3>2. CASE p # NoAlert /\ u = p.activeAt
      <4>1. activeAlertsByLabels'[b] = <<AsShown(p)>>
        BY <1>1, <1>3, <2>4, <3>2 DEF ListsAt
      <4>2. activeAlertsByLabels[b] # <<>>
        BY <2>3
      <4>3. u \in Past
        BY <4>2, <2>4, <1>3 DEF ReplayInv, ShownInv
      <4>4. u < t
        BY <4>3, <1>3
      <4>5. GoesOn(a, p)
        <5>1. GoesOn(a, p) \/ Begins(p, t)
          BY <1>1, <1>3, <3>2, ReplayNow
        <5> QED
          BY <5>1, <4>4, <3>2, <1>3 DEF Begins
      <4>6. a \in Alerts /\ a.activeAt = u
        BY <4>5, <3>2 DEF GoesOn
      <4>7. activeAlertsByLabels[b] = <<AsShown(a)>>
        BY <4>6, <1>1, <1>3, <2>4, ReplayNow, NoAlertFacts
      <4>8. activeAlertsByLabels[b][k] = AsShown(a)
        BY <2>3, <4>7
      <4>9. a.resolvedAt = x.resolvedAt
        BY <2>3, <4>6, <4>8, ShownFacts
      <4>10. p = a
        BY <4>5, <4>9, <1>2 DEF GoesOn
      <4> QED
        BY <4>1, <4>7, <4>10
    <3> QED
      BY <3>1, <3>2
  <2> QED
    BY <1>1, <2>3, <2>5
<1>5. CASE x.resolvedAt = t
  <2>1. Gone(a, p, t)
    <3>1. t \notin PointSet(s)
      BY <1>1, <1>5, EpisodeThen
    <3> QED
      BY <3>1, <1>1, <1>3 DEF SecondPassAt, EvaluatesAt
  <2>2. a.state = "firing" /\ a.firedAt <= x.firedAt
    <3>1. x.activeAt \in Past /\ x.resolvedAt \notin Past /\ x.firedAt \in Past
      BY <1>2, <1>3, <1>5
    <3> QED
      BY <3>1, <1>1, <1>3 DEF ReplayInv, FiringSoFar
  <2>3. BecomesResolved(a, p, t)
    BY <2>1, <2>2 DEF Gone
  <2>4. p \in Alerts /\ p.firedAt = a.firedAt /\ p.resolvedAt = t /\ p # NoAlert /\ p.activeAt \in Times
    BY <2>3, NoAlertFacts DEF BecomesResolved
  <2>5. a \in Alerts /\ Lifecycle(a)
    BY <2>2, <1>1, <1>3, ReplayNow, NoAlertFacts
  <2>6. a.firedAt \in Nat
    BY <2>2, <2>5, ResolvedFacts, NoAlertFacts
  <2>7. activeAlertsByLabels'[<<s, p.activeAt>>] = <<AsShown(p)>>
    BY <1>1, <1>3, <2>4 DEF ListsAt
  <2>8. AsShown(p).firedAt \in 0 .. x.firedAt /\ AsShown(p).resolvedAt = x.resolvedAt
    <3>1. AsShown(p).firedAt = a.firedAt /\ AsShown(p).resolvedAt = t
      BY <2>4, ShownFacts
    <3> QED
      BY <3>1, <2>2, <2>6, <1>2, <1>5
  <2>9. PICK b \in Series \X Times : b = <<s, p.activeAt>>
    BY <1>3, <2>4
  <2>10. 1 \in DOMAIN activeAlertsByLabels'[b] /\ activeAlertsByLabels'[b][1] = AsShown(p)
    BY <2>7, <2>9
  <2> QED
    BY <1>1, <2>8, <2>9, <2>10
<1> QED
  BY <1>2, <1>3, <1>4, <1>5

(* The second pass keeps that what fired in the first is active, and shown *)
(* when it is resolved.                                                    *)
LEMMA FiringStep ==
    ASSUME ReplayInv, NEW t, NEW now, SecondPassAt(t, now), ListsAt(now)
    PROVE  FiringSoFar'
<1>1. pass' = "replay" /\ episodes' = episodes /\ active' = now
  BY DEF SecondPassAt
<1> SUFFICES ASSUME NEW e \in episodes, e[2].firedAt # Never
             PROVE  /\ e[2].activeAt \in Past' /\ e[2].resolvedAt \notin Past' =>
                          /\ now[e[1]].state \in {"pending", "firing"} /\ now[e[1]].activeAt <= e[2].activeAt
                          /\ e[2].firedAt \in Past' =>
                                now[e[1]].state = "firing" /\ now[e[1]].firedAt <= e[2].firedAt
                    /\ e[2].resolvedAt \in Past' =>
                          \E c \in Shown' : /\ c[1] = e[1] /\ c[2].firedAt \in 0 .. e[2].firedAt
                                            /\ c[2].resolvedAt = e[2].resolvedAt
  BY <1>1 DEF FiringSoFar
<1>2. ASSUME e[2].resolvedAt \in Past'
      PROVE  \E c \in Shown' : /\ c[1] = e[1] /\ c[2].firedAt \in 0 .. e[2].firedAt
                               /\ c[2].resolvedAt = e[2].resolvedAt
  <2>1. PICK b \in Series \X Times : \E k \in DOMAIN activeAlertsByLabels'[b] :
           /\ b[1] = e[1] /\ activeAlertsByLabels'[b][k].firedAt \in 0 .. e[2].firedAt
           /\ activeAlertsByLabels'[b][k].resolvedAt = e[2].resolvedAt
    BY <1>2, FiringResolved
  <2>2. PICK k \in DOMAIN activeAlertsByLabels'[b] :
           /\ b[1] = e[1] /\ activeAlertsByLabels'[b][k].firedAt \in 0 .. e[2].firedAt
           /\ activeAlertsByLabels'[b][k].resolvedAt = e[2].resolvedAt
    BY <2>1
  <2>3. PICK c : c = <<b[1], activeAlertsByLabels'[b][k]>>
    OBVIOUS
  <2>4. c \in Shown'
    BY <2>2, <2>3 DEF Shown
  <2> QED
    BY <2>2, <2>3, <2>4
<1> QED
  BY <1>2, FiringGoesOn

(* The fields of an episode as it was when the times of past were over.    *)
LEMMA SoFarFacts ==
    ASSUME NEW past, NEW x \in Alerts, Never \notin past
    PROVE  /\ SoFar(past, x) \in Alerts /\ SoFar(past, x) # NoAlert
           /\ SoFar(past, x).activeAt = x.activeAt
           /\ x.resolvedAt \in past => /\ SoFar(past, x).state = "inactive"
                                       /\ SoFar(past, x).resolvedAt = x.resolvedAt
           /\ x.resolvedAt \notin past =>
                 /\ SoFar(past, x).resolvedAt = Never
                 /\ SoFar(past, x).state = IF x.firedAt \in past THEN "firing" ELSE "pending"
           /\ SoFar(past, x).firedAt = IF x.firedAt \in past THEN x.firedAt ELSE Never
<1>1. /\ SoFar(past, x) \in Alerts
      /\ SoFar(past, x).activeAt = x.activeAt
      /\ SoFar(past, x).state = IF x.resolvedAt \in past THEN "inactive"
                                ELSE IF x.firedAt \in past THEN "firing" ELSE "pending"
      /\ SoFar(past, x).firedAt = IF x.firedAt \in past THEN x.firedAt ELSE Never
      /\ SoFar(past, x).resolvedAt = IF x.resolvedAt \in past THEN x.resolvedAt ELSE Never
  BY DEF SoFar, Alerts
<1> HIDE DEF SoFar
<1> QED
  BY <1>1, NoAlertFacts

(* Nothing changes in the list of an alert whose times are over.           *)
LEMMA OldListStays ==
    ASSUME ReplayInv, NEW t, NEW now, SecondPassAt(t, now), ListsAt(now),
           NEW s \in Series, NEW u \in Times, u < t,
           NEW q, q.resolvedAt # Never, q \in Alerts,
           activeAlertsByLabels[<<s, u>>] = <<AsShown(q)>>
    PROVE  activeAlertsByLabels'[<<s, u>>] = <<AsShown(q)>>
<1>1. PICK a, p : a = active[s] /\ p = now[s]
  OBVIOUS
<1>2. CASE ~(p # NoAlert /\ u = p.activeAt)
  BY <1>1, <1>2 DEF ListsAt
<1>3. CASE p # NoAlert /\ u = p.activeAt
  <2>1. activeAlertsByLabels'[<<s, u>>] = <<AsShown(p)>>
    BY <1>1, <1>3 DEF ListsAt
  <2>2. GoesOn(a, p)
    <3>1. GoesOn(a, p) \/ Begins(p, t)
      BY <1>1, <1>3, ReplayNow
    <3>2. u # t
      BY NoAlertFacts
    <3> QED
      BY <3>1, <3>2, <1>3 DEF Begins
  <2>3. a \in Alerts /\ a.activeAt = u
    BY <2>2, <1>3 DEF GoesOn
  <2>4. activeAlertsByLabels[<<s, u>>] = <<AsShown(a)>>
    BY <2>3, <1>1, ReplayNow, NoAlertFacts
  <2>5. AsShown(a) = AsShown(q)
    BY <2>4
  <2>6. a.resolvedAt # Never
    BY <2>3, <2>5, ShownFacts
  <2>7. p = a
    BY <2>2, <2>6 DEF GoesOn
  <2> QED
    BY <2>1, <2>5, <2>7
<1> QED
  BY <1>2, <1>3

(* The second pass has the alert as the first had it at that time.         *)
LEMMA FaithfulAt ==
    ASSUME ReplayInv, ~forgotten, NEW t, NEW now, SecondPassAt(t, now), ListsAt(now),
           NEW e \in episodes, e[2].activeAt \in Past', NEW past, past = Past'
    PROVE  /\ activeAlertsByLabels'[<<e[1], e[2].activeAt>>] = <<AsShown(SoFar(past, e[2]))>>
           /\ e[2].resolvedAt \notin past => now[e[1]] = SoFar(past, e[2])
<1>1. PICK s, x, a, p : s = e[1] /\ x = e[2] /\ a = active[s] /\ p = now[s]
  OBVIOUS
<1>2. PICK before : before = Past
  OBVIOUS
<1>3. PICK q, r : q = SoFar(past, x) /\ r = SoFar(before, x)
  OBVIOUS
<1>4. /\ s \in Series /\ x \in Alerts /\ x.activeAt \in Nat /\ t \in Nat /\ t \in Times
      /\ holdDuration \in Nat /\ Never \notin before /\ Never \notin past
      /\ x.firedAt # Never => x.firedAt - x.activeAt >= holdDuration
      /\ Covers(x, t) => t \in PointSet(s)
      /\ x.activeAt <= t /\ (x.firedAt # Never => t < x.firedAt) => t - x.activeAt < holdDuration
      /\ x.resolvedAt = t => t \notin PointSet(s)
  BY <1>1, <1>2, EpisodeThen, ReplayAssumption DEF SecondPassAt, ReplayInv, TypeOK
<1>5. /\ x.activeAt \in before <=> x.activeAt < t
      /\ x.activeAt <= t
      /\ x.firedAt \in before <=> x.firedAt # Never /\ x.firedAt < t
      /\ x.firedAt \in past <=> x.firedAt # Never /\ x.firedAt <= t
      /\ x.resolvedAt \in before <=> x.resolvedAt # Never /\ x.resolvedAt < t
      /\ x.resolvedAt \in past <=> x.resolvedAt # Never /\ x.resolvedAt <= t
      /\ x.firedAt # Never => x.firedAt \in Nat /\ x.activeAt <= x.firedAt
      /\ x.resolvedAt # Never => x.resolvedAt \in Nat /\ x.firedAt # Never /\ x.firedAt < x.resolvedAt
  <2>1. /\ x.activeAt \in Past <=> x.activeAt < t
        /\ x.activeAt \in Past' <=> x.activeAt <= t
        /\ x.firedAt \in Past <=> x.firedAt # Never /\ x.firedAt < t
        /\ x.firedAt \in Past' <=> x.firedAt # Never /\ x.firedAt <= t
        /\ x.resolvedAt \in Past <=> x.resolvedAt # Never /\ x.resolvedAt < t
        /\ x.resolvedAt \in Past' <=> x.resolvedAt # Never /\ x.resolvedAt <= t
        /\ x.firedAt # Never => x.firedAt \in Nat /\ x.activeAt <= x.firedAt
        /\ x.resolvedAt # Never => x.resolvedAt \in Nat /\ x.firedAt # Never /\ x.firedAt < x.resolvedAt
    BY <1>1, EpisodeOrder
  <2> QED
    BY <1>1, <1>2, <2>1
<1>6. /\ q \in Alerts /\ q # NoAlert /\ q.activeAt = x.activeAt
      /\ q.firedAt = IF x.firedAt \in past THEN x.firedAt ELSE Never
      /\ x.resolvedAt \in past => q.state = "inactive" /\ q.resolvedAt = x.resolvedAt
      /\ x.resolvedAt \notin past =>
            q.resolvedAt = Never /\ q.state = IF x.firedAt \in past THEN "firing" ELSE "pending"
  BY <1>3, <1>4, SoFarFacts
<1>7. /\ r \in Alerts /\ r # NoAlert /\ r.activeAt = x.activeAt
      /\ r.firedAt = IF x.firedAt \in before THEN x.firedAt ELSE Never
      /\ x.resolvedAt \in before => r.state = "inactive" /\ r.resolvedAt = x.resolvedAt
      /\ x.resolvedAt \notin before =>
            r.resolvedAt = Never /\ r.state = IF x.firedAt \in before THEN "firing" ELSE "pending"
  BY <1>3, <1>4, SoFarFacts
<1>8. x.activeAt < t => /\ activeAlertsByLabels[<<s, x.activeAt>>] = <<AsShown(r)>>
                        /\ x.resolvedAt \notin before => a = r
  BY <1>1, <1>2, <1>3, <1>5 DEF ReplayInv, FaithfulSoFar, SecondPassAt
<1>9. x.activeAt \in Times
  BY <1>4, NoAlertFacts
<1>10. SUFFICES /\ activeAlertsByLabels'[<<s, x.activeAt>>] = <<AsShown(q)>>
                /\ x.resolvedAt \notin past => p = q
  BY <1>1, <1>3
<1>11. ASSUME p = q PROVE activeAlertsByLabels'[<<s, x.activeAt>>] = <<AsShown(q)>>
  <2>1. PICK u \in Times : u = x.activeAt
    BY <1>9
  <2>2. p # NoAlert /\ u = p.activeAt
    BY <1>6, <1>11, <2>1
  <2>3. activeAlertsByLabels'[<<s, u>>] = <<AsShown(p)>>
    BY <2>2, <1>1, <1>4 DEF ListsAt
  <2> QED
    BY <2>1, <2>3, <1>11
<1>12. (Covers(x, t) => Here(a, p, t)) /\ (x.resolvedAt = t => Gone(a, p, t))
  BY <1>1, <1>4 DEF SecondPassAt, EvaluatesAt
<1>13. CASE x.resolvedAt # Never /\ x.resolvedAt < t
  <2>1. x.firedAt < t /\ x.activeAt < t /\ x.firedAt # Never
    BY <1>4, <1>5, <1>13
  <2>2. q = r
    BY <2>1, <1>4, <1>5, <1>6, <1>7, <1>13, SameRecord
  <2>3. activeAlertsByLabels[<<s, x.activeAt>>] = <<AsShown(q)>> /\ q.resolvedAt # Never
    <3>1. activeAlertsByLabels[<<s, x.activeAt>>] = <<AsShown(r)>>
      BY <2>1, <1>8
    <3>2. x.resolvedAt \in past
      BY <1>4, <1>5, <1>13
    <3>3. q.resolvedAt # Never
      BY <3>2, <1>6, <1>13
    <3> QED
      BY <3>1, <3>3, <2>2
  <2>4. activeAlertsByLabels'[<<s, x.activeAt>>] = <<AsShown(q)>>
    BY <2>1, <2>3, <1>4, <1>6, <1>9, OldListStays
  <2> QED
    BY <2>4, <1>4, <1>5, <1>13
<1>14. CASE x.resolvedAt = t
  <2>1. x.firedAt < t /\ x.activeAt < t /\ x.firedAt # Never /\ x.resolvedAt # Never
    BY <1>4, <1>5, <1>14, NoAlertFacts
  <2>2. a = r /\ r.state = "firing" /\ r.firedAt = x.firedAt
    BY <2>1, <1>4, <1>5, <1>7, <1>8, <1>14
  <2>3. BecomesResolved(a, p, t)
    BY <2>2, <1>12, <1>14 DEF Gone
  <2>4. p = q
    <3>1. p \in Alerts /\ p.state = "inactive" /\ p.activeAt = x.activeAt /\ p.firedAt = x.firedAt /\ p.resolvedAt = t
      BY <2>2, <2>3, <1>7 DEF BecomesResolved
    <3>2. q.state = "inactive" /\ q.firedAt = x.firedAt /\ q.resolvedAt = t
      BY <2>1, <1>4, <1>5, <1>6, <1>14
    <3> QED
      BY <3>1, <3>2, <1>6, SameRecord
  <2> QED
    BY <2>4, <1>11
<1>15. CASE x.resolvedAt = Never \/ x.resolvedAt > t
  <2>1. Here(a, p, t) /\ x.resolvedAt \notin past /\ x.resolvedAt \notin before
    <3>1. x.resolvedAt \notin past /\ x.resolvedAt \notin before
      BY <1>4, <1>5, <1>15
    <3>2. Covers(x, t)
      BY <1>4, <1>5, <1>15 DEF Covers
    <3> QED
      BY <3>1, <3>2, <1>12
  <2>2. q.resolvedAt = Never /\ q.state = (IF x.firedAt \in past THEN "firing" ELSE "pending")
    BY <2>1, <1>6
  <2>3. CASE x.activeAt < t
    <3>1. a = r /\ r.resolvedAt = Never /\ r.state = (IF x.firedAt \in before THEN "firing" ELSE "pending")
      BY <2>1, <2>3, <1>7, <1>8
    <3>2. CASE x.firedAt # Never /\ x.firedAt < t
      <4>1. r.state = "firing" /\ q.state = "firing" /\ q.firedAt = x.firedAt /\ r.firedAt = x.firedAt
        BY <3>1, <3>2, <2>2, <1>4, <1>5, <1>6, <1>7
      <4>2. p = r
        BY <2>1, <3>1, <4>1 DEF Here
      <4>3. q = r
        BY <4>1, <3>1, <2>2, <1>6, <1>7, SameRecord
      <4> QED
        BY <4>2, <4>3, <1>11
    <3>3. CASE x.firedAt = t
      <4>1. r.state = "pending" /\ q.state = "firing" /\ q.firedAt = t /\ t - a.activeAt >= holdDuration
        BY <3>1, <3>3, <2>2, <1>4, <1>5, <1>6, <1>7, NoAlertFacts
      <4>2. BecomesFiring(a, p, t)
        <5>1. ~(t - a.activeAt < holdDuration)
          BY <4>1, <3>1, <1>4, <1>7
        <5> QED
          BY <5>1, <2>1, <3>1, <4>1 DEF Here
      <4>3. p = q
        <5>1. p \in Alerts /\ p.state = "firing" /\ p.activeAt = x.activeAt /\ p.firedAt = t /\ p.resolvedAt = Never
          BY <4>2, <3>1, <1>7 DEF BecomesFiring
        <5> QED
          BY <5>1, <4>1, <2>2, <1>6, SameRecord
      <4> QED
        BY <4>3, <1>11
    <3>4. CASE x.firedAt = Never \/ x.firedAt > t
      <4>1. r.state = "pending" /\ q.state = "pending" /\ q.firedAt = Never /\ r.firedAt = Never
        BY <3>1, <3>4, <2>2, <1>4, <1>5, <1>6, <1>7
      <4>2. t - a.activeAt < holdDuration
        BY <3>1, <3>4, <1>4, <1>5, <1>7
      <4>3. p = r
        <5>1. ~BecomesFiring(a, p, t)
          BY <4>2, <3>1, <1>4, <1>7 DEF BecomesFiring
        <5> QED
          BY <5>1, <2>1, <3>1, <4>1 DEF Here
      <4>4. q = r
        BY <4>1, <3>1, <2>2, <1>6, <1>7, SameRecord
      <4> QED
        BY <4>3, <4>4, <1>11
    <3>5. (x.firedAt # Never /\ x.firedAt < t) \/ x.firedAt = t \/ x.firedAt = Never \/ x.firedAt > t
      BY <1>4, <1>5
    <3> QED
      BY <3>2, <3>3, <3>4, <3>5
  <2>4. CASE x.activeAt = t
    <3>1. a.state \notin {"pending", "firing"}
      <4> SUFFICES ASSUME a.state \in {"pending", "firing"} PROVE FALSE
        OBVIOUS
      <4>1. PICK f \in episodes : f[1] = s /\ f[2].activeAt \in Past /\ f[2].resolvedAt \notin Past
        BY <1>1, <1>4 DEF ReplayInv, FaithfulSoFar, SecondPassAt
      <4>2. PICK y : y = f[2]
        OBVIOUS
      <4>3. /\ y.activeAt < t
            /\ y.resolvedAt \in Past <=> y.resolvedAt # Never /\ y.resolvedAt < t
        BY <4>1, <4>2, EpisodeOrder
      <4>4. y.activeAt < x.activeAt /\ y.activeAt # x.activeAt
        BY <4>2, <4>3, <2>4, <1>4, EpisodeThen
      <4>5. f # e /\ f[1] = e[1] /\ EpisodesApart
        BY <4>1, <4>2, <4>4, <1>1 DEF ReplayInv, EpisodesInv, Fetched, SecondPassAt
      <4>6. y.resolvedAt # Never /\ y.resolvedAt < x.activeAt
        BY <4>2, <4>4, <4>5, <1>1 DEF EpisodesApart
      <4> QED
        BY <4>1, <4>2, <4>3, <4>6, <2>4
    <3>2. Begins(p, t)
      BY <2>1, <3>1 DEF Here
    <3>3. CASE x.firedAt = t
      <4>1. q.state = "firing" /\ q.firedAt = t /\ holdDuration = 0
        BY <3>3, <2>2, <2>4, <1>4, <1>5, <1>6, NoAlertFacts
      <4>2. p \in Alerts /\ p.activeAt = t /\ p.resolvedAt = Never /\ p.state = "firing" /\ p.firedAt = t
        BY <3>2, <4>1 DEF Begins
      <4>3. p = q
        BY <4>1, <4>2, <2>2, <2>4, <1>6, SameRecord
      <4> QED
        BY <4>3, <1>11
    <3>4. CASE x.firedAt = Never \/ x.firedAt > t
      <4>1. q.state = "pending" /\ q.firedAt = Never /\ holdDuration > 0
        BY <3>4, <2>2, <2>4, <1>4, <1>5, <1>6
      <4>2. p \in Alerts /\ p.activeAt = t /\ p.resolvedAt = Never /\ p.state = "pending" /\ p.firedAt = Never
        BY <3>2, <4>1 DEF Begins
      <4>3. p = q
        BY <4>1, <4>2, <2>2, <2>4, <1>6, SameRecord
      <4> QED
        BY <4>3, <1>11
    <3>5. x.firedAt = t \/ x.firedAt = Never \/ x.firedAt > t
      BY <2>4, <1>4, <1>5
    <3> QED
      BY <3>3, <3>4, <3>5
  <2> QED
    BY <2>3, <2>4, <1>4, <1>5
<1> QED
  BY <1>4, <1>5, <1>13, <1>14, <1>15

(* The second pass keeps that it shows what the first saw.                 *)
LEMMA FaithfulStep ==
    ASSUME ReplayInv, NEW t, NEW now, SecondPassAt(t, now), ListsAt(now)
    PROVE  FaithfulSoFar'
<1>1. /\ pass' = "replay" /\ pass = "replay" /\ episodes' = episodes /\ active' = now
      /\ forgotten' = forgotten /\ t \in Times /\ t \in Nat /\ t \in evaluated
      /\ now \in [Series -> Alerts \cup {NoAlert}] /\ EvaluatesAt(t, now)
  BY DEF SecondPassAt, EvaluatesAt
<1> SUFFICES ASSUME ~forgotten
             PROVE  /\ \A e \in episodes : e[2].activeAt \in Past' =>
                          /\ activeAlertsByLabels'[<<e[1], e[2].activeAt>>] = <<AsShown(SoFar(Past, e[2])')>>
                          /\ e[2].resolvedAt \notin Past' => now[e[1]] = SoFar(Past, e[2])'
                    /\ \A s \in Series : now[s].state \in {"pending", "firing"} =>
                          \E e \in episodes : /\ e[1] = s /\ e[2].activeAt \in Past'
                                              /\ e[2].resolvedAt \notin Past'
                    /\ \A b \in Series \X Times : activeAlertsByLabels'[b] # <<>> =>
                          \E e \in episodes : e[1] = b[1] /\ e[2].activeAt = b[2]
  BY <1>1 DEF FaithfulSoFar
<1>2. ASSUME NEW e \in episodes, e[2].activeAt \in Past'
      PROVE  /\ activeAlertsByLabels'[<<e[1], e[2].activeAt>>] = <<AsShown(SoFar(Past, e[2])')>>
             /\ e[2].resolvedAt \notin Past' => now[e[1]] = SoFar(Past, e[2])'
  <2>1. PICK past : past = Past'
    OBVIOUS
  <2>2. SoFar(Past, e[2])' = SoFar(past, e[2])
    BY <2>1 DEF SoFar
  <2> QED
    BY <1>2, <2>1, <2>2, FaithfulAt
<1>3. ASSUME NEW s \in Series, now[s].state \in {"pending", "firing"}
      PROVE  \E e \in episodes : /\ e[1] = s /\ e[2].activeAt \in Past' /\ e[2].resolvedAt \notin Past'
                                 /\ Covers(e[2], t)
  <2>1. t \in PointSet(s)
    <3>1. ~Gone(active[s], now[s], t)
      <4>1. active[s] = NoAlert \/ (active[s] \in Alerts /\ Lifecycle(active[s]))
        BY ReplayNow
      <4>2. now[s].state \notin {"none", "inactive"}
        BY <1>3
      <4> QED
        BY <4>2, NoAlertFacts DEF Gone, BecomesResolved
    <3> QED
      BY <3>1, <1>1 DEF EvaluatesAt
  <2>2. PICK e \in episodes : e[1] = s /\ Covers(e[2], t)
    BY <2>1, <1>1 DEF ReplayInv, EpisodesInv, Fetched
  <2>3. PICK x : x = e[2]
    OBVIOUS
  <2>4. /\ x.activeAt \in Past' <=> x.activeAt <= t
        /\ x.resolvedAt \in Past' <=> x.resolvedAt # Never /\ x.resolvedAt <= t
        /\ x.resolvedAt # Never => x.resolvedAt \in Nat /\ x.firedAt # Never /\ x.firedAt < x.resolvedAt
    BY <2>3, EpisodeOrder
  <2>5. x.activeAt \in Past' /\ x.resolvedAt \notin Past'
    BY <2>2, <2>3, <2>4, <1>1 DEF Covers
  <2> QED
    BY <2>2, <2>3, <2>5
<1>4. ASSUME NEW b \in Series \X Times, activeAlertsByLabels'[b] # <<>>
      PROVE  \E e \in episodes : e[1] = b[1] /\ e[2].activeAt = b[2]
  <2>1. PICK s \in Series, u \in Times : b = <<s, u>>
    OBVIOUS
  <2>2. PICK a, p : a = active[s] /\ p = now[s]
    OBVIOUS
  <2>3. \A c \in Series \X Times : activeAlertsByLabels[c] # <<>> =>
           \E e \in episodes : e[1] = c[1] /\ e[2].activeAt = c[2]
    BY <1>1 DEF ReplayInv, FaithfulSoFar
  <2>4. CASE ~(p # NoAlert /\ u = p.activeAt)
    <3>1. activeAlertsByLabels'[b] = activeAlertsByLabels[b]
      BY <2>1, <2>2, <2>4 DEF ListsAt
    <3> QED
      BY <3>1, <2>3, <1>4
  <2>5. CASE p # NoAlert /\ u = p.activeAt /\ GoesOn(a, p)
    <3>1. a \in Alerts /\ a.activeAt = u
      BY <2>5 DEF GoesOn
    <3>2. activeAlertsByLabels[b] = <<AsShown(a)>>
      BY <3>1, <2>1, <2>2, ReplayNow, NoAlertFacts
    <3> QED
      BY <3>2, <2>3
  <2>6. CASE p # NoAlert /\ u = p.activeAt /\ Begins(p, t) /\ a.state \in {"none", "inactive"}
    <3>1. u = t /\ p.state \in {"pending", "firing"}
      BY <2>6 DEF Begins
    <3>2. PICK e \in episodes : e[1] = s /\ Covers(e[2], t) /\ e[2].resolvedAt \notin Past'
      BY <3>1, <2>2, <1>3
    <3>3. PICK x : x = e[2]
      OBVIOUS
    <3>4. /\ x.activeAt \in Past <=> x.activeAt < t
          /\ x.activeAt <= t /\ x.activeAt \in Nat /\ x \in Alerts
          /\ x.resolvedAt \in Past <=> x.resolvedAt # Never /\ x.resolvedAt < t
          /\ x.resolvedAt \in Past' <=> x.resolvedAt # Never /\ x.resolvedAt <= t
          /\ x.resolvedAt # Never => x.resolvedAt \in Nat /\ x.firedAt # Never /\ x.firedAt < x.resolvedAt
          /\ Never \notin Past
      BY <3>2, <3>3, EpisodeOrder, EpisodeThen DEF Covers
    <3>5. x.resolvedAt \notin Past
      BY <3>2, <3>3, <3>4, <1>1
    <3>6. ~(x.activeAt < t)
      <4> SUFFICES ASSUME x.activeAt < t PROVE FALSE
        OBVIOUS
      <4>1. a = SoFar(Past, x)
        BY <3>2, <3>3, <3>4, <3>5, <2>2, <1>1 DEF ReplayInv, FaithfulSoFar
      <4>2. SoFar(Past, x).state \in {"pending", "firing"}
        BY <3>4, <3>5, SoFarFacts
      <4> QED
        BY <4>1, <4>2, <2>6
    <3>7. x.activeAt = t
      BY <3>4, <3>6, <1>1
    <3> QED
      BY <3>1, <3>2, <3>3, <3>7, <2>1
  <2>7. p # NoAlert => \/ GoesOn(a, p)
                       \/ Begins(p, t) /\ a.state \in {"none", "inactive"}
    BY <2>2, ReplayNow
  <2> QED
    BY <2>4, <2>5, <2>6, <2>7
<1> QED
  BY <1>2, <1>3, <1>4

(* The second pass keeps the invariant.                                    *)
LEMMA SecondPassStep ==
    ASSUME ReplayInv, NEW t, SecondPass(t)
    PROVE  CoreInv'
<1>1. PICK now : now = Evaluated(t)
  OBVIOUS
<1>2. SecondPassAt(t, now) /\ ListsAt(now)
  BY <1>1, SecondPassNow, ListsStep
<1>3. /\ TypeOK /\ WhereItIs /\ Fetched /\ EpisodesInv /\ EvaluatesWholeRange
      /\ CopiesAtSeamsOnly /\ ChunksAreSeamless
  BY <1>2 DEF ReplayInv, Fetched, SecondPassAt
<1>4. /\ pass = "replay" /\ pass' = "replay" /\ t \in important /\ t \in Times
      /\ \A u \in important \ {t} : t < u
      /\ active' = now /\ now \in [Series -> Alerts \cup {NoAlert}] /\ important' = important \ {t}
      /\ ts' = ts /\ evaluated' = evaluated /\ episodes' = episodes /\ forgotten' = forgotten
      /\ holdDuration' = holdDuration /\ limit' = limit /\ range' = range /\ entry' = entry
      /\ data' = data /\ maxTimestamp' = maxTimestamp /\ interval' = interval
  BY <1>2 DEF SecondPassAt, EvaluatesAt, range
<1>5. /\ index' \in [Functions -> [Series -> Nat]]
      /\ \A g \in Functions, s \in Series : index'[g][s] \in 0 .. Len(entry[s])
      /\ \A s \in Series, u \in Nat : t < u => SearchedUpTo("replay", s, u)'
  <2>1. "replay" \in Functions /\ \A s \in Series : SearchedUpTo("replay", s, t)
    BY <1>3, <1>4 DEF Functions, WhereItIs
  <2>2. Asked("replay", t) \/ AskedTwice("replay", t)
    BY DEF SecondPass
  <2> QED
    BY <2>1, <2>2, <1>3, <1>4, SearchStep
<1>6. TypeOK'
  <2>1. CacheTypeOK'
    BY <1>3, <1>4, <1>5, EntryFacts, CacheTypeKept DEF TypeOK
  <2>2. activeAlertsByLabels' \in [Series \X Times -> Seq(Alerts)]
    BY <1>2 DEF ListsAt
  <2> QED
    BY <2>1, <2>2, <1>3, <1>4 DEF TypeOK
<1>7. WhereItIs'
  <2>1. \A s \in Series, u \in important' : SearchedUpTo("replay", s, u)'
    <3> SUFFICES ASSUME NEW s \in Series, NEW u \in important' PROVE SearchedUpTo("replay", s, u)'
      OBVIOUS
    <3>1. u \in Nat /\ t < u
      BY <1>3, <1>4, NoAlertFacts DEF TypeOK
    <3> QED
      BY <3>1, <1>5
  <2>2. entry' \in [Series -> Seq(Times)] /\ \A s \in Series : Ascending(entry'[s])
    BY <1>3, <1>4, EntryFacts
  <2> QED
    BY <2>1, <2>2, <1>4 DEF WhereItIs
<1>8. CopiesAtSeamsOnly' /\ ChunksAreSeamless' /\ EvaluatesWholeRange'
  BY <1>3, <1>4 DEF CopiesAtSeamsOnly, ChunksAreSeamless, EvaluatesWholeRange, PointSet
<1>9. ActiveInv'
  <2> SUFFICES ASSUME NEW s \in Series, now[s] # NoAlert PROVE now[s] \in Alerts /\ Lifecycle(now[s])
    BY <1>4 DEF ActiveInv
  <2> QED
    BY <1>2, ReplayNow
<1>10. EpisodesInv'
  <2>1. \A e \in episodes : EpisodeInv(e[1], e[2])'
    <3> SUFFICES ASSUME NEW e \in episodes PROVE EpisodeInv(e[1], e[2])'
      OBVIOUS
    <3>1. EpisodeInv(e[1], e[2])
      BY <1>3 DEF EpisodesInv
    <3> QED
      BY <3>1, <1>4 DEF EpisodeInv, PointSet
  <2>2. EpisodesApart'
    BY <1>3, <1>4 DEF EpisodesInv, EpisodesApart
  <2>3. ~forgotten' => \A s \in Series : \A u \in evaluated' \cap PointSet(s)' :
              \E e \in episodes' : e[1] = s /\ Covers(e[2], u)
    BY <1>3, <1>4 DEF EpisodesInv, PointSet
  <2>4. \A e \in episodes' : EpisodeInv(e[1], e[2])'
    BY <2>1, <1>4
  <2> QED
    BY <2>2, <2>3, <2>4 DEF EpisodesInv
<1>11. ShownInv' /\ ShownOnce' /\ FiringSoFar' /\ FaithfulSoFar'
  BY <1>2, ShownStep, FiringStep, FaithfulStep
<1> QED
  BY <1>4, <1>6, <1>7, <1>8, <1>9, <1>10, <1>11 DEF CoreInv, EvaluatedSoFar, CurrentEpisodes

-----------------------------------------------------------------------------
(* The other steps, and the theorems.                                      *)

(* The points of a series in the matrix of the range query.                *)
LEMMA MatrixFacts ==
    ASSUME NEW end \in Int, end <= MaxTime, NEW step \in Nat \ {0}, NEW times \in SUBSET Times,
           NEW x, x = SampleTimes(0, end, step, times)
    PROVE  /\ x \in Seq(Times) /\ Ascending(x)
           /\ \A j \in 1 .. Len(x) - 1 :
                 \/ x[j] < x[j + 1]
                 \/ /\ x[j] = x[j + 1] /\ x[j] \in ChunkStarts(0, end)
                    /\ j + 2 <= Len(x) => x[j + 2] > x[j]
           /\ maxChunkDuration % step = 0 =>
                 \A u : (\E j \in 1 .. Len(x) : x[j] = u) <=> (u \in Steps(0, end, step) /\ u \in times)
<1>1. CASE end < 0 /\ x = <<>>
  <2>1. x \in Seq(Times) /\ Len(x) = 0 /\ 1 .. Len(x) = {}
    <3>1. x = <<>>
      BY <1>1
    <3>2. Len(x) = 0
      BY <3>1
    <3>3. <<>> \in Seq(Times)
      OBVIOUS
    <3>4. x \in Seq(Times)
      BY <3>1, <3>3, Zenon
    <3>5. 1 .. Len(x) = {}
      BY <3>2
    <3> QED
      BY <3>2, <3>4, <3>5
  <2>2. Steps(0, end, step) = {}
    BY <1>1 DEF Steps
  <2> QED
    BY <2>1, <2>2 DEF Ascending
<1>2. CASE Sampled(end, step, times, end + 1, x)
  <2>1. x \in Seq(Times) /\ Ascending(x)
    BY <1>2 DEF Sampled
  <2>2. /\ \A j \in 1 .. Len(x) : x[j] < end + 1 /\ x[j] \in times /\ Sending(x[j], 0, end, step) # {}
        /\ \A u \in times : u < end + 1 /\ Sending(u, 0, end, step) # {} => \E j \in 1 .. Len(x) : x[j] = u
    BY <1>2 DEF Sampled
  <2>3. \A u \in Times : u \in Nat
    BY NoAlertFacts
  <2>4. ASSUME maxChunkDuration % step = 0, NEW u
        PROVE  (\E j \in 1 .. Len(x) : x[j] = u) <=> (u \in Steps(0, end, step) /\ u \in times)
    <3>1. ASSUME NEW j \in 1 .. Len(x), x[j] = u PROVE u \in Steps(0, end, step) /\ u \in times
      <4>1. u \in times /\ u \in Nat /\ u < end + 1 /\ Sending(u, 0, end, step) # {}
        BY <3>1, <2>2, <2>3
      <4>2. end \in Nat /\ u \in 0 .. end
        BY <4>1
      <4>3. u % step = 0
        BY <4>1, <4>2, <2>4, StepsAreSent
      <4> QED
        BY <4>1, <4>2, <4>3 DEF Steps
    <3>2. ASSUME u \in Steps(0, end, step), u \in times PROVE \E j \in 1 .. Len(x) : x[j] = u
      <4>1. u \in 0 .. end /\ u % step = 0 /\ end \in Nat /\ u < end + 1
        BY <3>2 DEF Steps
      <4>2. Sending(u, 0, end, step) # {}
        BY <4>1, <2>4, StepsAreSent
      <4> QED
        BY <4>1, <4>2, <3>2, <2>2
    <3> QED
      BY <3>1, <3>2
  <2>5. \A j \in 1 .. Len(x) - 1 :
           \/ x[j] < x[j + 1]
           \/ /\ x[j] = x[j + 1] /\ x[j] \in ChunkStarts(0, end)
              /\ j + 2 <= Len(x) => x[j + 2] > x[j]
    BY <1>2 DEF Sampled
  <2> QED
    BY <2>1, <2>4, <2>5
<1> QED
  BY <1>1, <1>2, SampleTimesFacts

(* The range query starts the first pass with the matrix in the cache.     *)
LEMMA FetchRangeStep ==
    ASSUME ReplayInv, FetchRange
    PROVE  CoreInv'
<1>1. /\ TypeOK /\ WhereItIs /\ ActiveInv /\ ShownOnce
      /\ pass = "query" /\ pass' = "eval" /\ index' = index
      /\ data' = data /\ maxTimestamp' = maxTimestamp /\ interval' = interval
      /\ entry' = [s \in Series |->
                      SampleTimes(0, maxTimestamp, interval, {t \in Times : s \in data[t]})]
      /\ holdDuration' = holdDuration /\ limit' = limit /\ ts' = ts /\ active' = active
      /\ important' = important /\ activeAlertsByLabels' = activeAlertsByLabels
      /\ evaluated' = evaluated /\ episodes' = episodes /\ forgotten' = forgotten
  BY DEF ReplayInv, FetchRange, RangeQuery, range, rule, history
<1>2. /\ ts = 0 /\ important = {} /\ evaluated = {} /\ episodes = {} /\ ~forgotten
      /\ NoneShown /\ active = NoneActive
      /\ \A s \in Series : index["replay"][s] = 0 /\ index["eval"][s] = 0
  BY <1>1 DEF WhereItIs
<1>3. maxTimestamp \in Int /\ maxTimestamp <= MaxTime /\ interval \in Nat \ {0}
  BY <1>1, GridAssumption DEF TypeOK, CacheTypeOK
<1>4. ASSUME NEW s \in Series
      PROVE  /\ entry'[s] \in Seq(Times) /\ Ascending(entry'[s])
             /\ \A j \in 1 .. Len(entry'[s]) - 1 :
                   \/ entry'[s][j] < entry'[s][j + 1]
                   \/ /\ entry'[s][j] = entry'[s][j + 1] /\ entry'[s][j] \in ChunkStarts(0, maxTimestamp)
                      /\ j + 2 <= Len(entry'[s]) => entry'[s][j + 2] > entry'[s][j]
             /\ maxChunkDuration % interval = 0 =>
                   \A u : (\E j \in 1 .. Len(entry'[s]) : entry'[s][j] = u)
                             <=> (u \in Steps(0, maxTimestamp, interval) /\ u \in Times /\ s \in data[u])
  <2>1. PICK x, times, end, step : /\ x = entry'[s] /\ times = {t \in Times : s \in data[t]}
                                   /\ end = maxTimestamp /\ step = interval
    OBVIOUS
  <2>2. x = SampleTimes(0, end, step, times) /\ times \in SUBSET Times
        /\ end \in Int /\ end <= MaxTime /\ step \in Nat \ {0}
    BY <1>1, <1>3, <2>1
  <2>3. /\ x \in Seq(Times) /\ Ascending(x)
        /\ \A j \in 1 .. Len(x) - 1 :
              \/ x[j] < x[j + 1]
              \/ /\ x[j] = x[j + 1] /\ x[j] \in ChunkStarts(0, end)
                 /\ j + 2 <= Len(x) => x[j + 2] > x[j]
        /\ maxChunkDuration % step = 0 =>
              \A u : (\E j \in 1 .. Len(x) : x[j] = u) <=> (u \in Steps(0, end, step) /\ u \in times)
    BY <2>2, MatrixFacts
  <2>4. \A u : u \in times <=> u \in Times /\ s \in data[u]
    BY <2>1
  <2> QED
    BY <2>1, <2>3, <2>4
<1>5. CopiesAtSeamsOnly'
  BY <1>1, <1>4 DEF CopiesAtSeamsOnly
<1>6. ChunksAreSeamless'
  <2> SUFFICES ASSUME maxChunkDuration % interval = 0, NEW s \in Series
               PROVE  PointSet(s)' = {t \in Steps(0, maxTimestamp, interval) : s \in data[t]}
    BY <1>1 DEF ChunksAreSeamless
  <2>1. \A u : u \in PointSet(s)' <=> \E j \in 1 .. Len(entry'[s]) : entry'[s][j] = u
    BY DEF PointSet
  <2>2. \A u \in Steps(0, maxTimestamp, interval) : u \in Times
    BY <1>3, GridAssumption DEF Steps, Times
  <2>3. \A u : u \in PointSet(s)' <=> u \in Steps(0, maxTimestamp, interval) /\ u \in Times /\ s \in data[u]
    BY <2>1, <1>4
  <2>4. \A u : u \in PointSet(s)' <=> u \in {t \in Steps(0, maxTimestamp, interval) : s \in data[t]}
    BY <2>2, <2>3
  <2> QED
    BY <2>4
<1>7. CacheTypeOK'
  <2>1. entry' \in [Series -> Seq(Times)]
    BY <1>1, <1>4
  <2>2. \A f \in Functions, s \in Series : index'[f][s] = 0
    BY <1>1, <1>2 DEF Functions
  <2>3. ASSUME NEW f \in Functions, NEW s \in Series
        PROVE  index'[f][s] \in 0 .. (IF entry' = NoEntry THEN 0 ELSE Len(entry'[s]))
    <3>1. Len(entry'[s]) \in Nat
      BY <1>4
    <3> QED
      BY <3>1, <2>2
  <2> QED
    BY <2>1, <2>3, <1>1 DEF TypeOK, CacheTypeOK
<1>8. TypeOK'
  BY <1>1, <1>7 DEF TypeOK
<1>9. WhereItIs'
  <2>1. entry' \in [Series -> Seq(Times)] /\ \A s \in Series : Ascending(entry'[s])
    BY <1>1, <1>4
  <2>2. \A s \in Series : SearchedUpTo("eval", s, ts)'
    BY <1>1, <1>2 DEF SearchedUpTo
  <2> QED
    BY <2>1, <2>2, <1>1, <1>2 DEF WhereItIs, NoneShown
<1>10. EvaluatedSoFar'
  <2>1. {u \in Steps(0, maxTimestamp, interval) : u < 0} = {}
    BY <1>3 DEF Steps
  <2>2. 0 % interval = 0
    BY <1>3
  <2> QED
    BY <2>1, <2>2, <1>1, <1>2 DEF EvaluatedSoFar
<1>11. pass' = "eval" /\ ts' > maxTimestamp' => EvaluatedAll'
  <2>1. ASSUME 0 > maxTimestamp PROVE Steps(0, maxTimestamp, interval) = {} /\ ~(maxTimestamp >= 0)
    BY <2>1, <1>3 DEF Steps
  <2> QED
    BY <2>1, <1>1, <1>2 DEF EvaluatedAll
<1>12. EpisodesInv' /\ CurrentEpisodes'
  <2>1. Visible(active') = {}
    BY <1>1, <1>2 DEF Visible, NoneActive, NoAlert
  <2>2. AllMoments' = {} /\ episodes' = {} /\ important' = {} /\ evaluated' = {}
    BY <1>1, <1>2 DEF AllMoments
  <2> QED
    BY <2>1, <2>2 DEF EpisodesInv, EpisodesApart, CurrentEpisodes
<1>13. ActiveInv' /\ ShownOnce'
  BY <1>1 DEF ActiveInv, ShownOnce
<1> QED
  BY <1>1, <1>5, <1>6, <1>8, <1>9, <1>10, <1>11, <1>12, <1>13
     DEF CoreInv, EvaluatesWholeRange, ShownInv, FiringSoFar, FaithfulSoFar

(* The test starts in the invariant.                                       *)
LEMMA InitStep ==
    ASSUME Init
    PROVE  CoreInv
<1>1. /\ CacheInit /\ holdDuration \in HoldDurations /\ limit \in Limits /\ pass = "query" /\ ts = 0
      /\ active = NoneActive /\ important = {}
      /\ activeAlertsByLabels = [b \in Series \X Times |-> <<>>]
      /\ evaluated = {} /\ episodes = {} /\ forgotten = FALSE
  BY DEF Init
<1>2. CacheTypeOK /\ entry = NoEntry /\ \A f \in Functions, s \in Series : index[f][s] = 0
  BY <1>1 DEF CacheInit, CacheTypeOK
<1>3. activeAlertsByLabels \in [Series \X Times -> Seq(Alerts)]
      /\ \A b \in Series \X Times : activeAlertsByLabels[b] = <<>>
  BY <1>1
<1>4. active \in [Series -> Alerts \cup {NoAlert}] /\ \A s \in Series : active[s] = NoAlert
  BY <1>1 DEF NoneActive
<1>5. TypeOK
  BY <1>1, <1>2, <1>3, <1>4 DEF TypeOK
<1>6. CopiesAtSeamsOnly /\ ChunksAreSeamless
  BY <1>2 DEF CopiesAtSeamsOnly, ChunksAreSeamless
<1>7. WhereItIs
  BY <1>1, <1>2 DEF WhereItIs, NoneShown, Fetched, Functions
<1>8. ShownOnce
  <2>1. Len(<<>>) <= 1
    OBVIOUS
  <2> QED
    BY <2>1, <1>3 DEF ShownOnce
<1>9. ActiveInv
  BY <1>4 DEF ActiveInv
<1> QED
  BY <1>1, <1>5, <1>6, <1>7, <1>8, <1>9
     DEF CoreInv, EvaluatesWholeRange, EvaluatedSoFar, EpisodesInv, Fetched, CurrentEpisodes, ShownInv,
         FiringSoFar, FaithfulSoFar

(* The state the second pass starts with.                                  *)
LEMMA StartReplayStep ==
    ASSUME ReplayInv, StartReplay
    PROVE  CoreInv'
<1>1. /\ TypeOK /\ WhereItIs /\ ShownOnce /\ EpisodesInv /\ CurrentEpisodes /\ CopiesAtSeamsOnly
      /\ ChunksAreSeamless /\ EvaluatedAll
      /\ pass = "eval" /\ pass' = "replay" /\ active' = NoneActive
      /\ index' = index /\ entry' = entry
      /\ data' = data /\ maxTimestamp' = maxTimestamp /\ interval' = interval
      /\ holdDuration' = holdDuration /\ limit' = limit /\ ts' = ts
      /\ important' = important /\ activeAlertsByLabels' = activeAlertsByLabels
      /\ evaluated' = evaluated /\ episodes' = episodes /\ forgotten' = forgotten
  BY DEF ReplayInv, StartReplay, cache, range, rule, history
<1>2. NoneShown /\ important = AllMoments /\ \A s \in Series : index["replay"][s] = 0
  BY <1>1 DEF WhereItIs, CurrentEpisodes
<1>3. Past' = {} /\ important' \subseteq AllMoments'
  BY <1>1, <1>2 DEF Past, AllMoments
<1>4. /\ active' \in [Series -> Alerts \cup {NoAlert}]
      /\ \A s \in Series : active'[s] = NoAlert /\ active'[s].state = "none"
  BY <1>1, NoAlertFacts DEF NoneActive
<1>5. Visible(active') = {}
  BY <1>4, VisibleFacts
<1>6. \A b \in Series \X Times : activeAlertsByLabels'[b] = <<>>
  BY <1>1, <1>2 DEF NoneShown
<1>7. TypeOK'
  <2>1. CacheTypeOK'
    BY <1>1 DEF TypeOK, CacheTypeOK
  <2> QED
    BY <2>1, <1>1, <1>4 DEF TypeOK
<1>8. CopiesAtSeamsOnly' /\ ChunksAreSeamless' /\ ShownOnce'
  BY <1>1 DEF CopiesAtSeamsOnly, ChunksAreSeamless, ShownOnce, PointSet
<1>9. EvaluatesWholeRange'
  BY <1>1 DEF EvaluatesWholeRange, EvaluatedAll
<1>10. WhereItIs'
  <2>1. entry' \in [Series -> Seq(Times)] /\ \A s \in Series : Ascending(entry'[s])
    BY <1>1 DEF WhereItIs, Fetched
  <2>2. \A s \in Series, t \in important' : SearchedUpTo("replay", s, t)'
    BY <1>1, <1>2 DEF SearchedUpTo
  <2> QED
    BY <2>1, <2>2, <1>1 DEF WhereItIs
<1>11. ActiveInv'
  BY <1>4 DEF ActiveInv
<1>12. EpisodesInv'
  <2>1. ASSUME NEW e \in episodes PROVE EpisodeInv(e[1], e[2])'
    <3>1. EpisodeInv(e[1], e[2])
      BY <1>1 DEF EpisodesInv, Fetched
    <3> QED
      BY <3>1, <1>1 DEF EpisodeInv, PointSet
  <2>2. \A e \in episodes' : EpisodeInv(e[1], e[2])'
    BY <2>1, <1>1
  <2>3. EpisodesApart'
    BY <1>1 DEF EpisodesInv, EpisodesApart, Fetched
  <2>4. ~forgotten' => \A s \in Series : \A u \in evaluated' \cap PointSet(s)' :
              \E e \in episodes' : e[1] = s /\ Covers(e[2], u)
    BY <1>1 DEF EpisodesInv, PointSet, Fetched
  <2> QED
    BY <2>2, <2>3, <2>4 DEF EpisodesInv
<1>13. ShownInv'
  BY <1>3, <1>5, <1>6 DEF ShownInv
<1>14. FiringSoFar' /\ FaithfulSoFar'
  BY <1>3, <1>4, <1>6 DEF FiringSoFar, FaithfulSoFar
<1> QED
  BY <1>1, <1>7, <1>8, <1>9, <1>10, <1>11, <1>12, <1>13, <1>14
     DEF CoreInv, EvaluatedSoFar, CurrentEpisodes

(* The end, a failure, or nothing at all.                                  *)
LEMMA RestStep ==
    ASSUME ReplayInv, Show \/ Fails \/ UNCHANGED vars
    PROVE  CoreInv'
<1>1. /\ TypeOK /\ WhereItIs /\ ShownOnce /\ EpisodesInv /\ CurrentEpisodes /\ CopiesAtSeamsOnly
      /\ ChunksAreSeamless /\ EvaluatesWholeRange /\ EvaluatedSoFar /\ ActiveInv
      /\ (pass = "eval" /\ ts > maxTimestamp => EvaluatedAll)
      /\ ShownInv /\ FiringSoFar /\ FaithfulSoFar
  BY DEF ReplayInv
<1>2. /\ index' = index /\ entry' = entry /\ active' = active
      /\ data' = data /\ maxTimestamp' = maxTimestamp /\ interval' = interval
      /\ holdDuration' = holdDuration /\ limit' = limit /\ ts' = ts
      /\ important' = important /\ activeAlertsByLabels' = activeAlertsByLabels
      /\ evaluated' = evaluated /\ episodes' = episodes /\ forgotten' = forgotten
      /\ \/ pass = "replay" /\ important = {} /\ pass' = "done"
         \/ pass' = "failed"
         \/ pass' = pass
  BY DEF Show, Fails, vars, cache, range, rule, history
<1>3. TypeOK'
  <2>1. CacheTypeOK'
    BY <1>1, <1>2 DEF TypeOK, CacheTypeOK
  <2> QED
    BY <2>1, <1>1, <1>2 DEF TypeOK
<1>4. CopiesAtSeamsOnly' /\ ChunksAreSeamless' /\ ShownOnce'
  BY <1>1, <1>2 DEF CopiesAtSeamsOnly, ChunksAreSeamless, ShownOnce, PointSet
<1>5. EvaluatesWholeRange'
  BY <1>1, <1>2 DEF EvaluatesWholeRange
<1>6. WhereItIs'
  BY <1>1, <1>2 DEF WhereItIs, Fetched, NoneShown, SearchedUpTo
<1>7. EvaluatedSoFar' /\ (pass' = "eval" /\ ts' > maxTimestamp' => EvaluatedAll') /\ ActiveInv'
  BY <1>1, <1>2 DEF EvaluatedSoFar, EvaluatedAll, ActiveInv
<1>8. EpisodesInv'
  <2> SUFFICES ASSUME Fetched' PROVE EpisodesInv'
    BY DEF EpisodesInv
  <2>1. Fetched /\ (pass' = "eval" => pass = "eval")
    BY <1>2 DEF Fetched
  <2>2. ASSUME NEW e \in episodes PROVE EpisodeInv(e[1], e[2])'
    <3>1. EpisodeInv(e[1], e[2])
      BY <2>1, <1>1 DEF EpisodesInv
    <3> QED
      BY <3>1, <2>1, <1>2 DEF EpisodeInv, PointSet
  <2>3. \A e \in episodes' : EpisodeInv(e[1], e[2])'
    BY <2>2, <1>2
  <2>4. EpisodesApart'
    BY <2>1, <1>1, <1>2 DEF EpisodesInv, EpisodesApart
  <2>5. ~forgotten' => \A s \in Series : \A u \in evaluated' \cap PointSet(s)' :
              \E e \in episodes' : e[1] = s /\ Covers(e[2], u)
    BY <2>1, <1>1, <1>2 DEF EpisodesInv, PointSet
  <2> QED
    BY <2>3, <2>4, <2>5 DEF EpisodesInv
<1>9. CurrentEpisodes'
  BY <1>1, <1>2 DEF CurrentEpisodes, AllMoments
<1>10. Past' = Past /\ AllMoments' = AllMoments /\ Shown' = Shown
  BY <1>2 DEF Past, AllMoments, Shown
<1>11. ShownInv' /\ FiringSoFar'
  BY <1>1, <1>2, <1>10 DEF ShownInv, FiringSoFar
<1>12. FaithfulSoFar'
  <2>1. \A x : SoFar(Past, x)' = SoFar(Past, x)
    BY <1>10 DEF SoFar
  <2> HIDE DEF SoFar
  <2> QED
    BY <2>1, <1>1, <1>2, <1>10 DEF FaithfulSoFar
<1> QED
  BY <1>3, <1>4, <1>5, <1>6, <1>7, <1>8, <1>9, <1>11, <1>12 DEF CoreInv

(* A place before the next time is good enough for all to come.            *)
LEMMA CoreIsEnough ==
    ASSUME CoreInv
    PROVE  ReplayInv
<1>1. TypeOK /\ WhereItIs
  BY DEF CoreInv
<1>2. ASSUME pass = "eval", NEW t \in ts .. maxTimestamp
      PROVE  Answer("eval", t) = {s \in Series : t \in PointSet(s)}
  <2>1. ts <= maxTimestamp
    BY <1>1, <1>2, GridAssumption DEF TypeOK, CacheTypeOK
  <2> QED
    BY <2>1, <1>1, <1>2, EvalAnswers
<1>3. ASSUME pass \in {"eval", "replay"}, NEW t \in important
      PROVE  Answer("replay", t) = {s \in Series : t \in PointSet(s)}
  <2>1. Fetched /\ "replay" \in Functions /\ t \in Times
    BY <1>1, <1>3 DEF Fetched, Functions, TypeOK
  <2>2. \A s \in Series : SearchedUpTo("replay", s, t)
    BY <1>1, <1>3 DEF WhereItIs, SearchedUpTo
  <2> QED
    BY <2>1, <2>2, <1>1, SearchedFacts
<1>4. FirstAnswerIsLookup
  BY <1>2, <1>3 DEF FirstAnswerIsLookup
<1> QED
  BY <1>4 DEF CoreInv, ReplayInv

(* The state of the cache and of the two passes of a test, what the cache  *)
(* holds and answers, and what each pass has seen and shown so far: for    *)
(* every set of series, all samples, any range, interval, hold duration    *)
(* and limit, and any number of times the second pass is to look at.       *)
THEOREM ReplayInvHolds == Spec => []ReplayInv
<1>1. Init => ReplayInv
  BY InitStep, CoreIsEnough
<1>2. ReplayInv /\ [Next]_vars => CoreInv'
  <2> SUFFICES ASSUME ReplayInv, [Next]_vars PROVE CoreInv'
    OBVIOUS
  <2>1. CASE FetchRange
    BY <2>1, FetchRangeStep
  <2>2. CASE FirstPass
    BY <2>2, FirstPassStep
  <2>3. CASE StartReplay
    BY <2>3, StartReplayStep
  <2>4. ASSUME NEW t \in Times, SecondPass(t) PROVE CoreInv'
    BY <2>4, SecondPassStep
  <2>5. CASE Show
    BY <2>5, RestStep
  <2>6. CASE LimitExceeded
    BY <2>6, RestStep DEF LimitExceeded
  <2>7. CASE EvalFails
    BY <2>7, RestStep DEF EvalFails
  <2>8. CASE UNCHANGED vars
    BY <2>8, RestStep
  <2> QED
    BY <2>1, <2>2, <2>3, <2>4, <2>5, <2>6, <2>7, <2>8 DEF Next, Proceeds
<1>3. CoreInv => ReplayInv
  BY CoreIsEnough
<1> QED
  BY <1>1, <1>2, <1>3, PTL DEF Spec

(* At the end the second pass has looked at all times of every episode.    *)
LEMMA FinalEpisode ==
    ASSUME ReplayInv, pass = "done", NEW e \in episodes
    PROVE  /\ e[1] \in Series /\ e[2] \in Alerts /\ Lifecycle(e[2]) /\ Never \notin Past
           /\ Moments(e[2]) \subseteq Past /\ SoFar(Past, e[2]) = e[2]
<1>1. e[1] \in Series /\ e[2] \in Alerts /\ Lifecycle(e[2])
  BY DEF ReplayInv, TypeOK, EpisodesInv, Fetched, EpisodeInv
<1>2. Past = AllMoments
  BY DEF ReplayInv, WhereItIs, Past
<1>3. Moments(e[2]) \subseteq Past /\ Never \notin Past
  BY <1>2, MomentFacts DEF AllMoments
<1>4. PICK past, x : past = Past /\ x = e[2]
  OBVIOUS
<1>5. /\ x \in Alerts /\ Never \notin past
      /\ x.firedAt \in past <=> x.firedAt # Never
      /\ x.resolvedAt \in past <=> x.resolvedAt # Never
  BY <1>1, <1>3, <1>4, MomentFacts
<1>6. SoFar(past, x) = x
  <2> DEFINE q == SoFar(past, x)
  <2>1. /\ q \in Alerts /\ q.activeAt = x.activeAt
        /\ x.resolvedAt \in past => q.state = "inactive" /\ q.resolvedAt = x.resolvedAt
        /\ x.resolvedAt \notin past =>
              q.resolvedAt = Never /\ q.state = IF x.firedAt \in past THEN "firing" ELSE "pending"
        /\ q.firedAt = IF x.firedAt \in past THEN x.firedAt ELSE Never
    BY <1>5, SoFarFacts
  <2>2. /\ x.state = "inactive" <=> x.resolvedAt # Never
        /\ x.state = "pending" <=> x.firedAt = Never
        /\ x.state \in {"pending", "firing", "inactive"}
    BY <1>1, <1>4, ResolvedFacts, NoAlertFacts
  <2> HIDE DEF q
  <2>3. q = x
    BY <2>1, <2>2, <1>5, SameRecord
  <2> QED
    BY <2>3 DEF q
<1> QED
  BY <1>1, <1>3, <1>4, <1>6

(* At the end the second pass shows what the first saw.                    *)
LEMMA FinalIsFaithful == ReplayInv => ReplayIsFaithful
<1> SUFFICES ASSUME ReplayInv, pass = "done", ~forgotten
             PROVE  Shown = {<<e[1], AsShown(e[2])>> : e \in episodes}
  BY DEF ReplayIsFaithful
<1>1. ASSUME NEW e \in episodes
      PROVE  /\ <<e[1], e[2].activeAt>> \in Series \X Times
             /\ activeAlertsByLabels[<<e[1], e[2].activeAt>>] = <<AsShown(e[2])>>
  <2>1. /\ e[1] \in Series /\ e[2] \in Alerts /\ Moments(e[2]) \subseteq Past /\ SoFar(Past, e[2]) = e[2]
    BY FinalEpisode
  <2>2. e[2].activeAt \in Past /\ e[2].activeAt \in Times
    BY <2>1, MomentFacts, NoAlertFacts
  <2>3. activeAlertsByLabels[<<e[1], e[2].activeAt>>] = <<AsShown(SoFar(Past, e[2]))>>
    BY <2>2 DEF ReplayInv, FaithfulSoFar
  <2> QED
    BY <2>1, <2>2, <2>3
<1>2. ASSUME NEW c \in Shown PROVE \E e \in episodes : c = <<e[1], AsShown(e[2])>>
  <2>1. PICK b \in Series \X Times : \E k \in DOMAIN activeAlertsByLabels[b] :
           c = <<b[1], activeAlertsByLabels[b][k]>>
    BY <1>2 DEF Shown
  <2>2. PICK k \in DOMAIN activeAlertsByLabels[b] : c = <<b[1], activeAlertsByLabels[b][k]>>
    BY <2>1
  <2>3. activeAlertsByLabels[b] # <<>>
    BY <2>2
  <2>4. PICK e \in episodes : e[1] = b[1] /\ e[2].activeAt = b[2]
    BY <2>3 DEF ReplayInv, FaithfulSoFar
  <2>5. b = <<e[1], e[2].activeAt>>
    BY <2>4
  <2>6. activeAlertsByLabels[b] = <<AsShown(e[2])>>
    BY <2>5, <1>1
  <2>7. activeAlertsByLabels[b][k] = AsShown(e[2])
    BY <2>2, <2>6
  <2> QED
    BY <2>2, <2>4, <2>7
<1>3. ASSUME NEW e \in episodes PROVE <<e[1], AsShown(e[2])>> \in Shown
  <2>1. PICK b \in Series \X Times : b = <<e[1], e[2].activeAt>>
    BY <1>1
  <2>2. activeAlertsByLabels[b] = <<AsShown(e[2])>> /\ b[1] = e[1]
    BY <2>1, <1>1
  <2>3. 1 \in DOMAIN activeAlertsByLabels[b] /\ activeAlertsByLabels[b][1] = AsShown(e[2])
    BY <2>2
  <2> QED
    BY <2>2, <2>3 DEF Shown
<1> QED
  BY <1>2, <1>3

(* At the end every alert that fired is shown.                             *)
LEMMA FinalMissesNone == ReplayInv => NoFiringMissed
<1> SUFFICES ASSUME ReplayInv, pass = "done", NEW e \in episodes, e[2].firedAt # Never
             PROVE  \E c \in Shown : /\ c[1] = e[1] /\ c[2].firedAt \in 0 .. e[2].firedAt
                                     /\ c[2].resolvedAt \in {Never, e[2].resolvedAt}
  BY DEF NoFiringMissed
<1>1. /\ e[1] \in Series /\ e[2] \in Alerts /\ Moments(e[2]) \subseteq Past /\ Never \notin Past
  BY FinalEpisode
<1>2. CASE e[2].resolvedAt # Never
  <2>1. e[2].resolvedAt \in Past
    BY <1>1, <1>2, MomentFacts
  <2> QED
    BY <2>1 DEF ReplayInv, FiringSoFar
<1>3. CASE e[2].resolvedAt = Never
  <2>1. PICK s, a : s = e[1] /\ a = active[s]
    OBVIOUS
  <2>2. e[2].activeAt \in Past /\ e[2].firedAt \in Past /\ e[2].resolvedAt \notin Past
    BY <1>1, <1>3, MomentFacts
  <2>3. a.state = "firing" /\ a.firedAt <= e[2].firedAt
    BY <2>1, <2>2 DEF ReplayInv, FiringSoFar
  <2>4. a \in Alerts /\ Lifecycle(a) /\ s \in Visible(active)
    BY <2>1, <2>3, <1>1, NoAlertFacts DEF ReplayInv, TypeOK, ActiveInv, Visible
  <2>5. a.firedAt \in Nat /\ a.resolvedAt = Never /\ AsShown(a) = a
    BY <2>3, <2>4, ResolvedFacts, NoAlertFacts, ShownFacts
  <2>6. PICK b \in Series \X Times : b = <<s, a.activeAt>>
    BY <2>1, <2>4, <1>1, NoAlertFacts
  <2>7. activeAlertsByLabels[b] = <<a>>
    BY <2>1, <2>4, <2>5, <2>6 DEF ReplayInv, ShownInv
  <2>8. 1 \in DOMAIN activeAlertsByLabels[b] /\ activeAlertsByLabels[b][1] = a
    BY <2>7
  <2>9. <<s, a>> \in Shown
    BY <2>6, <2>8 DEF Shown
  <2>10. a.firedAt \in 0 .. e[2].firedAt
    BY <2>3, <2>5, <1>1, NoAlertFacts
  <2> QED
    BY <2>1, <2>5, <2>9, <2>10
<1> QED
  BY <1>2, <1>3

(* The second pass evaluates the rule at the important times only, and     *)
(* shows the alerts of the first, each with its times, unless one was      *)
(* dropped while it was pending.                                           *)
THEOREM ReplayFaithful == Spec => []ReplayIsFaithful
<1>1. ReplayInv => ReplayIsFaithful
  BY FinalIsFaithful
<1> QED
  BY <1>1, ReplayInvHolds, PTL

(* Even then every alert that fired is shown, as firing since no later and *)
(* as resolved at the same time.                                           *)
THEOREM FiringNeverMissed == Spec => []NoFiringMissed
<1>1. ReplayInv => NoFiringMissed
  BY FinalMissesNone
<1> QED
  BY <1>1, ReplayInvHolds, PTL
=============================================================================
