--------------------------- MODULE BackfillProof ----------------------------
(***************************************************************************)
(* Proofs about Backfill, for every number of consumers, chunks and rules  *)
(* and matrices of every size.  The iterator gives each point of a matrix  *)
(* once, with the labels of its series and in turns, although it cuts      *)
(* three parallel slices while it walks them; ExecuteInv is what makes     *)
(* that inductive.                                                         *)
(***************************************************************************)
EXTENDS Backfill, FiniteSetTheorems, SequenceTheorems, TLAPS

Samples == [series : Ids, point : Points, labels : Ids]

LEMMA MatrixFacts ==
    ASSUME NEW m \in Matrices
    PROVE  /\ m \in Seq(1 .. MaxPoints) /\ Len(m) \in Nat
           /\ \A s \in 1 .. Len(m) : s \in Ids /\ m[s] \in 1 .. MaxPoints
<1>1. PICK n \in 0 .. MaxSeries : m \in [1 .. n -> 1 .. MaxPoints]
  BY DEF Matrices
<1>2. n \in Nat /\ Len(m) = n
  BY <1>1
<1> QED BY <1>1, <1>2, BoundAssumption DEF Ids

LEMMA Removed ==
    ASSUME NEW T, NEW s \in Seq(T), NEW p \in 1 .. Len(s)
    PROVE  /\ RemoveAt(s, p) \in Seq(T) /\ Len(RemoveAt(s, p)) = Len(s) - 1
           /\ \A q \in 1 .. Len(s) - 1 :
                 RemoveAt(s, p)[q] = s[IF q < p THEN q ELSE q + 1]
<1> DEFINE a == SubSeq(s, 1, p - 1)
           b == SubSeq(s, p + 1, Len(s))
<1>1. p \in Nat /\ Len(s) \in Nat /\ 1 <= p /\ p <= Len(s)
  OBVIOUS
<1>2. /\ a \in Seq(T) /\ Len(a) = p - 1 /\ \A q \in 1 .. p - 1 : a[q] = s[q]
  BY <1>1
<1>3. /\ b \in Seq(T) /\ Len(b) = Len(s) - p
      /\ \A q \in 1 .. Len(s) - p : b[q] = s[p + q]
  BY <1>1
<1> HIDE DEF a, b
<1>4. a \o b \in Seq(T) /\ Len(a \o b) = Len(s) - 1
  <2>1. a \o b \in Seq(T) /\ Len(a \o b) = Len(a) + Len(b)
    BY <1>2, <1>3, ConcatProperties
  <2>2. Len(a) + Len(b) = Len(s) - 1
    BY <1>1, <1>2, <1>3
  <2> QED BY <2>1, <2>2
<1>5. ASSUME NEW q \in 1 .. Len(s) - 1
      PROVE  (a \o b)[q] = s[IF q < p THEN q ELSE q + 1]
  <2>1. CASE q < p
    BY <1>1, <1>2, <1>3, <2>1
  <2>2. CASE ~(q < p)
    <3>1. q - (p - 1) \in 1 .. Len(s) - p /\ p + (q - (p - 1)) = q + 1
      BY <1>1, <2>2
    <3>2. (a \o b)[q] = b[q - (p - 1)]
      BY <1>1, <1>2, <1>3, <2>2
    <3> QED BY <1>3, <2>2, <3>1, <3>2
  <2> QED BY <2>1, <2>2
<1>6. RemoveAt(s, p) = a \o b
  BY DEF RemoveAt, a, b
<1> QED BY <1>4, <1>5, <1>6

(* A sample that is added counts for its series.                           *)
OfSeries(a, s) == {i \in 1 .. Len(a) : a[i].series = s}

LEMMA Counted ==
    ASSUME NEW a \in Seq(Samples), NEW e \in Samples, NEW s
    PROVE  /\ Cardinality(OfSeries(a, s)) \in Nat
           /\ OfSeries(Append(a, e), s) =
                 IF e.series = s THEN OfSeries(a, s) \cup {Len(a) + 1} ELSE OfSeries(a, s)
           /\ Cardinality(OfSeries(Append(a, e), s)) =
                 IF e.series = s THEN Cardinality(OfSeries(a, s)) + 1
                 ELSE Cardinality(OfSeries(a, s))
<1> DEFINE x == Append(a, e)
<1>1. /\ Len(a) \in Nat /\ Len(x) = Len(a) + 1 /\ x[Len(a) + 1] = e
      /\ \A i \in 1 .. Len(a) : x[i] = a[i]
  OBVIOUS
<1> HIDE DEF x
<1>2. IsFiniteSet(OfSeries(a, s)) /\ Cardinality(OfSeries(a, s)) \in Nat
  <2>1. IsFiniteSet(1 .. Len(a)) /\ OfSeries(a, s) \subseteq 1 .. Len(a)
    BY <1>1, FS_Interval DEF OfSeries
  <2>2. IsFiniteSet(OfSeries(a, s))
    BY <2>1, FS_Subset
  <2> QED BY <2>2, FS_CardinalityType
<1>3. OfSeries(x, s) = IF e.series = s THEN OfSeries(a, s) \cup {Len(a) + 1} ELSE OfSeries(a, s)
  BY <1>1 DEF OfSeries
<1>4. Len(a) + 1 \notin OfSeries(a, s)
  BY <1>1 DEF OfSeries
<1>5. Cardinality(OfSeries(x, s)) =
         IF e.series = s THEN Cardinality(OfSeries(a, s)) + 1 ELSE Cardinality(OfSeries(a, s))
  BY <1>2, <1>3, <1>4, FS_AddElement
<1> QED BY <1>2, <1>3, <1>5 DEF x

-----------------------------------------------------------------------------
IInv == TypeOK /\ SamplesOfTheirSeries /\ ExecuteInv

(* What Next finds at its place.                                           *)
LEMMA AtPlace ==
    ASSUME IInv, NEW c \in Consumers, at[c] = "next", series[c] # <<>>
    PROVE  /\ Len(series[c]) \in Nat /\ Place(c) \in 1 .. Len(series[c])
           /\ Len(seriesIndex[c]) = Len(series[c]) /\ Len(seriesLabels[c]) = Len(series[c])
           /\ seriesLabels[c] = series[c]
           /\ series[c][Place(c)] \in 1 .. Len(matrix[c])
           /\ series[c][Place(c)] \in Ids
           /\ matrix[c][series[c][Place(c)]] \in 1 .. MaxPoints
           /\ seriesIndex[c][Place(c)] \in Nat /\ seriesIndex[c][Place(c)] + 1 \in Points
           /\ seriesIndex[c][Place(c)] < matrix[c][series[c][Place(c)]]
<1>1. Turns(c) /\ TypeOK
  BY DEF IInv, ExecuteInv
<1>2. /\ series[c] \in Seq(Ids) /\ seriesIndex[c] \in Seq(Points) /\ matrix[c] \in Matrices
      /\ Len(seriesIndex[c]) = Len(series[c]) /\ Len(seriesLabels[c]) = Len(series[c])
      /\ currentSeries[c] \in Nat /\ currentSeries[c] <= Len(series[c])
  BY <1>1 DEF TypeOK
<1>3. Len(series[c]) \in Nat /\ Len(series[c]) # 0
  BY <1>2
<1>4. Place(c) \in 1 .. Len(series[c])
  BY <1>2, <1>3 DEF Place
<1>5. /\ series[c][Place(c)] \in 1 .. Len(matrix[c]) /\ seriesLabels[c] = series[c]
      /\ seriesIndex[c][Place(c)] < matrix[c][series[c][Place(c)]]
  BY <1>1, <1>4 DEF Turns
<1>6. series[c][Place(c)] \in Ids /\ matrix[c][series[c][Place(c)]] \in 1 .. MaxPoints
  BY <1>2, <1>5, MatrixFacts
<1>7. seriesIndex[c][Place(c)] \in Points
  BY <1>2, <1>4
<1>8. seriesIndex[c][Place(c)] \in Nat /\ seriesIndex[c][Place(c)] + 1 \in Points
  BY <1>5, <1>6, <1>7, BoundAssumption DEF Points
<1> QED BY <1>2, <1>3, <1>4, <1>5, <1>6, <1>8

(* What Next does to its three slices, in both cases.                      *)
LEMMA Advanced ==
    ASSUME IInv, NEW c \in Consumers, at[c] = "next", series[c] # <<>>, Advance(c)
    PROVE  LET p == Place(c) IN
           /\ \A x \in Consumers \ {c} :
                 /\ series'[x] = series[x] /\ seriesIndex'[x] = seriesIndex[x]
                 /\ seriesLabels'[x] = seriesLabels[x] /\ currentSeries'[x] = currentSeries[x]
           /\ IsLastPoint(c) =>
                 /\ series'[c] = RemoveAt(series[c], p)
                 /\ seriesIndex'[c] = RemoveAt(seriesIndex[c], p)
                 /\ seriesLabels'[c] = RemoveAt(seriesLabels[c], p)
                 /\ currentSeries'[c] = p - 1
           /\ ~IsLastPoint(c) =>
                 /\ series'[c] = series[c] /\ seriesLabels'[c] = seriesLabels[c]
                 /\ seriesIndex'[c] = [seriesIndex[c] EXCEPT ![p] = seriesIndex[c][p] + 1]
                 /\ currentSeries'[c] = p
<1>1. TypeOK
  BY DEF IInv
<1>2. CASE IsLastPoint(c)
  BY <1>1, <1>2 DEF Advance, TypeOK
<1>3. CASE ~IsLastPoint(c)
  BY <1>1, <1>3 DEF Advance, TypeOK
<1> QED BY <1>2, <1>3

(* The iterators of TypeOK.                                                *)
IteratorOK ==
    /\ series \in [Consumers -> Seq(Ids)]
    /\ seriesIndex \in [Consumers -> Seq(Points)]
    /\ seriesLabels \in [Consumers -> Seq(Ids)]
    /\ currentSeries \in [Consumers -> Nat]
    /\ \A c \in Consumers :
          /\ Len(seriesIndex[c]) = Len(series[c]) /\ Len(seriesLabels[c]) = Len(series[c])
          /\ currentSeries[c] <= Len(series[c])

LEMMA AdvanceTypes ==
    ASSUME IInv, NEW c \in Consumers, at[c] = "next", series[c] # <<>>, Advance(c)
    PROVE  IteratorOK'
<1> DEFINE p == Place(c)
<1>1. /\ TypeOK /\ Len(series[c]) \in Nat /\ p \in 1 .. Len(series[c])
      /\ Len(seriesIndex[c]) = Len(series[c]) /\ Len(seriesLabels[c]) = Len(series[c])
      /\ p \in 1 .. Len(seriesIndex[c]) /\ p \in 1 .. Len(seriesLabels[c])
      /\ seriesIndex[c][p] + 1 \in Points
  BY AtPlace DEF IInv
<1>2. /\ series[c] \in Seq(Ids) /\ seriesLabels[c] \in Seq(Ids)
      /\ seriesIndex[c] \in Seq(Points)
  BY <1>1 DEF TypeOK
<1>3. /\ series'[c] \in Seq(Ids) /\ seriesIndex'[c] \in Seq(Points)
      /\ seriesLabels'[c] \in Seq(Ids)
      /\ Len(seriesIndex'[c]) = Len(series'[c]) /\ Len(seriesLabels'[c]) = Len(series'[c])
      /\ currentSeries'[c] \in Nat /\ currentSeries'[c] <= Len(series'[c])
  <2>1. CASE IsLastPoint(c)
    <3>1. /\ series'[c] = RemoveAt(series[c], p) /\ seriesIndex'[c] = RemoveAt(seriesIndex[c], p)
          /\ seriesLabels'[c] = RemoveAt(seriesLabels[c], p) /\ currentSeries'[c] = p - 1
      BY <2>1, Advanced
    <3> HIDE DEF p
    <3>2. series'[c] \in Seq(Ids) /\ Len(series'[c]) = Len(series[c]) - 1
      BY <1>1, <1>2, <3>1, Removed
    <3>3. seriesIndex'[c] \in Seq(Points) /\ Len(seriesIndex'[c]) = Len(series[c]) - 1
      BY <1>1, <1>2, <3>1, Removed
    <3>4. seriesLabels'[c] \in Seq(Ids) /\ Len(seriesLabels'[c]) = Len(series[c]) - 1
      BY <1>1, <1>2, <3>1, Removed
    <3>5. p - 1 \in Nat /\ p - 1 <= Len(series[c]) - 1
      BY <1>1
    <3> QED BY <3>1, <3>2, <3>3, <3>4, <3>5
  <2>2. CASE ~IsLastPoint(c)
    <3>1. /\ series'[c] = series[c] /\ seriesLabels'[c] = seriesLabels[c]
          /\ seriesIndex'[c] = [seriesIndex[c] EXCEPT ![p] = seriesIndex[c][p] + 1]
          /\ currentSeries'[c] = p
      BY <2>2, Advanced
    <3> HIDE DEF p
    <3>2. seriesIndex'[c] \in Seq(Points) /\ Len(seriesIndex'[c]) = Len(seriesIndex[c])
      BY <1>1, <1>2, <3>1, ExceptSeq
    <3> QED BY <1>1, <1>2, <3>1, <3>2
  <2> QED BY <2>1, <2>2
<1>4. /\ DOMAIN series' = Consumers /\ DOMAIN seriesIndex' = Consumers
      /\ DOMAIN seriesLabels' = Consumers /\ DOMAIN currentSeries' = Consumers
      /\ series' = [x \in Consumers |-> series'[x]]
      /\ seriesIndex' = [x \in Consumers |-> seriesIndex'[x]]
      /\ seriesLabels' = [x \in Consumers |-> seriesLabels'[x]]
      /\ currentSeries' = [x \in Consumers |-> currentSeries'[x]]
  BY <1>1 DEF Advance, TypeOK
<1>5. ASSUME NEW x \in Consumers
      PROVE  /\ series'[x] \in Seq(Ids) /\ seriesIndex'[x] \in Seq(Points)
             /\ seriesLabels'[x] \in Seq(Ids) /\ currentSeries'[x] \in Nat
             /\ Len(seriesIndex'[x]) = Len(series'[x])
             /\ Len(seriesLabels'[x]) = Len(series'[x])
             /\ currentSeries'[x] <= Len(series'[x])
  <2>1. CASE x = c
    BY <1>3, <2>1
  <2>2. CASE x # c
    <3>1. /\ series[x] \in Seq(Ids) /\ seriesIndex[x] \in Seq(Points)
          /\ seriesLabels[x] \in Seq(Ids) /\ currentSeries[x] \in Nat
          /\ Len(seriesIndex[x]) = Len(series[x])
          /\ Len(seriesLabels[x]) = Len(series[x])
          /\ currentSeries[x] <= Len(series[x])
      BY <1>1 DEF TypeOK
    <3>2. /\ series'[x] = series[x] /\ seriesIndex'[x] = seriesIndex[x]
          /\ seriesLabels'[x] = seriesLabels[x] /\ currentSeries'[x] = currentSeries[x]
      BY <1>1, <2>2, Advanced
    <3> QED BY <3>1, <3>2
  <2> QED BY <2>1, <2>2
<1>6. /\ series' \in [Consumers -> Seq(Ids)] /\ seriesIndex' \in [Consumers -> Seq(Points)]
      /\ seriesLabels' \in [Consumers -> Seq(Ids)] /\ currentSeries' \in [Consumers -> Nat]
  BY <1>4, <1>5
<1> QED BY <1>5, <1>6 DEF IteratorOK

-----------------------------------------------------------------------------
(* Count in the next state, of a series of this one.                       *)
CountNext(c, s) == Cardinality({i \in 1 .. Len(added'[c]) : added'[c][i].series = s})

(* The sample that AddNext adds is of the series at the place.             *)
LEMMA AddedOne ==
    ASSUME IInv, NEW c \in Consumers, AddNext(c)
    PROVE  /\ \A x \in Consumers \ {c} : added'[x] = added[x]
           /\ added'[c] = Append(added[c], [series |-> series[c][Place(c)],
                                            point  |-> seriesIndex[c][Place(c)] + 1,
                                            labels |-> seriesLabels[c][Place(c)]])
           /\ [series |-> series[c][Place(c)], point |-> seriesIndex[c][Place(c)] + 1,
               labels |-> seriesLabels[c][Place(c)]] \in Samples
           /\ added[c] \in Seq(Samples)
           /\ \A s : /\ Count(c, s) \in Nat
                     /\ CountNext(c, s) = IF s = series[c][Place(c)] THEN Count(c, s) + 1
                                          ELSE Count(c, s)
<1> DEFINE e == [series |-> series[c][Place(c)], point |-> seriesIndex[c][Place(c)] + 1,
                 labels |-> seriesLabels[c][Place(c)]]
<1>1. TypeOK /\ at[c] = "next" /\ series[c] # <<>>
  BY DEF IInv, AddNext
<1>2. added \in [Consumers -> Seq(Samples)]
  BY <1>1 DEF TypeOK, Samples
<1>3. added' = [added EXCEPT ![c] = Append(added[c], e)]
  BY DEF AddNext
<1>4. e \in Samples /\ e.series = series[c][Place(c)]
  BY <1>1, AtPlace DEF Samples
<1> HIDE DEF e
<1>5. /\ \A x \in Consumers \ {c} : added'[x] = added[x]
      /\ added'[c] = Append(added[c], e)
  BY <1>2, <1>3
<1>6. ASSUME NEW s
      PROVE  /\ Count(c, s) \in Nat
             /\ CountNext(c, s) = IF s = series[c][Place(c)] THEN Count(c, s) + 1
                                  ELSE Count(c, s)
  <2>1. /\ Cardinality(OfSeries(added[c], s)) \in Nat
        /\ Cardinality(OfSeries(Append(added[c], e), s)) =
              IF e.series = s THEN Cardinality(OfSeries(added[c], s)) + 1
              ELSE Cardinality(OfSeries(added[c], s))
    BY <1>2, <1>4, Counted
  <2>2. /\ Count(c, s) = Cardinality(OfSeries(added[c], s))
        /\ CountNext(c, s) = Cardinality(OfSeries(added'[c], s))
    BY DEF Count, CountNext, OfSeries
  <2> QED BY <1>4, <1>5, <2>1, <2>2
<1>7. added[c] \in Seq(Samples)
  BY <1>2
<1> QED BY <1>4, <1>5, <1>6, <1>7 DEF e

LEMMA TurnsStep ==
    ASSUME IInv, NEW c \in Consumers, AddNext(c) PROVE Turns(c)'
<1> DEFINE p == Place(c)
           L == Len(series[c])
           m == matrix[c]
           T == series[c]
           X == seriesIndex[c]
<1>1. at[c] = "next" /\ series[c] # <<>> /\ Advance(c) /\ TypeOK /\ matrix' = matrix
  BY DEF IInv, AddNext
<1>2. /\ L \in Nat /\ p \in 1 .. L /\ p \in Nat
      /\ Len(seriesIndex[c]) = L
      /\ seriesLabels[c] = T /\ T[p] \in 1 .. Len(m) /\ m[T[p]] \in 1 .. MaxPoints
      /\ X[p] \in Nat /\ X[p] < m[T[p]]
  BY <1>1, AtPlace
<1>3. \A s : /\ Count(c, s) \in Nat
             /\ CountNext(c, s) = IF s = T[p] THEN Count(c, s) + 1 ELSE Count(c, s)
  BY AddedOne
<1>4. /\ \A q, r \in 1 .. L : q # r => T[q] # T[r]
      /\ \A q \in 1 .. L : T[q] \in 1 .. Len(m) /\ X[q] = Count(c, T[q]) /\ X[q] < m[T[q]]
      /\ \A s \in 1 .. Len(m) : (\A q \in 1 .. L : T[q] # s) => Count(c, s) = m[s]
  BY <1>1 DEF IInv, ExecuteInv, Turns
<1>5. PICK k \in Points : /\ \A q \in 1 .. L : X[q] = IF q < p THEN k + 1 ELSE k
                          /\ \A s \in 1 .. Len(m) : Count(c, s) <= k + 1
  BY <1>1 DEF IInv, ExecuteInv, Turns
<1>6. /\ T \in Seq(Ids) /\ X \in Seq(Points) /\ k \in Nat /\ MaxPoints \in Nat
      /\ \A s \in 1 .. Len(m) : m[s] \in 1 .. MaxPoints
  BY <1>1, MatrixFacts, BoundAssumption DEF TypeOK, Points
<1>7. X[p] = k
  BY <1>2, <1>5
<1>8. CASE ~IsLastPoint(c)
  <2>1. /\ series'[c] = T /\ seriesLabels'[c] = T /\ currentSeries'[c] = p
        /\ seriesIndex'[c] = [X EXCEPT ![p] = X[p] + 1]
        /\ X[p] + 1 < m[T[p]]
    BY <1>1, <1>2, <1>8, Advanced DEF IsLastPoint
  <2>2. /\ Len(series'[c]) = L /\ Place(c)' = IF p >= L THEN 1 ELSE p + 1
        /\ \A q \in 1 .. L : seriesIndex'[c][q] = IF q = p THEN X[p] + 1 ELSE X[q]
    <3>1. Place(c)' = IF p >= L THEN 1 ELSE p + 1
      BY <2>1 DEF Place
    <3>2. \A q \in 1 .. L : q \in DOMAIN X
      BY <1>2, <1>6
    <3> QED BY <2>1, <3>1, <3>2
  <2> HIDE DEF p, L, m, T, X
  <2>3. \A q \in 1 .. L : /\ T[q] \in 1 .. Len(m)
                          /\ seriesIndex'[c][q] = CountNext(c, T[q])
                          /\ seriesIndex'[c][q] < m[T[q]]
    BY <1>2, <1>3, <1>4, <2>1, <2>2
  <2>4. \A s \in 1 .. Len(m) : (\A q \in 1 .. L : T[q] # s) => CountNext(c, s) = m[s]
    BY <1>2, <1>3, <1>4
  <2>5. \A s \in 1 .. Len(m) : CountNext(c, s) <= k + 1
    <3>1. Count(c, T[p]) = k
      BY <1>2, <1>4, <1>7
    <3> QED BY <1>3, <1>5, <1>6, <3>1
  <2>6. \E j \in Points :
           /\ \A q \in 1 .. L : seriesIndex'[c][q] = IF q < Place(c)' THEN j + 1 ELSE j
           /\ \A s \in 1 .. Len(m) : CountNext(c, s) <= j + 1
    <3>1. CASE p < L
      <4>1. \A q \in 1 .. L : seriesIndex'[c][q] = IF q < p + 1 THEN k + 1 ELSE k
        BY <1>2, <1>5, <1>7, <2>2
      <4>2. Place(c)' = p + 1
        BY <1>2, <2>2, <3>1
      <4> QED BY <2>5, <4>1, <4>2
    <3>2. CASE ~(p < L)
      <4>1. p = L /\ Place(c)' = 1
        BY <1>2, <2>2, <3>2
      <4>2. \A q \in 1 .. L : seriesIndex'[c][q] = k + 1 /\ ~(q < 1)
        BY <1>2, <1>5, <1>7, <2>2, <4>1
      <4>3. k + 1 \in Points
        BY <1>2, <1>6, <1>7, <2>1 DEF Points
      <4>4. \A s \in 1 .. Len(m) : CountNext(c, s) <= (k + 1) + 1
        <5>1. \A s : CountNext(c, s) \in Nat
          BY <1>3
        <5> QED BY <1>6, <2>5, <5>1
      <4> QED BY <4>1, <4>2, <4>3, <4>4
    <3> QED BY <3>1, <3>2
  <2>7. /\ seriesLabels'[c] = series'[c] /\ series'[c] = T /\ Len(series'[c]) = L
        /\ matrix'[c] = m
    BY <1>1, <2>1, <2>2 DEF m
  <2>8. /\ \A q, r \in 1 .. Len(series'[c]) : q # r => series'[c][q] # series'[c][r]
        /\ \A q \in 1 .. Len(series'[c]) :
              /\ series'[c][q] \in 1 .. Len(matrix'[c])
              /\ seriesIndex'[c][q] = CountNext(c, series'[c][q])
              /\ seriesIndex'[c][q] < matrix'[c][series'[c][q]]
        /\ \A s \in 1 .. Len(matrix'[c]) :
              (\A q \in 1 .. Len(series'[c]) : series'[c][q] # s) =>
                  CountNext(c, s) = matrix'[c][s]
        /\ \E j \in Points :
              /\ \A q \in 1 .. Len(series'[c]) :
                    seriesIndex'[c][q] = IF q < Place(c)' THEN j + 1 ELSE j
              /\ \A s \in 1 .. Len(matrix'[c]) : CountNext(c, s) <= j + 1
    BY <1>4, <2>3, <2>4, <2>6, <2>7
  <2> QED BY <2>7, <2>8 DEF Turns, Count, CountNext
<1>9. CASE IsLastPoint(c)
  <2>1. /\ series'[c] = RemoveAt(T, p) /\ seriesLabels'[c] = RemoveAt(T, p)
        /\ seriesIndex'[c] = RemoveAt(X, p) /\ currentSeries'[c] = p - 1
    BY <1>1, <1>2, <1>9, Advanced
  <2>2. X[p] + 1 = m[T[p]]
    BY <1>2, <1>6, <1>9 DEF IsLastPoint
  <2>3. Len(T) = L /\ Len(X) = L /\ p \in 1 .. Len(T) /\ p \in 1 .. Len(X)
    BY <1>2
  <2>4. Place(c)' = IF currentSeries'[c] >= Len(series'[c]) THEN 1 ELSE currentSeries'[c] + 1
    BY DEF Place
  <2> HIDE DEF p, L, m, T, X
  <2> DEFINE from(q) == IF q < p THEN q ELSE q + 1
  <2>5. Len(series'[c]) = L - 1 /\ \A q \in 1 .. L - 1 : series'[c][q] = T[from(q)]
    <3>1. /\ Len(RemoveAt(T, p)) = Len(T) - 1
          /\ \A q \in 1 .. Len(T) - 1 : RemoveAt(T, p)[q] = T[IF q < p THEN q ELSE q + 1]
      BY <1>6, <2>3, Removed
    <3> QED BY <2>1, <2>3, <3>1
  <2>6. \A q \in 1 .. L - 1 : seriesIndex'[c][q] = X[from(q)]
    <3>1. \A q \in 1 .. Len(X) - 1 : RemoveAt(X, p)[q] = X[IF q < p THEN q ELSE q + 1]
      BY <1>6, <2>3, Removed
    <3> QED BY <2>1, <2>3, <3>1
  <2>7. /\ \A q \in 1 .. L - 1 : from(q) \in 1 .. L /\ from(q) # p
        /\ \A q, r \in 1 .. L - 1 : q # r => from(q) # from(r)
        /\ \A r \in 1 .. L : r # p => \E q \in 1 .. L - 1 : from(q) = r
    <3>1. /\ \A q \in 1 .. L - 1 : from(q) \in 1 .. L /\ from(q) # p
          /\ \A q, r \in 1 .. L - 1 : q # r => from(q) # from(r)
      BY <1>2
    <3>2. ASSUME NEW r \in 1 .. L, r # p PROVE \E q \in 1 .. L - 1 : from(q) = r
      <4>1. CASE r < p
        BY <1>2, <3>2, <4>1
      <4>2. CASE ~(r < p)
        <5>1. r - 1 \in 1 .. L - 1 /\ from(r - 1) = r
          BY <1>2, <3>2, <4>2
        <5> QED BY <5>1
      <4> QED BY <4>1, <4>2
    <3> QED BY <3>1, <3>2
  <2>8. Place(c)' = IF p >= L THEN 1 ELSE p
    BY <1>2, <2>1, <2>4, <2>5
  <2>9. \A q \in 1 .. L - 1 : seriesIndex'[c][q] = IF from(q) < p THEN k + 1 ELSE k
    BY <1>5, <2>6, <2>7
  <2>10. \A q \in 1 .. L - 1 : from(q) < p <=> q < p
    BY <1>2
  <2> HIDE DEF from
  <2>11. \A q, r \in 1 .. L - 1 : q # r => series'[c][q] # series'[c][r]
    BY <1>4, <2>5, <2>7
  <2>12. \A q \in 1 .. L - 1 : /\ series'[c][q] \in 1 .. Len(m)
                               /\ seriesIndex'[c][q] = CountNext(c, series'[c][q])
                               /\ seriesIndex'[c][q] < m[series'[c][q]]
    <3> SUFFICES ASSUME NEW q \in 1 .. L - 1
                 PROVE  /\ series'[c][q] \in 1 .. Len(m)
                        /\ seriesIndex'[c][q] = CountNext(c, series'[c][q])
                        /\ seriesIndex'[c][q] < m[series'[c][q]]
      OBVIOUS
    <3>1. from(q) \in 1 .. L /\ from(q) # p /\ series'[c][q] = T[from(q)]
          /\ seriesIndex'[c][q] = X[from(q)]
      BY <2>5, <2>6, <2>7
    <3>2. T[from(q)] # T[p]
      BY <1>2, <1>4, <3>1
    <3>3. CountNext(c, T[from(q)]) = Count(c, T[from(q)])
      BY <1>3, <3>2
    <3> QED BY <1>4, <3>1, <3>3
  <2>13. \A s \in 1 .. Len(m) : (\A q \in 1 .. L - 1 : series'[c][q] # s) => CountNext(c, s) = m[s]
    <3> SUFFICES ASSUME NEW s \in 1 .. Len(m), \A q \in 1 .. L - 1 : series'[c][q] # s
                 PROVE  CountNext(c, s) = m[s]
      OBVIOUS
    <3>1. CASE s = T[p]
      BY <1>2, <1>3, <1>4, <2>2, <3>1
    <3>2. CASE s # T[p]
      <4>1. ASSUME NEW r \in 1 .. L, r # p PROVE T[r] # s
        <5>1. PICK q \in 1 .. L - 1 : from(q) = r
          BY <2>7, <4>1
        <5> QED BY <2>5, <5>1
      <4> QED BY <1>3, <1>4, <3>2, <4>1
    <3> QED BY <3>1, <3>2
  <2>14. \A s \in 1 .. Len(m) : CountNext(c, s) <= k + 1
    <3>1. Count(c, T[p]) = k
      BY <1>2, <1>4, <1>7
    <3> QED BY <1>3, <1>5, <1>6, <3>1
  <2>15. \E j \in Points :
            /\ \A q \in 1 .. L - 1 : seriesIndex'[c][q] = IF q < Place(c)' THEN j + 1 ELSE j
            /\ \A s \in 1 .. Len(m) : CountNext(c, s) <= j + 1
    <3>1. CASE p < L \/ L = 1
      <4>1. \A q \in 1 .. L - 1 : q < Place(c)' <=> q < p
        BY <1>2, <2>8, <3>1
      <4> QED BY <2>9, <2>10, <2>14, <4>1
    <3>2. CASE ~(p < L) /\ L # 1
      <4>1. p = L /\ Place(c)' = 1 /\ 1 \in 1 .. L - 1
        BY <1>2, <2>8, <3>2
      <4>2. \A q \in 1 .. L - 1 : seriesIndex'[c][q] = k + 1 /\ ~(q < 1)
        BY <1>2, <2>9, <2>10, <4>1
      <4>3. k + 1 \in Points
        <5>1. k + 1 < m[series'[c][1]] /\ series'[c][1] \in 1 .. Len(m)
          BY <2>12, <4>1, <4>2
        <5>2. m[series'[c][1]] \in 1 .. MaxPoints
          BY <1>6, <5>1
        <5> QED BY <1>6, <5>1, <5>2 DEF Points
      <4>4. \A s \in 1 .. Len(m) : CountNext(c, s) <= (k + 1) + 1
        <5>1. \A s : CountNext(c, s) \in Nat
          BY <1>3
        <5> QED BY <1>6, <2>14, <5>1
      <4> QED BY <4>1, <4>2, <4>3, <4>4
    <3> QED BY <1>2, <3>1, <3>2
  <2>16. seriesLabels'[c] = series'[c] /\ matrix'[c] = m
    BY <1>1, <2>1 DEF m
  <2> QED BY <2>5, <2>11, <2>12, <2>13, <2>15, <2>16 DEF Turns, Count, CountNext
<1> QED BY <1>8, <1>9

(* The turns of a consumer are its own affair.                             *)
LEMMA TurnsStay ==
    ASSUME NEW c \in Consumers, Turns(c), matrix'[c] = matrix[c], added'[c] = added[c],
           series'[c] = series[c], seriesIndex'[c] = seriesIndex[c],
           seriesLabels'[c] = seriesLabels[c], currentSeries'[c] = currentSeries[c]
    PROVE  Turns(c)'
<1>1. \A s : Count(c, s)' = Count(c, s)
  BY DEF Count
<1>2. Place(c)' = Place(c)
  BY DEF Place
<1> QED BY <1>1, <1>2 DEF Turns

(* A new iterator has all series, none of them begun.                      *)
LEMMA QueryTurns == ASSUME IInv, NEW c \in Consumers, Query(c) PROVE Turns(c)'
<1>0. TypeOK /\ added[c] = <<>> /\ added' = added
  BY DEF IInv, ExecuteInv, Query
<1>1. PICK m \in Matrices :
         /\ matrix' = [matrix EXCEPT ![c] = m]
         /\ series' = [series EXCEPT ![c] = [i \in 1 .. Len(m) |-> i]]
         /\ seriesLabels' = [seriesLabels EXCEPT ![c] = [i \in 1 .. Len(m) |-> i]]
         /\ seriesIndex' = [seriesIndex EXCEPT ![c] = [i \in 1 .. Len(m) |-> 0]]
         /\ currentSeries' = [currentSeries EXCEPT ![c] = 0]
  BY DEF Query
<1>2. /\ matrix'[c] = m /\ series'[c] = [i \in 1 .. Len(m) |-> i]
      /\ seriesLabels'[c] = [i \in 1 .. Len(m) |-> i]
      /\ seriesIndex'[c] = [i \in 1 .. Len(m) |-> 0] /\ currentSeries'[c] = 0
  BY <1>0, <1>1 DEF TypeOK
<1>3. Len(m) \in Nat /\ \A s \in 1 .. Len(m) : m[s] \in 1 .. MaxPoints
  BY MatrixFacts
<1>4. Len(series'[c]) = Len(m)
  BY <1>2, <1>3
<1>5. Place(c)' = 1
  BY <1>2, <1>3, <1>4 DEF Place
<1>6. \A s : CountNext(c, s) = 0
  <2>1. \A s : OfSeries(<<>>, s) = {}
    BY DEF OfSeries
  <2>2. \A s : CountNext(c, s) = Cardinality(OfSeries(<<>>, s))
    BY <1>0 DEF CountNext, OfSeries
  <2> QED BY <2>1, <2>2, FS_EmptySet
<1>7. \A q \in 1 .. Len(m) : series'[c][q] = q /\ seriesIndex'[c][q] = 0 /\ ~(q < 1)
  BY <1>2, <1>3
<1>8. 0 \in Points /\ 0 <= 0 + 1
  BY BoundAssumption DEF Points
<1>9. /\ \A q, r \in 1 .. Len(m) : q # r => series'[c][q] # series'[c][r]
      /\ \A q \in 1 .. Len(m) :
            /\ series'[c][q] \in 1 .. Len(m)
            /\ seriesIndex'[c][q] = CountNext(c, series'[c][q])
            /\ seriesIndex'[c][q] < m[series'[c][q]]
      /\ \A s \in 1 .. Len(m) :
            (\A q \in 1 .. Len(m) : series'[c][q] # s) => CountNext(c, s) = m[s]
      /\ \A q \in 1 .. Len(m) : seriesIndex'[c][q] = IF q < Place(c)' THEN 0 + 1 ELSE 0
      /\ \A s \in 1 .. Len(m) : CountNext(c, s) <= 0 + 1
  BY <1>3, <1>5, <1>6, <1>7
<1>10. seriesLabels'[c] = series'[c] /\ matrix'[c] = m
  BY <1>2
<1>11. /\ \A q, r \in 1 .. Len(series'[c]) : q # r => series'[c][q] # series'[c][r]
       /\ \A q \in 1 .. Len(series'[c]) :
             /\ series'[c][q] \in 1 .. Len(matrix'[c])
             /\ seriesIndex'[c][q] = CountNext(c, series'[c][q])
             /\ seriesIndex'[c][q] < matrix'[c][series'[c][q]]
       /\ \A s \in 1 .. Len(matrix'[c]) :
             (\A q \in 1 .. Len(series'[c]) : series'[c][q] # s) =>
                 CountNext(c, s) = matrix'[c][s]
       /\ \E j \in Points :
             /\ \A q \in 1 .. Len(series'[c]) :
                   seriesIndex'[c][q] = IF q < Place(c)' THEN j + 1 ELSE j
             /\ \A s \in 1 .. Len(matrix'[c]) : CountNext(c, s) <= j + 1
  BY <1>4, <1>8, <1>9, <1>10
<1> QED BY <1>10, <1>11 DEF Turns, Count, CountNext

-----------------------------------------------------------------------------
LEMMA InitInv == Init => IInv
<1> SUFFICES ASSUME Init PROVE IInv
  OBVIOUS
<1>1. <<>> \in Matrices
  <2>1. 0 \in 0 .. MaxSeries
    BY BoundAssumption
  <2>2. <<>> \in [1 .. 0 -> 1 .. MaxPoints]
    OBVIOUS
  <2> QED BY <2>1, <2>2 DEF Matrices
<1>2. TypeOK
  <2>1. Len(<<>>) = 0 /\ 0 \in Nat /\ \A T : <<>> \in Seq(T)
    BY EmptySeq
  <2>2. \A T, x : x \in T => [c \in Consumers |-> x] \in [Consumers -> T]
    OBVIOUS
  <2>3. /\ at \in [Consumers -> {"idle", "check", "rlock", "query", "next", "stopped"}]
        /\ matrix \in [Consumers -> Matrices] /\ currentSeries \in [Consumers -> Nat]
    BY <1>1, <2>1, <2>2 DEF Init
  <2>4. /\ series \in [Consumers -> Seq(Ids)] /\ seriesIndex \in [Consumers -> Seq(Points)]
        /\ seriesLabels \in [Consumers -> Seq(Ids)] /\ added \in [Consumers -> Seq(Samples)]
    BY <2>1, <2>2 DEF Init
  <2>5. \A c \in Consumers :
           /\ Len(seriesIndex[c]) = Len(series[c]) /\ Len(seriesLabels[c]) = Len(series[c])
           /\ currentSeries[c] <= Len(series[c])
    BY <2>1 DEF Init
  <2>6. /\ recordingRules \subseteq Rules /\ main = "open" /\ opened = "no"
        /\ stopped \in BOOLEAN /\ todo = {} /\ readers = {}
    BY DEF Init
  <2> QED BY <2>3, <2>4, <2>5, <2>6 DEF TypeOK, Samples
<1>3. SamplesOfTheirSeries
  BY DEF Init, SamplesOfTheirSeries
<1>4. ExecuteInv
  BY DEF Init, ExecuteInv
<1> QED BY <1>2, <1>3, <1>4 DEF IInv

LEMMA TypeStep == ASSUME IInv, Next PROVE TypeOK'
<1>0. TypeOK
  BY DEF IInv
<1>1. CASE Run \/ StartFails
  BY <1>0, <1>1 DEF Run, NoRulesLeft, Open, WriterReturns, Close, StartFails, TypeOK, iterator
<1>2. ASSUME NEW c \in Consumers, Take(c) PROVE TypeOK'
  <2>1. <<>> \in Seq([series : Ids, point : Points, labels : Ids])
    OBVIOUS
  <2> QED BY <1>0, <1>2, <2>1 DEF Take, Goes, TypeOK, iterator
<1>3. ASSUME NEW c \in Consumers,
             Stop(c) \/ CheckStopped(c) \/ RLock(c) \/ QueryNil(c) \/ QueryFails(c) \/ Executed(c)
      PROVE  TypeOK'
  BY <1>0, <1>3 DEF Stop, CheckStopped, RLock, QueryNil, QueryFails, Executed, Goes, TypeOK,
                    iterator
<1>4. ASSUME NEW c \in Consumers, Query(c) PROVE TypeOK'
  <2>1. PICK m \in Matrices :
           /\ matrix' = [matrix EXCEPT ![c] = m]
           /\ series' = [series EXCEPT ![c] = [i \in 1 .. Len(m) |-> i]]
           /\ seriesLabels' = [seriesLabels EXCEPT ![c] = [i \in 1 .. Len(m) |-> i]]
           /\ seriesIndex' = [seriesIndex EXCEPT ![c] = [i \in 1 .. Len(m) |-> 0]]
           /\ currentSeries' = [currentSeries EXCEPT ![c] = 0]
    BY <1>4 DEF Query
  <2> DEFINE ids == [i \in 1 .. Len(m) |-> i]
             zeros == [i \in 1 .. Len(m) |-> 0]
  <2>2. Len(m) \in Nat /\ \A i \in 1 .. Len(m) : i \in Ids /\ 0 \in Points
    BY MatrixFacts, BoundAssumption DEF Points
  <2>3. ids \in Seq(Ids) /\ zeros \in Seq(Points) /\ Len(ids) = Len(m) /\ Len(zeros) = Len(m)
    BY <2>2
  <2> HIDE DEF ids, zeros
  <2>4. /\ matrix' \in [Consumers -> Matrices] /\ series' \in [Consumers -> Seq(Ids)]
        /\ seriesIndex' \in [Consumers -> Seq(Points)]
        /\ seriesLabels' \in [Consumers -> Seq(Ids)]
        /\ currentSeries' \in [Consumers -> Nat]
    BY <1>0, <2>1, <2>3 DEF TypeOK, ids, zeros
  <2>5. ASSUME NEW x \in Consumers
        PROVE  /\ Len(seriesIndex'[x]) = Len(series'[x])
               /\ Len(seriesLabels'[x]) = Len(series'[x])
               /\ currentSeries'[x] <= Len(series'[x])
    <3>1. CASE x = c
      <4>1. series'[c] = ids /\ seriesLabels'[c] = ids /\ seriesIndex'[c] = zeros
            /\ currentSeries'[c] = 0
        BY <1>0, <2>1 DEF TypeOK, ids, zeros
      <4> QED BY <2>2, <2>3, <3>1, <4>1
    <3>2. CASE x # c
      BY <1>0, <2>1, <3>2 DEF TypeOK
    <3> QED BY <3>1, <3>2
  <2> QED BY <1>0, <1>4, <2>4, <2>5 DEF Query, Goes, TypeOK
<1>5. ASSUME NEW c \in Consumers, AddNext(c) PROVE TypeOK'
  <2>1. IteratorOK'
    BY <1>5, AdvanceTypes DEF AddNext
  <2>2. added'[c] \in Seq(Samples)
    <3> DEFINE e == [series |-> series[c][Place(c)], point |-> seriesIndex[c][Place(c)] + 1,
                     labels |-> seriesLabels[c][Place(c)]]
    <3>1. added'[c] = Append(added[c], e) /\ e \in Samples /\ added[c] \in Seq(Samples)
      BY <1>5, AddedOne
    <3> HIDE DEF e
    <3> QED BY <3>1, AppendProperties
  <2>3. added' \in [Consumers -> Seq(Samples)]
    <3>1. \A x \in Consumers : added'[x] \in Seq(Samples)
      BY <1>0, <1>5, <2>2, AddedOne DEF TypeOK, Samples
    <3>2. added' = [x \in Consumers |-> added'[x]]
      BY <1>0, <1>5 DEF AddNext, TypeOK
    <3> QED BY <3>1, <3>2
  <2> QED BY <1>0, <1>5, <2>1, <2>3 DEF AddNext, TypeOK, IteratorOK, Samples
<1>6. ASSUME NEW c \in Consumers, AddFails(c) PROVE TypeOK'
  <2>1. IteratorOK'
    BY <1>6, AdvanceTypes DEF AddFails
  <2> QED BY <1>0, <1>6, <2>1 DEF AddFails, Goes, TypeOK, IteratorOK
<1>7. CASE Ended
  BY <1>0, <1>7 DEF Ended, vars, iterator, TypeOK
<1> QED BY <1>1, <1>2, <1>3, <1>4, <1>5, <1>6, <1>7 DEF Next, Consume

LEMMA SamplesStep == ASSUME IInv, Next PROVE SamplesOfTheirSeries'
<1>0. TypeOK /\ SamplesOfTheirSeries
  BY DEF IInv
<1>1. ASSUME added' = added PROVE SamplesOfTheirSeries'
  <2> SUFFICES ASSUME NEW x \in Consumers, NEW j \in 1 .. Len(added'[x])
               PROVE  /\ added'[x][j].labels = added'[x][j].series
                      /\ added'[x][j].point =
                            Cardinality({i \in 1 .. j : added'[x][i].series = added'[x][j].series})
    BY Zenon DEF SamplesOfTheirSeries
  <2>1. j \in 1 .. Len(added[x])
    BY <1>1
  <2>2. /\ added[x][j].labels = added[x][j].series
        /\ added[x][j].point = Cardinality({i \in 1 .. j : added[x][i].series = added[x][j].series})
    BY <1>0, <2>1 DEF SamplesOfTheirSeries
  <2> QED BY ONLY <1>1, <2>2, Zenon
<1>2. ASSUME NEW c \in Consumers, Take(c) PROVE SamplesOfTheirSeries'
  <2>1. added' = [added EXCEPT ![c] = <<>>]
    BY <1>2 DEF Take
  <2> SUFFICES ASSUME NEW x \in Consumers, NEW j \in 1 .. Len(added'[x])
               PROVE  /\ added'[x][j].labels = added'[x][j].series
                      /\ added'[x][j].point =
                            Cardinality({i \in 1 .. j : added'[x][i].series = added'[x][j].series})
    BY Zenon DEF SamplesOfTheirSeries
  <2>2. added'[c] = <<>> /\ (x # c => added'[x] = added[x])
    BY <1>0, <2>1 DEF TypeOK
  <2>3. x # c /\ added'[x] = added[x]
    BY <2>2
  <2>4. j \in 1 .. Len(added[x])
    BY <2>3
  <2>5. /\ added[x][j].labels = added[x][j].series
        /\ added[x][j].point = Cardinality({i \in 1 .. j : added[x][i].series = added[x][j].series})
    BY <1>0, <2>4 DEF SamplesOfTheirSeries
  <2> QED BY ONLY <2>3, <2>5, Zenon
<1>3. ASSUME NEW c \in Consumers, AddNext(c) PROVE SamplesOfTheirSeries'
  <2> DEFINE a == added[c]
             T == series[c][Place(c)]
             e == [series |-> T, point |-> seriesIndex[c][Place(c)] + 1,
                   labels |-> seriesLabels[c][Place(c)]]
  <2>1. /\ added'[c] = Append(a, e) /\ e \in Samples /\ a \in Seq(Samples)
        /\ \A x \in Consumers \ {c} : added'[x] = added[x]
    BY <1>3, AddedOne
  <2>2. e.labels = e.series /\ e.point = Count(c, T) + 1 /\ e.series = T
    <3>1. at[c] = "next" /\ series[c] # <<>>
      BY <1>3 DEF AddNext
    <3>2. Place(c) \in 1 .. Len(series[c]) /\ seriesLabels[c] = series[c]
      BY <3>1, AtPlace
    <3>3. seriesIndex[c][Place(c)] = Count(c, T)
      BY <3>1, <3>2 DEF IInv, ExecuteInv, Turns
    <3> QED BY <3>2, <3>3
  <2>3. Count(c, T) + 1 = Cardinality(OfSeries(Append(a, e), T))
    <3>1. Cardinality(OfSeries(Append(a, e), T)) = Cardinality(OfSeries(a, T)) + 1
      <4> HIDE DEF a, e, T
      <4> QED BY <2>1, <2>2, Counted
    <3>2. Count(c, T) = Cardinality(OfSeries(a, T))
      BY DEF Count, OfSeries
    <3> QED BY <3>1, <3>2
  <2> HIDE DEF a, e, T
  <2>4. /\ Len(a) \in Nat /\ Len(Append(a, e)) = Len(a) + 1 /\ Append(a, e)[Len(a) + 1] = e
        /\ \A j \in 1 .. Len(a) : Append(a, e)[j] = a[j]
    BY <2>1, AppendProperties
  <2>5. \A j \in 1 .. Len(a) :
           /\ a[j].labels = a[j].series
           /\ a[j].point = Cardinality({i \in 1 .. j : a[i].series = a[j].series})
    BY <1>0 DEF SamplesOfTheirSeries, a
  <2>6. ASSUME NEW j \in 1 .. Len(a) + 1
        PROVE  /\ Append(a, e)[j].labels = Append(a, e)[j].series
               /\ Append(a, e)[j].point =
                     Cardinality({i \in 1 .. j : Append(a, e)[i].series = Append(a, e)[j].series})
    <3>1. CASE j \in 1 .. Len(a)
      <4>1. {i \in 1 .. j : Append(a, e)[i].series = Append(a, e)[j].series}
               = {i \in 1 .. j : a[i].series = a[j].series}
        BY <2>4, <3>1
      <4>2. Append(a, e)[j] = a[j]
        BY <2>4, <3>1
      <4>3. a[j].labels = a[j].series
            /\ a[j].point = Cardinality({i \in 1 .. j : a[i].series = a[j].series})
        BY <2>5, <3>1
      <4>4. Append(a, e)[j].labels = Append(a, e)[j].series
        BY ONLY <4>2, <4>3
      <4>5. Append(a, e)[j].point
               = Cardinality({i \in 1 .. j : Append(a, e)[i].series = Append(a, e)[j].series})
        <5>1. Append(a, e)[j].point = Cardinality({i \in 1 .. j : a[i].series = a[j].series})
          BY ONLY <4>2, <4>3
        <5> QED BY ONLY <4>1, <5>1, Zenon
      <4> QED BY <4>4, <4>5
    <3>2. CASE j = Len(a) + 1
      <4>1. Append(a, e)[j] = e
        BY <2>4, <3>2
      <4>2. {i \in 1 .. j : Append(a, e)[i].series = Append(a, e)[j].series}
               = OfSeries(Append(a, e), T)
        BY <2>2, <2>4, <3>2, <4>1 DEF OfSeries
      <4>3. Append(a, e)[j].labels = Append(a, e)[j].series
        BY <2>2, <4>1
      <4>4. Append(a, e)[j].point
               = Cardinality({i \in 1 .. j : Append(a, e)[i].series = Append(a, e)[j].series})
        <5>1. Append(a, e)[j].point = Cardinality(OfSeries(Append(a, e), T))
          BY <2>2, <2>3, <4>1
        <5> QED BY ONLY <4>2, <5>1, Zenon
      <4> QED BY <4>3, <4>4
    <3>3. j \in 1 .. Len(a) \/ j = Len(a) + 1
      BY <2>4
    <3> QED BY ONLY <3>1, <3>2, <3>3, Zenon
  <2>7. ASSUME NEW x \in Consumers, NEW j \in 1 .. Len(added'[x])
        PROVE  /\ added'[x][j].labels = added'[x][j].series
               /\ added'[x][j].point =
                     Cardinality({i \in 1 .. j : added'[x][i].series = added'[x][j].series})
    <3>1. CASE x = c
      <4>1. added'[x] = Append(a, e) /\ j \in 1 .. Len(a) + 1
        BY <2>1, <2>4, <2>7, <3>1
      <4>2. /\ Append(a, e)[j].labels = Append(a, e)[j].series
            /\ Append(a, e)[j].point =
                  Cardinality({i \in 1 .. j : Append(a, e)[i].series = Append(a, e)[j].series})
        BY <2>6, <4>1
      <4> QED BY ONLY <4>1, <4>2, Zenon
    <3>2. CASE x # c
      <4>1. added'[x] = added[x] /\ j \in 1 .. Len(added[x])
        BY <2>1, <2>7, <3>2
      <4>2. /\ added[x][j].labels = added[x][j].series
            /\ added[x][j].point =
                  Cardinality({i \in 1 .. j : added[x][i].series = added[x][j].series})
        BY <1>0, <4>1 DEF SamplesOfTheirSeries
      <4> QED BY ONLY <4>1, <4>2, Zenon
    <3> QED BY ONLY <3>1, <3>2, Zenon
  <2> QED BY <2>7 DEF SamplesOfTheirSeries
<1> QED BY <1>1, <1>2, <1>3 DEF Next, Run, NoRulesLeft, Open, WriterReturns, Close, StartFails,
       Consume, Stop, CheckStopped, RLock, QueryNil, Query, QueryFails, AddFails, Executed,
       Ended, vars

LEMMA ExecuteStep == ASSUME IInv, Next PROVE ExecuteInv'
<1>0. TypeOK /\ ExecuteInv
  BY DEF IInv
<1>1. ASSUME Run \/ StartFails PROVE ExecuteInv'
  <2>1. /\ UNCHANGED <<at, matrix, series, seriesIndex, seriesLabels, currentSeries, added>>
        /\ main' # "open" /\ (opened' = opened \/ main = "open")
    BY <1>1 DEF Run, NoRulesLeft, Open, WriterReturns, Close, StartFails, iterator
  <2>2. \A x \in Consumers : at[x] = "next" => Turns(x)'
    BY <1>0, <2>1, TurnsStay DEF ExecuteInv
  <2> QED BY <1>0, <2>1, <2>2 DEF ExecuteInv
<1>2. ASSUME NEW c \in Consumers, Consume(c) PROVE ExecuteInv'
  <2>1. main # "open" \/ Stop(c) \/ Take(c)
    BY <1>0, <1>2 DEF Consume, ExecuteInv, CheckStopped, RLock, QueryNil, Query, QueryFails,
                      AddNext, AddFails, Executed
  <2>2. main # "open" /\ main' # "open"
    BY <1>0, <1>2, <2>1 DEF Consume, ExecuteInv, Take, Stop, CheckStopped, RLock, QueryNil,
                            Query, QueryFails, AddNext, AddFails, Executed
  <2>3. opened' = opened
    BY <1>2 DEF Consume, Take, Stop, CheckStopped, RLock, QueryNil, Query, QueryFails, AddNext,
                AddFails, Executed
  <2>4. ASSUME NEW x \in Consumers, x # c
        PROVE  /\ at'[x] = at[x] /\ added'[x] = added[x] /\ matrix'[x] = matrix[x]
               /\ series'[x] = series[x] /\ seriesIndex'[x] = seriesIndex[x]
               /\ seriesLabels'[x] = seriesLabels[x] /\ currentSeries'[x] = currentSeries[x]
    <3>1. CASE AddNext(c) \/ AddFails(c)
      <4>1. at[c] = "next" /\ series[c] # <<>> /\ Advance(c)
        BY <3>1 DEF AddNext, AddFails
      <4>2. /\ series'[x] = series[x] /\ seriesIndex'[x] = seriesIndex[x]
            /\ seriesLabels'[x] = seriesLabels[x] /\ currentSeries'[x] = currentSeries[x]
        BY <2>4, <4>1, Advanced
      <4>3. at'[x] = at[x] /\ added'[x] = added[x] /\ matrix'[x] = matrix[x]
        BY <1>0, <2>4, <3>1 DEF AddNext, AddFails, Goes, TypeOK
      <4> QED BY <4>2, <4>3
    <3>2. CASE ~(AddNext(c) \/ AddFails(c))
      BY <1>0, <1>2, <2>4, <3>2 DEF Consume, Take, Stop, CheckStopped, RLock, QueryNil, Query,
                                    QueryFails, Executed, Goes, TypeOK, iterator
    <3> QED BY <3>1, <3>2
  <2>5. \A x \in Consumers \ {c} : at[x] = "next" => Turns(x)'
    BY <1>0, <2>4, TurnsStay DEF ExecuteInv
  <2>6. /\ at'[c] = "next" => opened = "open" /\ Turns(c)'
        /\ at'[c] \in {"check", "rlock", "query"} => added'[c] = <<>>
    <3>1. CASE Query(c)
      <4>1. at'[c] = "next" /\ opened = "open"
        BY <1>0, <3>1 DEF Query, Goes, TypeOK
      <4> QED BY <3>1, <4>1, QueryTurns
    <3>2. CASE AddNext(c)
      <4>1. at'[c] = "next" /\ at[c] = "next"
        BY <3>2 DEF AddNext
      <4> QED BY <1>0, <3>2, <4>1, TurnsStep DEF ExecuteInv
    <3>3. CASE Take(c)
      <4>1. at'[c] = "check" /\ added'[c] = <<>>
        BY <1>0, <3>3 DEF Take, Goes, TypeOK
      <4> QED BY <4>1
    <3>4. CASE Stop(c) \/ QueryFails(c) \/ AddFails(c) \/ Executed(c)
      <4>1. at'[c] \in {"stopped", "idle"}
        BY <1>0, <3>4 DEF Stop, QueryFails, AddFails, Executed, Goes, TypeOK
      <4> QED BY <4>1
    <3>5. CASE CheckStopped(c) \/ RLock(c)
      <4>1. /\ at[c] \in {"check", "rlock"} /\ at'[c] \in {"rlock", "query", "stopped"}
            /\ added' = added
        BY <1>0, <3>5 DEF CheckStopped, RLock, Goes, TypeOK
      <4> QED BY <1>0, <4>1 DEF ExecuteInv
    <3>6. CASE QueryNil(c)
      <4>1. at' = at /\ added' = added /\ at[c] = "query"
        BY <3>6 DEF QueryNil
      <4> QED BY <1>0, <4>1 DEF ExecuteInv
    <3> QED BY <1>2, <3>1, <3>2, <3>3, <3>4, <3>5, <3>6 DEF Consume
  <2> QED BY <1>0, <2>2, <2>3, <2>4, <2>5, <2>6 DEF ExecuteInv
<1>3. ASSUME Ended PROVE ExecuteInv'
  <2>1. UNCHANGED <<main, opened, todo, at, matrix, series, seriesIndex, seriesLabels,
                    currentSeries, added>>
    BY <1>3 DEF Ended, vars, iterator
  <2>2. \A x \in Consumers : at[x] = "next" => Turns(x)'
    BY <1>0, <2>1, TurnsStay DEF ExecuteInv
  <2> QED BY <1>0, <2>1, <2>2 DEF ExecuteInv
<1> QED BY <1>1, <1>2, <1>3 DEF Next

LEMMA InvStep == IInv /\ [Next]_vars => IInv'
<1>1. ASSUME IInv, Next PROVE IInv'
  BY <1>1, TypeStep, SamplesStep, ExecuteStep DEF IInv
<1>2. ASSUME IInv, UNCHANGED vars PROVE IInv'
  <2>1. UNCHANGED <<recordingRules, main, opened, stopped, todo, at, readers, matrix, series,
                    seriesIndex, seriesLabels, currentSeries, added>>
    BY <1>2 DEF vars, iterator
  <2>2. \A x \in Consumers : at[x] = "next" => Turns(x)'
    BY <1>2, <2>1, TurnsStay DEF IInv, ExecuteInv
  <2>3. ExecuteInv'
    BY <1>2, <2>1, <2>2 DEF IInv, ExecuteInv
  <2>4. TypeOK'
    BY <1>2, <2>1 DEF IInv, TypeOK
  <2>5. SamplesOfTheirSeries'
    BY <1>2, <2>1 DEF IInv, SamplesOfTheirSeries
  <2> QED BY <2>3, <2>4, <2>5 DEF IInv
<1> QED BY <1>1, <1>2

-----------------------------------------------------------------------------
(* Whatever the matrices are: a sample is added with the labels of its own *)
(* series, the points of a series in order and each once, and the series   *)
(* take turns, so that none is more than one point behind another while it *)
(* has points left.                                                        *)
THEOREM IteratorCorrect == Spec => []IteratorInv
<1>1. Init => IInv
  BY InitInv
<1>2. IInv /\ [Next]_vars => IInv'
  BY InvStep
<1>3. IInv => IteratorInv
  <2> SUFFICES ASSUME IInv, NEW c \in Consumers, at[c] = "next",
                      NEW s \in 1 .. Len(matrix[c]), NEW u \in 1 .. Len(matrix[c]),
                      Count(c, s) < matrix[c][s]
               PROVE  Count(c, s) >= Count(c, u) - 1
    BY DEF IInv, IteratorInv, RoundRobin
  <2>1. Turns(c) /\ TypeOK
    BY DEF IInv, ExecuteInv
  <2>2. added[c] \in Seq(Samples)
    BY <2>1 DEF TypeOK, Samples
  <2>3. Count(c, s) \in Nat /\ Count(c, u) \in Nat
    <3>1. \A v : IsFiniteSet(OfSeries(added[c], v))
      <4>1. IsFiniteSet(1 .. Len(added[c])) /\ \A v : OfSeries(added[c], v) \subseteq 1 .. Len(added[c])
        BY <2>2, FS_Interval DEF OfSeries
      <4> QED BY <4>1, FS_Subset
    <3>2. \A v : Count(c, v) = Cardinality(OfSeries(added[c], v))
      BY DEF Count, OfSeries
    <3> QED BY <3>1, <3>2, FS_CardinalityType
  <2>4. PICK p \in 1 .. Len(series[c]) : series[c][p] = s
    <3>1. matrix[c][s] \in Nat
      BY <2>1, MatrixFacts DEF TypeOK
    <3>2. \A v \in 1 .. Len(matrix[c]) :
             (\A q \in 1 .. Len(series[c]) : series[c][q] # v) => Count(c, v) = matrix[c][v]
      BY <2>1 DEF Turns
    <3>3. Count(c, s) # matrix[c][s]
      BY <2>3, <3>1
    <3> QED BY <3>2, <3>3
  <2>5. PICK k \in Points : /\ \A q \in 1 .. Len(series[c]) :
                                  seriesIndex[c][q] = IF q < Place(c) THEN k + 1 ELSE k
                            /\ \A v \in 1 .. Len(matrix[c]) : Count(c, v) <= k + 1
    BY <2>1 DEF Turns
  <2>6. Count(c, s) = seriesIndex[c][p]
    BY <2>1, <2>4 DEF Turns
  <2> QED BY <2>3, <2>4, <2>5, <2>6 DEF Points
<1> QED BY <1>1, <1>2, <1>3, PTL DEF Spec

(* An Execute of the backfiller that returns nil asked a database that was *)
(* opened, and added every point of the matrix.                            *)
THEOREM EntryCorrect == Spec => CompleteEntry
<1> DEFINE Complete == \A c \in Consumers : at[c] # "idle" /\ at'[c] = "idle" =>
                           /\ opened = "open"
                           /\ \A s \in 1 .. Len(matrix[c]) : Count(c, s) = matrix[c][s]
<1>1. IInv /\ [Next]_vars => [Complete]_vars
  <2> SUFFICES ASSUME IInv, Next, NEW c \in Consumers, at[c] # "idle", at'[c] = "idle"
               PROVE  /\ opened = "open"
                      /\ \A s \in 1 .. Len(matrix[c]) : Count(c, s) = matrix[c][s]
    OBVIOUS
  <2>1. Executed(c)
    BY DEF IInv, TypeOK, Next, Run, NoRulesLeft, Open, WriterReturns, Close, StartFails, Consume,
           Take, Stop, CheckStopped, RLock, QueryNil, Query, QueryFails, AddNext, AddFails,
           Executed, Ended, vars, Goes
  <2>2. at[c] = "next" /\ series[c] = <<>>
    BY <2>1 DEF Executed
  <2>3. opened = "open" /\ Turns(c) /\ Len(series[c]) = 0
    BY <2>2 DEF IInv, ExecuteInv
  <2> QED BY <2>3 DEF Turns
<1>2. Init => IInv
  BY InitInv
<1>3. IInv /\ [Next]_vars => IInv'
  BY InvStep
<1> QED BY <1>1, <1>2, <1>3, PTL DEF Spec, CompleteEntry
=============================================================================
