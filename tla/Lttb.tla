-------------------------------- MODULE Lttb --------------------------------
(***************************************************************************)
(* lttb.Downsample of lib/downsample: the largest-triangle-three-buckets   *)
(* reduction that the alert tester applies to every series of a chart      *)
(* before it sends it to the page.  One action per turn of the loop over   *)
(* the buckets.                                                            *)
(*                                                                         *)
(* Indexes into points count from 0, as in the code.  Point k has time k,  *)
(* as in a series without gaps, and a small integer or NaN as its value.   *)
(* Areas are multiplied by twice the number of points that are averaged,   *)
(* which is the same for all the points that are compared.                 *)
(***************************************************************************)
EXTENDS Integers, Sequences, FiniteSets, FiniteSetsExt

CONSTANTS MaxLen,    \* bound: points of a series
          Numbers,   \* values a point may have
          NaN        \* the value that is not a number

ASSUME InputAssumption == MaxLen \in Nat \ {0} /\ Numbers \subseteq Int

VARIABLES
    points,        \* the values of the series
    target,        \* targetPointCount
    pc,            \* "start", "loop", "done"
    i,             \* the bucket
    bucketLow, bucketMiddle,
    prevMaxAreaPoint,
    sampledData    \* the indexes of the points taken

input == <<points, target>>
chartVars == <<input, pc, i, bucketLow, bucketMiddle, prevMaxAreaPoint, sampledData>>

n == Len(points)
V(k) == points[k + 1]

ChartTypeOK ==
    /\ points \in Seq(Numbers \cup {NaN}) /\ target \in Nat
    /\ pc \in {"start", "loop", "done"}
    /\ i \in Nat /\ bucketLow \in Nat /\ bucketMiddle \in Nat
    /\ prevMaxAreaPoint \in 0 .. n - 1
    /\ sampledData \in Seq(0 .. n - 1)

(* The target is the length of the range in steps of the chart, the points *)
(* are those of the rule group's interval: either may be the larger.       *)
ChartInit ==
    /\ points \in UNION {[1 .. len -> Numbers \cup {NaN}] : len \in 1 .. MaxLen}
    /\ target \in 0 .. MaxLen
    /\ pc = "start"
    /\ i = 0 /\ bucketLow = 1 /\ bucketMiddle = 1
    /\ prevMaxAreaPoint = 0
    /\ sampledData = <<>>

-----------------------------------------------------------------------------
(* int(math.Floor(k * bucketSize)) + 1.  Where the product is a whole      *)
(* number and bucketSize is not, rounding may leave it just below.         *)
BucketStart(k) ==
    LET exact == (k * (n - 2)) \div (target - 2)
        whole == (k * (n - 2)) % (target - 2) = 0
    IN  {exact + 1} \cup
        (IF whole /\ (n - 2) % (target - 2) # 0 THEN {exact} ELSE {})

BucketHigh(k) == {IF high >= n - 1 THEN n - 2 ELSE high : high \in BucketStart(k)}

(* calculateAverageDataPoint of points[bucketMiddle : high + 1].           *)
Averaged(high) == bucketMiddle .. high
AverageIsNaN(high) == Averaged(high) = {} \/ \E k \in Averaged(high) : V(k) = NaN

Absolute(x) == IF x >= 0 THEN x ELSE -x

(* calculateTriangleArea of points a and c and the average, times two and  *)
(* the number of points in the average.                                    *)
Area(a, high, c) ==
    LET count == Cardinality(Averaged(high))
        sumX  == SumFunction([k \in Averaged(high) |-> k])
        sumY  == SumFunction([k \in Averaged(high) |-> V(k)])
    IN  Absolute((a - c) * (sumY - count * V(a)) - (count * a - sumX) * (V(c) - V(a)))

(* No comparison with NaN is true.                                         *)
Comparable(a, high) ==
    IF AverageIsNaN(high) \/ V(a) = NaN THEN {}
    ELSE {c \in bucketLow .. bucketMiddle - 1 : V(c) # NaN}

(* Definitions whose name ends in _bug are no part of the model: each is   *)
(* the definition after it with a plausible slip a property must find.     *)
MaxAreaPoint_bug(a, high) ==
    LET C == Comparable(a, high)
    IN  IF C = {} THEN {bucketLow}
        ELSE {c \in C : \A d \in C : Area(a, high, c) <= Area(a, high, d)}

(* The index of the largest area, 0 where there is none.  Of equal areas   *)
(* rounding decides.                                                       *)
MaxAreaPoint(a, high) ==
    LET C == Comparable(a, high)
    IN  IF C = {} THEN {0}
        ELSE {c \in C : \A d \in C : Area(a, high, d) <= Area(a, high, c)}

-----------------------------------------------------------------------------
ReturnAll ==
    /\ pc = "start"
    /\ target >= n \/ target = 0
    /\ sampledData' = [k \in 1 .. n |-> k - 1]
    /\ pc' = "done"
    /\ UNCHANGED <<input, i, bucketLow, bucketMiddle, prevMaxAreaPoint>>

(* With a target of one or two there are no buckets, whose size would be   *)
(* negative or infinite.                                                   *)
Start ==
    /\ pc = "start"
    /\ target < n /\ target > 0
    /\ sampledData' = <<0>>
    /\ bucketLow' = 1
    /\ bucketMiddle' = IF target > 2 THEN (n - 2) \div (target - 2) + 1 ELSE 1
    /\ pc' = "loop"
    /\ UNCHANGED <<input, i, prevMaxAreaPoint>>

(* The next bucket starts after the one that was averaged.                 *)
TakeFromBucket_bug ==
    /\ pc = "loop"
    /\ i < target - 2
    /\ \E high \in BucketHigh(i + 2) :
          /\ prevMaxAreaPoint' \in MaxAreaPoint(prevMaxAreaPoint, high)
          /\ bucketMiddle' = high
          /\ bucketLow' = high
    /\ sampledData' = Append(sampledData, prevMaxAreaPoint')
    /\ i' = i + 1
    /\ UNCHANGED <<input, pc>>

TakeFromBucket ==
    /\ pc = "loop"
    /\ i < target - 2
    /\ \E high \in BucketHigh(i + 2) :
          /\ prevMaxAreaPoint' \in MaxAreaPoint(prevMaxAreaPoint, high)
          /\ bucketMiddle' = high
    /\ sampledData' = Append(sampledData, prevMaxAreaPoint')
    /\ bucketLow' = bucketMiddle
    /\ i' = i + 1
    /\ UNCHANGED <<input, pc>>

TakeLast ==
    /\ pc = "loop"
    /\ i >= target - 2
    /\ sampledData' = Append(sampledData, n - 1)
    /\ pc' = "done"
    /\ UNCHANGED <<input, i, bucketLow, bucketMiddle, prevMaxAreaPoint>>

Returned == pc = "done" /\ UNCHANGED chartVars

ChartNext == ReturnAll \/ Start \/ TakeFromBucket \/ TakeLast \/ Returned

ChartSpec == ChartInit /\ [][ChartNext]_chartVars

-----------------------------------------------------------------------------
(* Properties                                                              *)
Reduced == pc = "done" /\ target > 0 /\ target < n
SomeNaN == \E k \in 0 .. n - 1 : V(k) = NaN

(* No slice or index is out of range in a turn of the loop, and no bucket  *)
(* is empty, for every ratio of points to target and either rounding.      *)
SlicesInRange ==
    pc = "loop" /\ i < target - 2 =>
        /\ 1 <= bucketLow /\ bucketLow < bucketMiddle
        /\ \A high \in BucketHigh(i + 2) : bucketMiddle <= high + 1 /\ high + 1 < n

(* Time goes forward in the reduced series.  Only where no area can be     *)
(* computed does it go back, and then to the first point: with NaN among   *)
(* the values, or with a target of three, whose only bucket has no next    *)
(* one to average.                                                         *)
InOrder ==
    \A j \in 1 .. Len(sampledData) - 1 :
        \/ sampledData[j] < sampledData[j + 1]
        \/ sampledData[j + 1] = 0 /\ (SomeNaN \/ target = 3)

(* Before a turn the last point taken is below its bucket, and the bucket  *)
(* is the one its number says.  With a target of three the only bucket     *)
(* reaches up to the last point.                                           *)
BucketsInTurn ==
    /\ pc = "start" => /\ i = 0 /\ bucketLow = 1 /\ bucketMiddle = 1
                       /\ prevMaxAreaPoint = 0 /\ sampledData = <<>>
    /\ pc = "loop" =>
          /\ 0 < target /\ target < n
          /\ i = 0 \/ i <= target - 2
          /\ sampledData # <<>> /\ sampledData[1] = 0
          /\ sampledData[Len(sampledData)] = prevMaxAreaPoint
          /\ prevMaxAreaPoint < bucketLow /\ bucketLow < n
          /\ i = 0 => bucketLow = 1
          /\ i > 0 /\ target > 3 => bucketLow \in BucketHigh(i)
          /\ target > 3 => bucketMiddle \in BucketHigh(i + 1)
          /\ i = 0 /\ target = 3 => bucketMiddle = n - 1

Kept(k) == \E j \in 1 .. Len(sampledData) : sampledData[j] = k
LonePeak(k) == ~SomeNaN /\ \A l \in 0 .. n - 1 : V(l) = 0 <=> l # k

PeakKeptSoFar ==
    pc = "loop" /\ target > 3 => \A k \in 0 .. bucketLow - 1 : LonePeak(k) => Kept(k)

(* What the buckets are taken from and what has come of them so far.       *)
ChartInv == ChartTypeOK /\ BucketsInTurn /\ SlicesInRange /\ InOrder /\ PeakKeptSoFar

(* What the reduction is for: a lone peak stays in the chart, except at    *)
(* the last point but one, which is in no bucket.                          *)
LonePeakKept ==
    Reduced /\ target > 3 =>
        \A k \in (0 .. n - 1) \ {n - 2} : LonePeak(k) => Kept(k)
=============================================================================
