----------------------------- MODULE QueryCache -----------------------------
(***************************************************************************)
(* The queryFuncProvider of lib/remote/queryable.go as one alert test uses *)
(* it: RangeQueryFunc fetches the rule's expression over the whole range   *)
(* and puts it into queryResultCache; the functions of two calls of        *)
(* InstantQueryFunc, one for the evaluation and one for the replay, answer *)
(* from the cache.  For every series a function keeps the place up to      *)
(* which it has searched, seriesIndex.                                     *)
(*                                                                         *)
(* evaluateAlertRule makes a provider per rule and one range query, so     *)
(* there is one entry, of the whole range, and lookups fall into it.  When *)
(* the functions are asked, and about which times, is said by AlertReplay. *)
(***************************************************************************)
EXTENDS Integers, Sequences, FiniteSets, RangeGrid

CONSTANTS Series,    \* the series the expression may have
          MaxTime,   \* bound: the times are 0 .. MaxTime
          Ends,      \* ends of ranges that start at 0
          Intervals  \* evaluation intervals of rule groups

ASSUME GridAssumption ==
    /\ maxChunkDuration \in Nat \ {0}
    /\ MaxTime \in Nat
    /\ Ends \subseteq Int /\ \A end \in Ends : end <= MaxTime
    /\ Intervals \subseteq Nat \ {0}

Functions == {"eval", "replay"}   \* InstantQueryFunc(false) and (true)
Times == 0 .. MaxTime

VARIABLES
    data,           \* what Prometheus has: the series at each time
    maxTimestamp,   \* the range is 0 .. maxTimestamp
    interval,
    entry,          \* the cached matrix: the points of each series
    index           \* seriesIndex of each function

range == <<data, maxTimestamp, interval>>

NoEntry == <<>>

CacheTypeOK ==
    /\ data \in [Times -> SUBSET Series]
    /\ maxTimestamp \in Ends /\ interval \in Intervals
    /\ entry = NoEntry \/ entry \in [Series -> Seq(Times)]
    /\ index \in [Functions -> [Series -> Nat]]
    /\ \A f \in Functions, s \in Series :
          index[f][s] \in 0 .. (IF entry = NoEntry THEN 0 ELSE Len(entry[s]))

CacheInit ==
    /\ data \in [Times -> SUBSET Series]
    /\ maxTimestamp \in Ends /\ interval \in Intervals
    /\ entry = NoEntry
    /\ index = [f \in Functions |-> [s \in Series |-> 0]]

-----------------------------------------------------------------------------
RangeQuery ==
    /\ entry' = [s \in Series |->
                    SampleTimes(0, maxTimestamp, interval, {t \in Times : s \in data[t]})]
    /\ UNCHANGED <<range, index>>

(* The points of a series from the function's place on that end the search *)
Candidates(place, s, t) == {i \in place[s] + 1 .. Len(entry[s]) : entry[s][i] >= t}

Found(place, s, t) ==
    LET C == Candidates(place, s, t)
    IN  C # {} /\ entry[s][Min(C)] = t

Answer(f, t) == {s \in Series : Found(index[f], s, t)}

(* Definitions whose name ends in _bug are no part of the model: each is   *)
(* the definition after it with a plausible slip a property must find.     *)
(* Here the place moves on although nothing was found there.               *)
Advance_bug(place, t) ==
    [s \in Series |-> IF Candidates(place, s, t) # {} THEN Min(Candidates(place, s, t))
                      ELSE place[s]]

(* seriesIndex is kept only where a point was found.                       *)
Advance(place, t) ==
    [s \in Series |-> IF Found(place, s, t) THEN Min(Candidates(place, s, t)) ELSE place[s]]

(* The function is asked about t.  A template of an alert may repeat the   *)
(* expression at that time, which finds the second copy at a seam; other   *)
(* expressions in it are requests of their own, which are not kept.        *)
Asked(f, t) ==
    /\ index' = [index EXCEPT ![f] = Advance(@, t)]
    /\ UNCHANGED <<range, entry>>

AskedTwice(f, t) ==
    /\ index' = [index EXCEPT ![f] = Advance(Advance(@, t), t)]
    /\ UNCHANGED <<range, entry>>

-----------------------------------------------------------------------------
PointSet(s) == {entry[s][i] : i \in 1 .. Len(entry[s])}

(* The search relies on the order of the points.                           *)
Ascending(points) ==
    \A i, j \in 1 .. Len(points) : i <= j => points[i] <= points[j]

(* Where the interval divides the 30 minutes of a chunk, the chunks        *)
(* together have the samples a request of the whole range would have.      *)
ChunksAreSeamless ==
    entry # NoEntry /\ maxChunkDuration % interval = 0 =>
        \A s \in Series :
            PointSet(s) = {t \in Steps(0, maxTimestamp, interval) : s \in data[t]}

(* A sample is sent twice only where a chunk starts, and never thrice.     *)
CopiesAtSeamsOnly ==
    entry # NoEntry => \A s \in Series : \A i \in 1 .. Len(entry[s]) - 1 :
        \/ entry[s][i] < entry[s][i + 1]
        \/ /\ entry[s][i] = entry[s][i + 1]
           /\ entry[s][i] \in ChunkStarts(0, maxTimestamp)
           /\ i + 2 <= Len(entry[s]) => entry[s][i + 2] > entry[s][i]
=============================================================================
