----------------------------- MODULE RangeGrid ------------------------------
(***************************************************************************)
(* At which times queryFuncProvider.query of lib/remote/queryable.go has   *)
(* samples of a range.  It asks Prometheus chunk by chunk, and Prometheus  *)
(* counts the steps of a chunk from the start of that chunk.               *)
(*                                                                         *)
(* Times are relative and in units of the instance.                        *)
(***************************************************************************)
EXTENDS Integers, FiniteSets, SequencesExt

CONSTANT maxChunkDuration

(* The times of one query_range request of Prometheus.                     *)
Steps(from, to, step) == {t \in from .. to : (t - from) % step = 0}

ChunkStarts(start, end) == Steps(start, end, maxChunkDuration)

(* chunkEnd is a nanosecond before the next chunk starts, but a request    *)
(* has its times in decimal seconds, which Prometheus rounds to the        *)
(* millisecond: it is the start of the next chunk that is asked for.       *)
ChunkEnd(chunkStart, end) ==
    IF chunkStart + maxChunkDuration > end THEN end ELSE chunkStart + maxChunkDuration

(* How often a time is among the merged samples of a series.               *)
Copies(t, start, end, step) ==
    Cardinality({c \in ChunkStarts(start, end) : t \in Steps(c, ChunkEnd(c, end), step)})

(* The samples after the sort, of a series that is there at the given      *)
(* times: ascending, a time as often as it was sent.                       *)
SampleTimes(start, end, step, times) ==
    FlattenSeq([i \in 1 .. end - start + 1 |->
        LET t == start + i - 1
        IN  [k \in 1 .. (IF t \in times THEN Copies(t, start, end, step) ELSE 0) |-> t]])
=============================================================================
