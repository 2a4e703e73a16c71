------------------------------ MODULE Planner -------------------------------
(***************************************************************************)
(* planner.Plan, planBlock and evalTimestamp of lib/block/planner.go: how  *)
(* the time range of a command becomes blocks of chunks.  One action per   *)
(* turn of the two loops.                                                  *)
(*                                                                         *)
(* Times are counted in seconds (s), milliseconds (ms) or nanoseconds      *)
(* (ns), as in the code; the sizes of the units are constants so that      *)
(* small instances can be checked.  What transform makes of a chunk (one   *)
(* entry per rule, matcher or metric) is left out: chunks holds the        *)
(* arguments of its calls.                                                 *)
(***************************************************************************)
EXTENDS Integers

CONSTANTS MsPerSec,        \* time.Second / time.Millisecond
          NsPerMs,         \* time.Millisecond / time.Nanosecond
          BlockDuration,   \* config.BlockDuration(), ms
          Times,           \* the values of StartTime().Unix(), EndTime().Unix()
          Intervals        \* the values of SampleInterval(), ns

ASSUME UnitAssumption ==
    /\ MsPerSec \in Nat \ {0}
    /\ NsPerMs \in Nat \ {0}

(* tsdb.DefaultBlockDuration is two hours, a whole number of seconds.      *)
ASSUME BlockAssumption ==
    /\ BlockDuration \in Nat \ {0}
    /\ BlockDuration % MsPerSec = 0

(* Ranges from the epoch on; sample intervals of any length, none too.  For *)
(* a negative one, which the flag takes, the loop of Plan need not end.    *)
ASSUME InputAssumption ==
    /\ Times \subseteq Nat
    /\ Intervals \subseteq Nat

NsPerSec == NsPerMs * MsPerSec

VARIABLES
    startTime, endTime,   \* the range, s
    interval,             \* the sample interval, ns
    pc,                   \* "block", "chunk", "done", or "panic"
    blockStart,           \* loop variable of Plan, ms
    start, end,           \* arguments of planBlock, ms
    chunkStart,           \* loop variable of planBlock, ms
    chunks                \* the calls transform(chunkStart, chunkEnd, _) so far

inputs == <<startTime, endTime, interval>>
vars == <<inputs, pc, blockStart, start, end, chunkStart, chunks>>

(* Go's / and % on int64: truncation towards zero.                         *)
GoRem(a, b) == IF a >= 0 THEN a % b ELSE -((-a) % b)
Larger(a, b) == IF a > b THEN a ELSE b
Smaller(a, b) == IF a < b THEN a ELSE b

(* The interval in ms; it is used as a number of ns by evalTimestamp.      *)
stepDuration == interval \div NsPerMs

evalTimestamp(time) ==
    LET adjNow == time - stepDuration
        base   == adjNow - GoRem(adjNow, stepDuration)
    IN  base + stepDuration

(* The loop that adds SampleInterval until the second is reached takes one *)
(* turn at most, for evalTimestamp goes back by less than stepDuration.    *)
StartWithAlignment(currStart) ==
    LET aligned == evalTimestamp(currStart * NsPerSec)
    IN  IF aligned \div NsPerSec < currStart THEN aligned + interval ELSE aligned

currStart == Larger(blockStart \div MsPerSec, startTime)
blockEnd == blockStart + BlockDuration - 1
(* Definitions whose name ends in _bug are no part of the model: each is   *)
(* the definition after it with a plausible slip a property must find.     *)
currEnd_bug == Larger(blockEnd \div MsPerSec, endTime)
currEnd == Smaller(blockEnd \div MsPerSec, endTime)

chunkDuration_roundUp_bug == (end - start + 3) \div 4
chunkDuration == (end - start) \div 4
chunkEnd_bug == chunkStart + chunkDuration
chunkEnd == chunkStart + chunkDuration - 1

Chunk == [start : Nat, end : Int]

TypeOK ==
    /\ startTime \in Times /\ endTime \in Times /\ interval \in Intervals
    /\ pc \in {"block", "chunk", "done", "panic"}
    /\ blockStart \in Nat
    /\ start \in Nat /\ end \in Nat /\ chunkStart \in Nat
    /\ chunks \subseteq Chunk

(* TimeRange lets only ranges through whose start is before the end, which *)
(* may be in the same second.                                              *)
TimeRange(from, to) == from <= to

Init ==
    /\ startTime \in Times /\ endTime \in Times /\ interval \in Intervals
    /\ TimeRange(startTime, endTime)
    /\ pc = "block"
    /\ blockStart = BlockDuration * ((startTime * MsPerSec) \div BlockDuration)
    /\ start = 0 /\ end = 0 /\ chunkStart = 0
    /\ chunks = {}

-----------------------------------------------------------------------------
(* evalTimestamp divides by stepDuration, which is 0 for an interval below *)
(* a millisecond.                                                          *)
DivideByZero ==
    /\ pc = "block"
    /\ blockStart <= endTime * MsPerSec
    /\ stepDuration = 0
    /\ pc' = "panic"
    /\ UNCHANGED <<inputs, blockStart, start, end, chunkStart, chunks>>

PlanBlock ==
    /\ pc = "block"
    /\ blockStart <= endTime * MsPerSec
    /\ stepDuration > 0
    /\ StartWithAlignment(currStart) < currEnd * NsPerSec
    /\ start' = StartWithAlignment(currStart) \div NsPerMs
    /\ end' = currEnd * MsPerSec
    /\ chunkStart' = start'
    /\ pc' = "chunk"
    /\ UNCHANGED <<inputs, blockStart, chunks>>

(* The break of Plan: the aligned start is not before the end.             *)
BreakPlan ==
    /\ pc = "block"
    /\ blockStart <= endTime * MsPerSec
    /\ stepDuration > 0
    /\ StartWithAlignment(currStart) >= currEnd * NsPerSec
    /\ pc' = "done"
    /\ UNCHANGED <<inputs, blockStart, start, end, chunkStart, chunks>>

EndPlan ==
    /\ pc = "block"
    /\ blockStart > endTime * MsPerSec
    /\ pc' = "done"
    /\ UNCHANGED <<inputs, blockStart, start, end, chunkStart, chunks>>

PlanChunk ==
    /\ pc = "chunk"
    /\ chunkStart <= end
    /\ chunkEnd <= end
    /\ chunks' = chunks \cup {[start |-> chunkStart, end |-> chunkEnd]}
    /\ chunkStart' = chunkStart + chunkDuration
    /\ UNCHANGED <<inputs, pc, blockStart, start, end>>

EndBlock_bug ==
    /\ pc = "chunk"
    /\ chunkStart > end \/ chunkEnd > end
    /\ pc' = "block"
    /\ UNCHANGED <<inputs, blockStart, start, end, chunkStart, chunks>>

EndBlock ==
    /\ pc = "chunk"
    /\ chunkStart > end \/ chunkEnd > end
    /\ blockStart' = blockStart + BlockDuration
    /\ pc' = "block"
    /\ UNCHANGED <<inputs, start, end, chunkStart, chunks>>

Returned == pc \in {"done", "panic"} /\ UNCHANGED vars

Next ==
    \/ DivideByZero \/ PlanBlock \/ BreakPlan \/ EndPlan
    \/ PlanChunk \/ EndBlock
    \/ Returned

Spec == Init /\ [][Next]_vars

-----------------------------------------------------------------------------
(* Properties                                                              *)

(* Each chunk starts after every chunk planned before it has ended, across *)
(* blocks too: no timestamp is written twice, and an appender that takes   *)
(* chunks in plan order never sees time go back.                           *)
ChunksInOrder ==
    [][\A c \in chunks' \ chunks : \A d \in chunks : d.end < c.start]_vars

(* Chunks stay within the requested range and within one block, although   *)
(* the start is moved by the alignment and the end cut to whole seconds.   *)
ChunksInRange ==
    \A c \in chunks :
        /\ startTime * MsPerSec <= c.start
        /\ c.end <= endTime * MsPerSec
        /\ c.start \div BlockDuration = c.end \div BlockDuration \/ c.end < c.start

Planned(t) == \E c \in chunks : c.start <= t /\ t <= c.end

(* What Plan leaves out of the block of t: less than one interval at the   *)
(* start, for the alignment; what follows the last whole second, and up to *)
(* four milliseconds more, because only whole quarters are planned.        *)
InHead(t) ==
    LET b == BlockDuration * (t \div BlockDuration)
    IN  t * NsPerMs < Larger(b * NsPerMs, startTime * NsPerSec) + interval
InTail(t) ==
    LET b == BlockDuration * (t \div BlockDuration)
    IN  t > Smaller((b + BlockDuration - 1) \div MsPerSec, endTime) * MsPerSec - 4

(* Where the start of a block is aligned past its end, that block and all  *)
(* later ones are dropped; the block has less than an interval of the      *)
(* range then.                                                             *)
DroppedFrom(t) ==
    /\ t >= blockStart
    /\ (currEnd - currStart) * NsPerSec < interval

(* Every millisecond of the range is planned but for these.                *)
RangeIsPlanned ==
    pc = "done" => \A t \in startTime * MsPerSec .. endTime * MsPerSec :
        Planned(t) \/ InHead(t) \/ InTail(t) \/ DroppedFrom(t)

(* Where the loops are: whatever is planned lies before the block, or the  *)
(* chunk, that is next, and the block at hand is within its bounds.        *)
LoopInv ==
    /\ blockStart % BlockDuration = 0
    /\ pc = "block" => \A c \in chunks : c.end < blockStart
    /\ pc = "chunk" =>
          /\ startTime * MsPerSec <= start /\ blockStart <= start
          /\ start <= chunkStart /\ start <= end
          /\ end <= blockEnd /\ end <= endTime * MsPerSec
          /\ \A c \in chunks : c.end < chunkStart /\ c.end <= blockEnd
    /\ pc = "chunk" \/ chunks # {} => stepDuration > 0

(* No two chunks have a millisecond in common.                             *)
ChunksApart ==
    \A c, d \in chunks : c # d => c.end < d.start \/ d.end < c.start

(* The state of the two loops and the range of what they plan; an interval *)
(* is divided by only if it has a millisecond.                             *)
PlanInv ==
    /\ TypeOK /\ ChunksInRange /\ ChunksApart /\ LoopInv
    /\ pc = "panic" => interval < NsPerMs

(* A block of less than four milliseconds has quarters of length 0, and    *)
(* planBlock makes the same call for ever.                                 *)
NarrowBlock == pc = "chunk" /\ end - start < 4

=============================================================================
