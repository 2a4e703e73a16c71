----------------------------- MODULE PlanProof ------------------------------
(***************************************************************************)
(* Proofs about Planner and PlanExecution, for every size of the units, of *)
(* the blocks and of the range, every sample interval and every source.    *)
(* ExecInv is inductive: PlanInv for the loops of the planner, with the    *)
(* alignment of the start of a block as its arithmetic core, and           *)
(* ProgressInv for what is made of the chunks.                             *)
(*                                                                         *)
(* Then about GeneratorState, what the expressions of a planned metric     *)
(* see, for every number of consumers, blocks, chunks of a metric in a     *)
(* block and samples in a chunk: StateInv is inductive.  Its parts follow  *)
(* each other: which chunks are being executed (ChunkInv), what Last may   *)
(* then be (LastInv), what Index counts (CountInv), and what both are when *)
(* a consumer is alone (AloneInv).                                         *)
(***************************************************************************)
EXTENDS PlanExecution, GeneratorState, FiniteSetTheorems, TLAPS

(* Facts about \div and % with a positive divisor.                         *)
LEMMA DivFacts ==
    ASSUME NEW a \in Int, NEW b \in Nat \ {0}
    PROVE  /\ a \div b \in Int /\ a % b \in Nat /\ a % b < b
           /\ a = b * (a \div b) + (a % b)
           /\ a >= 0 => a \div b \in Nat
OBVIOUS

LEMMA DivUnique ==
    ASSUME NEW b \in Nat \ {0}, NEW k \in Int, NEW x \in Int,
           b * k <= x, x < b * k + b
    PROVE  x \div b = k
OBVIOUS

LEMMA DivMonotone ==
    ASSUME NEW x \in Int, NEW y \in Int, NEW b \in Nat \ {0}
    PROVE  /\ x <= y => x \div b <= y \div b
           /\ x * b <= y => x <= y \div b
           /\ (x \div b) * b <= x
           /\ (x * b) \div b = x
OBVIOUS

LEMMA TimesMonotone ==
    ASSUME NEW a \in Int, NEW b \in Int, NEW n \in Nat, a <= b
    PROVE  a * n <= b * n
OBVIOUS

LEMMA TimesDivisor ==
    ASSUME NEW a \in Int, NEW b \in Nat \ {0}
    PROVE  (b * a) % b = 0
OBVIOUS

LEMMA NextMultiple ==
    ASSUME NEW a \in Int, NEW b \in Nat \ {0}, a % b = 0
    PROVE  (a \div b) * b = a /\ (a + b) % b = 0
<1> DEFINE k == a \div b
<1>1. k \in Int /\ a = b * k
  BY DivFacts
<1> HIDE DEF k
<1>2. a + b = b * (k + 1) /\ k * b = b * k
  BY <1>1
<1>3. (b * (k + 1)) % b = 0
  BY <1>1
<1> QED BY <1>1, <1>2, <1>3 DEF k

LEMMA DivisorOfDivisor ==
    ASSUME NEW a \in Int, NEW b \in Nat \ {0}, NEW c \in Nat \ {0},
           a % b = 0, b % c = 0
    PROVE  a % c = 0
<1>1. a = b * (a \div b) /\ b = c * (b \div c) /\ a \div b \in Int /\ b \div c \in Int
  BY DivFacts
<1>2. a = c * ((b \div c) * (a \div b)) /\ (b \div c) * (a \div b) \in Int
  <2> DEFINE k == a \div b
             m == b \div c
  <2> HIDE DEF k, m
  <2>1. k \in Int /\ m \in Int /\ a = b * k /\ b = c * m
    BY <1>1 DEF k, m
  <2>2. (c * m) * k = c * (m * k) /\ m * k \in Int
    BY <2>1
  <2> QED BY <2>1, <2>2 DEF k, m
<1> QED BY <1>2, TimesDivisor

LEMMA UnitFacts ==
    /\ NsPerMs \in Nat \ {0} /\ MsPerSec \in Nat \ {0} /\ NsPerSec \in Nat \ {0}
    /\ BlockDuration \in Nat \ {0}
    /\ \A s \in Int : s * NsPerSec = (s * MsPerSec) * NsPerMs
BY UnitAssumption, BlockAssumption DEF NsPerSec

-----------------------------------------------------------------------------
(* The start of a block is moved to a multiple of the interval, and never  *)
(* to before the block.                                                    *)
LEMMA EvalTimestampBounds ==
    ASSUME NEW time \in Nat, stepDuration \in Nat \ {0}
    PROVE  /\ evalTimestamp(time) \in Nat
           /\ time - stepDuration < evalTimestamp(time)
           /\ evalTimestamp(time) < time + stepDuration
<1> DEFINE step == stepDuration
           adjNow == time - step
<1> HIDE DEF step
<1>1. step \in Nat \ {0} /\ adjNow \in Int
  BY DEF step
<1>2. evalTimestamp(time) = adjNow - GoRem(adjNow, step) + step
  BY DEF evalTimestamp, step
<1>3. CASE adjNow >= 0
  <2>1. GoRem(adjNow, step) = adjNow % step
    BY <1>3 DEF GoRem
  <2>2. adjNow % step \in Nat /\ adjNow % step < step /\ adjNow % step <= adjNow
    BY <1>1, <1>3, DivFacts
  <2> QED BY <1>1, <1>2, <1>3, <2>1, <2>2 DEF step
<1>4. CASE adjNow < 0
  <2> DEFINE neg == -adjNow
  <2>1. GoRem(adjNow, step) = -(neg % step)
    BY <1>1, <1>4 DEF GoRem
  <2>2. neg \in Nat /\ neg <= step
    BY <1>1, <1>4
  <2>3. neg % step \in Nat /\ neg % step < step /\ neg % step <= neg
    BY <1>1, <2>2, DivFacts
  <2> QED BY <1>1, <1>2, <1>4, <2>1, <2>2, <2>3 DEF step
<1> QED BY <1>1, <1>3, <1>4

LEMMA Aligned ==
    ASSUME interval \in Nat, stepDuration > 0, NEW s \in Nat
    PROVE  /\ stepDuration \in Nat \ {0} /\ stepDuration <= interval
           /\ StartWithAlignment(s) \in Nat
           /\ s * NsPerSec <= StartWithAlignment(s)
           /\ StartWithAlignment(s) < s * NsPerSec + interval
<1>1. stepDuration \in Nat \ {0} /\ stepDuration <= interval
  <2>1. interval \div NsPerMs \in Nat /\ interval \div NsPerMs <= interval
    BY UnitFacts, DivFacts
  <2> QED BY <2>1 DEF stepDuration
<1> DEFINE t == s * NsPerSec
           a == evalTimestamp(t)
<1>2. t \in Nat
  BY UnitFacts
<1>3. a \in Nat /\ t - stepDuration < a /\ a < t + stepDuration
  BY <1>1, <1>2, EvalTimestampBounds
<1>4. CASE a \div NsPerSec < s
  <2>1. StartWithAlignment(s) = a + interval
    BY <1>4 DEF StartWithAlignment
  <2>2. ~(t <= a)
    <3> HIDE DEF a
    <3>1. s * NsPerSec <= a => s <= a \div NsPerSec
      BY <1>3, UnitFacts, DivMonotone
    <3>2. a \div NsPerSec \in Int
      BY <1>3, UnitFacts, DivFacts
    <3> QED BY <1>4, <3>1, <3>2
  <2> HIDE DEF a, t
  <2>3. a + interval \in Nat /\ t <= a + interval /\ a + interval < t + interval
    BY <1>1, <1>2, <1>3, <2>2
  <2> QED BY <1>1, <2>1, <2>3 DEF t
<1>5. CASE ~(a \div NsPerSec < s)
  <2>1. StartWithAlignment(s) = a
    BY <1>5 DEF StartWithAlignment
  <2> HIDE DEF a
  <2>2. s <= a \div NsPerSec
    BY <1>3, <1>5, UnitFacts, DivFacts
  <2>3. s * NsPerSec <= (a \div NsPerSec) * NsPerSec
    BY <1>3, <2>2, UnitFacts, DivFacts, TimesMonotone
  <2>4. (a \div NsPerSec) * NsPerSec <= a
    BY <1>3, UnitFacts, DivMonotone
  <2>5. (a \div NsPerSec) * NsPerSec \in Int
    BY <1>3, UnitFacts, DivFacts
  <2> QED BY <1>1, <1>2, <1>3, <2>1, <2>3, <2>4, <2>5
<1> QED BY <1>4, <1>5

-----------------------------------------------------------------------------
(* The bounds of the block that PlanBlock is about to plan.                *)
LEMMA BlockBounds ==
    ASSUME TypeOK, LoopInv, stepDuration > 0,
           StartWithAlignment(currStart) < currEnd * NsPerSec
    PROVE  LET first == StartWithAlignment(currStart) \div NsPerMs
               last  == currEnd * MsPerSec
           IN  /\ first \in Nat /\ last \in Nat /\ first <= last
               /\ blockStart <= first /\ startTime * MsPerSec <= first
               /\ last <= blockEnd /\ last <= endTime * MsPerSec
<1> DEFINE a == StartWithAlignment(currStart)
<1>1. /\ startTime \in Nat /\ endTime \in Nat /\ interval \in Nat
      /\ blockStart \in Nat /\ blockEnd \in Nat
  BY InputAssumption, UnitFacts DEF TypeOK, blockEnd
<1>2. /\ currStart \in Nat /\ currEnd \in Nat
      /\ startTime <= currStart /\ blockStart \div MsPerSec <= currStart
      /\ currEnd <= endTime /\ currEnd <= blockEnd \div MsPerSec
  BY <1>1, UnitFacts, DivFacts DEF currStart, currEnd, Larger, Smaller
<1>3. a \in Nat /\ currStart * NsPerSec <= a
  BY <1>1, <1>2, Aligned
<1>4. (currStart * MsPerSec) * NsPerMs <= a /\ a < (currEnd * MsPerSec) * NsPerMs
  BY <1>2, <1>3, UnitFacts
<1> DEFINE first == a \div NsPerMs
           from == currStart * MsPerSec
           last == currEnd * MsPerSec
<1>5. from \in Nat /\ last \in Nat
  BY <1>2, UnitFacts
<1>6. first \in Nat /\ from <= first /\ first <= last
  <2> HIDE DEF a, from, last
  <2>1. from <= a \div NsPerMs
    BY <1>3, <1>4, <1>5, UnitFacts, DivMonotone DEF from
  <2>2. a \div NsPerMs <= (last * NsPerMs) \div NsPerMs
    BY <1>3, <1>4, <1>5, UnitFacts, DivMonotone DEF last
  <2>3. (last * NsPerMs) \div NsPerMs = last
    BY <1>5, UnitFacts, DivMonotone
  <2> QED BY <1>3, <2>1, <2>2, <2>3, UnitFacts, DivFacts
<1>7. blockStart <= from
  <2>1. blockStart % MsPerSec = 0
    <3>1. blockStart \in Int /\ blockStart % BlockDuration = 0
      BY <1>1 DEF LoopInv
    <3> QED BY <3>1, UnitFacts, BlockAssumption, DivisorOfDivisor
  <2>2. (blockStart \div MsPerSec) * MsPerSec = blockStart
    BY <1>1, <2>1, UnitFacts, NextMultiple
  <2>3. (blockStart \div MsPerSec) * MsPerSec <= currStart * MsPerSec
    BY <1>1, <1>2, UnitFacts, DivFacts, TimesMonotone
  <2> QED BY <2>2, <2>3
<1>8. startTime * MsPerSec <= from /\ last <= endTime * MsPerSec
  BY <1>1, <1>2, UnitFacts, TimesMonotone
<1>9. last <= blockEnd
  <2>1. last <= (blockEnd \div MsPerSec) * MsPerSec
    BY <1>1, <1>2, UnitFacts, DivFacts, TimesMonotone
  <2>2. (blockEnd \div MsPerSec) * MsPerSec <= blockEnd
    BY <1>1, UnitFacts, DivMonotone
  <2>3. (blockEnd \div MsPerSec) * MsPerSec \in Int
    BY <1>1, UnitFacts, DivFacts
  <2> QED BY <1>1, <1>5, <2>1, <2>2, <2>3
<1>10. startTime * MsPerSec \in Int /\ endTime * MsPerSec \in Int
  BY <1>1, UnitFacts
<1> HIDE DEF a, from
<1> QED BY <1>1, <1>5, <1>6, <1>7, <1>8, <1>9, <1>10 DEF a

(* The chunk that PlanChunk adds.                                          *)
LEMMA ChunkBounds ==
    ASSUME TypeOK, LoopInv, pc = "chunk"
    PROVE  /\ chunkDuration \in Nat /\ chunkStart \in Nat /\ chunkEnd \in Int
           /\ chunkEnd < chunkStart + chunkDuration
<1>1. start \in Nat /\ end \in Nat /\ start <= end /\ chunkStart \in Nat
  BY DEF TypeOK, LoopInv
<1>2. end - start \in Nat
  BY <1>1
<1>3. chunkDuration \in Nat
  BY <1>2, DivFacts DEF chunkDuration
<1> QED BY <1>1, <1>3 DEF chunkEnd

LEMMA PlanInit == Init => PlanInv
<1> SUFFICES ASSUME Init PROVE PlanInv
  OBVIOUS
<1>1. startTime * MsPerSec \in Nat
  BY InputAssumption, UnitFacts DEF Init
<1>2. (startTime * MsPerSec) \div BlockDuration \in Nat
  BY <1>1, UnitFacts, DivFacts
<1>3. blockStart \in Nat /\ blockStart % BlockDuration = 0
  <2> DEFINE k == (startTime * MsPerSec) \div BlockDuration
  <2>1. blockStart = BlockDuration * k
    BY DEF Init
  <2> HIDE DEF k
  <2>2. k \in Nat
    BY <1>2 DEF k
  <2>3. (BlockDuration * k) % BlockDuration = 0
    BY <2>2, UnitFacts, TimesDivisor
  <2> QED BY <2>1, <2>2, <2>3, UnitFacts
<1>4. TypeOK
  BY <1>3 DEF Init, TypeOK
<1> QED BY <1>3, <1>4 DEF Init, PlanInv, ChunksInRange, ChunksApart, LoopInv

LEMMA PlanStep == PlanInv /\ [Next]_vars => PlanInv'
<1> SUFFICES ASSUME PlanInv, [Next]_vars PROVE PlanInv'
  OBVIOUS
<1> USE DEF PlanInv
<1>0. /\ startTime \in Nat /\ endTime \in Nat /\ interval \in Nat
      /\ blockStart \in Nat /\ blockEnd = blockStart + BlockDuration - 1
      /\ BlockDuration \in Nat \ {0} /\ startTime * MsPerSec \in Int
      /\ endTime * MsPerSec \in Int
  BY InputAssumption, UnitFacts DEF TypeOK, blockEnd
<1>1. CASE DivideByZero
  <2>1. interval < NsPerMs
    <3>1. interval \div NsPerMs = 0
      BY <1>1 DEF DivideByZero, stepDuration
    <3> QED BY <1>0, <3>1, UnitFacts, DivFacts
  <2> QED BY <1>1, <2>1 DEF DivideByZero, inputs, TypeOK, ChunksInRange, ChunksApart, LoopInv,
                            stepDuration
<1>2. CASE PlanBlock
  <2> DEFINE first == StartWithAlignment(currStart) \div NsPerMs
             last == currEnd * MsPerSec
  <2>1. /\ first \in Nat /\ last \in Nat /\ first <= last
        /\ blockStart <= first /\ startTime * MsPerSec <= first
        /\ last <= blockEnd /\ last <= endTime * MsPerSec
    BY <1>2, BlockBounds DEF PlanBlock
  <2>2. /\ start' = first /\ end' = last /\ chunkStart' = first /\ pc' = "chunk"
        /\ UNCHANGED <<inputs, blockStart, chunks>> /\ stepDuration > 0
        /\ \A c \in chunks : c.end < blockStart
    BY <1>2 DEF PlanBlock, LoopInv
  <2> HIDE DEF first, last
  <2>3. \A c \in chunks : c.end \in Int
    BY DEF TypeOK, Chunk
  <2>4. \A c \in chunks : c.end < first /\ c.end <= blockEnd
    BY <1>0, <2>1, <2>2, <2>3
  <2>5. TypeOK' /\ ChunksInRange' /\ ChunksApart'
    BY <2>1, <2>2 DEF TypeOK, ChunksInRange, ChunksApart, inputs
  <2>6. LoopInv'
    BY <2>1, <2>2, <2>4 DEF LoopInv, inputs, blockEnd, stepDuration
  <2> QED BY <2>2, <2>5, <2>6
<1>3. CASE BreakPlan \/ EndPlan
  BY <1>3 DEF BreakPlan, EndPlan, inputs, TypeOK, ChunksInRange, ChunksApart, LoopInv,
              stepDuration
<1>4. CASE PlanChunk
  <2> DEFINE new == [start |-> chunkStart, end |-> chunkEnd]
  <2>1. /\ chunkDuration \in Nat /\ chunkStart \in Nat /\ chunkEnd \in Int
        /\ chunkEnd < chunkStart + chunkDuration
    BY <1>4, ChunkBounds DEF PlanChunk
  <2>2. /\ chunkEnd <= end /\ chunks' = chunks \cup {new} /\ pc = "chunk" /\ pc' = "chunk"
        /\ chunkStart' = chunkStart + chunkDuration
        /\ UNCHANGED <<inputs, pc, blockStart, start, end>>
    BY <1>4 DEF PlanChunk
  <2>3. /\ startTime * MsPerSec <= start /\ blockStart <= start /\ start <= chunkStart
        /\ end <= blockEnd /\ end <= endTime * MsPerSec /\ start <= end
        /\ start \in Nat /\ end \in Nat /\ stepDuration > 0
        /\ \A c \in chunks : c.end < chunkStart /\ c.end <= blockEnd
    BY <2>2 DEF LoopInv, TypeOK
  <2>4. new \in Chunk /\ new.start = chunkStart /\ new.end = chunkEnd
    BY <2>1 DEF Chunk
  <2>5. TypeOK'
    BY <2>1, <2>2, <2>4 DEF TypeOK, inputs
  <2>6. \/ chunkStart \div BlockDuration = chunkEnd \div BlockDuration
        \/ chunkEnd < chunkStart
    <3> DEFINE k == blockStart \div BlockDuration
    <3>1. BlockDuration * k = blockStart /\ k \in Int
      BY <1>0, DivFacts DEF LoopInv
    <3> HIDE DEF k
    <3>2. ASSUME chunkStart <= chunkEnd
          PROVE  chunkStart \div BlockDuration = k /\ chunkEnd \div BlockDuration = k
      <4>1. /\ BlockDuration * k <= chunkStart /\ chunkStart < BlockDuration * k + BlockDuration
            /\ BlockDuration * k <= chunkEnd /\ chunkEnd < BlockDuration * k + BlockDuration
        BY <1>0, <2>1, <2>2, <2>3, <3>1, <3>2
      <4> QED BY <1>0, <2>1, <3>1, <4>1, DivUnique
    <3> QED BY <2>1, <3>2
  <2>7. ChunksInRange'
    <3>1. startTime * MsPerSec <= chunkStart /\ chunkEnd <= endTime * MsPerSec
      BY <1>0, <2>1, <2>2, <2>3
    <3> HIDE DEF new
    <3> QED BY <2>2, <2>4, <2>6, <3>1 DEF ChunksInRange, inputs
  <2>8. ChunksApart'
    <3> HIDE DEF new
    <3> QED BY <2>2, <2>3, <2>4 DEF ChunksApart
  <2>9. LoopInv'
    <3> HIDE DEF new
    <3>1. \A c \in chunks' : c.end < chunkStart' /\ c.end <= blockEnd
      <4>1. \A c \in chunks : c.end \in Int
        BY DEF TypeOK, Chunk
      <4> QED BY <1>0, <2>1, <2>2, <2>3, <2>4, <4>1
    <3>2. start <= chunkStart'
      BY <2>1, <2>2, <2>3
    <3> QED BY <2>2, <2>3, <3>1, <3>2 DEF LoopInv, inputs, blockEnd, stepDuration
  <2> QED BY <2>2, <2>5, <2>7, <2>8, <2>9
<1>5. CASE EndBlock
  <2>1. /\ pc = "chunk" /\ pc' = "block" /\ blockStart' = blockStart + BlockDuration
        /\ UNCHANGED <<inputs, start, end, chunkStart, chunks>>
    BY <1>5 DEF EndBlock
  <2>2. blockStart' \in Nat /\ blockStart' % BlockDuration = 0
    <3>1. /\ blockStart \in Int /\ BlockDuration \in Nat \ {0}
          /\ blockStart % BlockDuration = 0
      BY <1>0 DEF LoopInv
    <3>2. (blockStart + BlockDuration) % BlockDuration = 0
      BY ONLY <3>1, NextMultiple
    <3> QED BY <1>0, <2>1, <3>2
  <2>3. \A c \in chunks : c.end < blockStart'
    <3> SUFFICES ASSUME NEW c \in chunks PROVE c.end < blockStart'
      OBVIOUS
    <3>1. c.end \in Int
      BY DEF TypeOK, Chunk
    <3>2. c.end <= blockEnd
      BY <2>1 DEF LoopInv
    <3> QED BY <1>0, <2>1, <3>1, <3>2
  <2> QED BY <2>1, <2>2, <2>3 DEF TypeOK, ChunksInRange, ChunksApart, LoopInv, inputs,
                                  stepDuration
<1>6. CASE UNCHANGED vars
  BY <1>6 DEF vars, inputs, TypeOK, ChunksInRange, ChunksApart, LoopInv, stepDuration,
              blockEnd
<1> QED BY <1>1, <1>2, <1>3, <1>4, <1>5, <1>6 DEF Next, Returned

-----------------------------------------------------------------------------
(* What the blocks leave out.  CoverInv follows the two loops: what lies   *)
(* before the block at hand is covered, and so is, within it, what lies    *)
(* before the next chunk.                                                  *)
Covered(t) == Planned(t) \/ InHead(t) \/ InTail(t)

(* The chunk that is next is one of the quarters, or all are planned.      *)
Quarters ==
    \/ chunkStart = start
    \/ chunkStart = start + chunkDuration
    \/ chunkStart = start + 2 * chunkDuration
    \/ chunkStart = start + 3 * chunkDuration
    \/ chunkStart >= start + 4 * chunkDuration

CoverInv ==
    /\ pc \in {"block", "chunk"} =>
          \A t \in startTime * MsPerSec .. endTime * MsPerSec :
              t < blockStart => Covered(t)
    /\ pc = "chunk" =>
          /\ start * NsPerMs <= Larger(blockStart * NsPerMs, startTime * NsPerSec) + interval
          /\ end = currEnd * MsPerSec
          /\ Quarters
          /\ \A t \in Int : start <= t /\ t < chunkStart => Planned(t)
    /\ RangeIsPlanned

LEMMA CoverInit == Init => CoverInv
<1> SUFFICES ASSUME Init,
                    NEW t \in startTime * MsPerSec .. endTime * MsPerSec
             PROVE  ~(t < blockStart)
  BY DEF Init, CoverInv, RangeIsPlanned
<1> DEFINE from == startTime * MsPerSec
<1>1. from \in Nat /\ endTime * MsPerSec \in Int
  BY InputAssumption, UnitFacts DEF Init
<1>2. t \in Int /\ from <= t
  BY <1>1
<1>3. blockStart = BlockDuration * (from \div BlockDuration)
  BY DEF Init
<1> HIDE DEF from
<1>4. blockStart \in Int /\ blockStart <= from
  BY <1>1, <1>3, UnitFacts, DivFacts
<1> QED BY <1>1, <1>2, <1>4

(* The block of a time between two starts of blocks.                       *)
LEMMA BlockOfStart ==
    ASSUME TypeOK, LoopInv, NEW t \in Int,
           blockStart <= t, t < blockStart + BlockDuration
    PROVE  BlockDuration * (t \div BlockDuration) = blockStart
<1> DEFINE k == blockStart \div BlockDuration
<1>1. k \in Int /\ BlockDuration * k = blockStart
  BY UnitFacts, DivFacts DEF TypeOK, LoopInv
<1> HIDE DEF k
<1>2. t \div BlockDuration = k
  BY <1>1, UnitFacts, DivUnique
<1> QED BY <1>1, <1>2

(* A block that has ended is covered: up to its first chunk by the head,   *)
(* and from where four quarters end by the tail.                           *)
LEMMA BlockCovered ==
    ASSUME PlanInv, CoverInv, pc = "chunk", chunkStart > end \/ chunkEnd > end,
           NEW t \in Int, blockStart <= t, t < blockStart + BlockDuration
    PROVE  Covered(t)
<1>1. /\ TypeOK /\ LoopInv /\ start \in Nat /\ end \in Nat /\ start <= end
      /\ chunkStart \in Nat /\ blockStart \in Nat
  BY DEF PlanInv, TypeOK, LoopInv
<1>2. BlockDuration * (t \div BlockDuration) = blockStart
  BY <1>1, BlockOfStart
<1>3. CASE t < start
  <2>1. start * NsPerMs <= Larger(blockStart * NsPerMs, startTime * NsPerSec) + interval
    BY DEF CoverInv
  <2>2. t * NsPerMs < start * NsPerMs
    <3>1. (t + 1) * NsPerMs <= start * NsPerMs
      BY <1>1, <1>3, UnitFacts, TimesMonotone
    <3>2. (t + 1) * NsPerMs = t * NsPerMs + NsPerMs
      BY UnitFacts
    <3>3. t * NsPerMs \in Int /\ start * NsPerMs \in Int
      BY <1>1, UnitFacts
    <3> QED BY <3>1, <3>2, <3>3, UnitFacts
  <2>3. /\ t * NsPerMs \in Int /\ start * NsPerMs \in Int
        /\ Larger(blockStart * NsPerMs, startTime * NsPerSec) + interval \in Int
    BY <1>1, UnitFacts, InputAssumption DEF TypeOK, Larger
  <2>4. t * NsPerMs < Larger(blockStart * NsPerMs, startTime * NsPerSec) + interval
    BY <2>1, <2>2, <2>3
  <2>5. InHead(t)
    BY <1>2, <2>4 DEF InHead
  <2> QED BY <2>5 DEF Covered
<1>4. CASE start <= t /\ t < chunkStart
  BY <1>4 DEF CoverInv, Covered
<1>5. CASE chunkStart <= t
  <2> DEFINE q == chunkDuration
  <2>1. q \in Nat /\ 4 * q <= end - start /\ end - start <= 4 * q + 3
    BY <1>1 DEF chunkDuration
  <2>2. chunkEnd = chunkStart + q - 1
    BY DEF chunkEnd
  <2>3. \/ chunkStart = start \/ chunkStart = start + q
        \/ chunkStart = start + 2 * q \/ chunkStart = start + 3 * q
        \/ chunkStart >= start + 4 * q
    BY DEF CoverInv, Quarters
  <2> HIDE DEF q
  <2>4. chunkStart > end - 4
    BY <1>1, <2>1, <2>2, <2>3
  <2>5. end = Smaller(blockEnd \div MsPerSec, endTime) * MsPerSec
    BY DEF CoverInv, currEnd
  <2>6. t > end - 4
    BY <1>1, <1>5, <2>4
  <2>7. t > Smaller((blockStart + BlockDuration - 1) \div MsPerSec, endTime) * MsPerSec - 4
    BY <2>5, <2>6 DEF blockEnd
  <2>8. InTail(t)
    BY <1>2, <2>7 DEF InTail
  <2> QED BY <2>8 DEF Covered
<1> QED BY <1>1, <1>3, <1>4, <1>5

(* Where the plan breaks off, the block at hand has less than an interval. *)
LEMMA BreakDrops ==
    ASSUME TypeOK, stepDuration > 0,
           StartWithAlignment(currStart) >= currEnd * NsPerSec
    PROVE  (currEnd - currStart) * NsPerSec < interval
<1>1. /\ startTime \in Nat /\ endTime \in Nat /\ interval \in Nat
      /\ blockStart \in Nat /\ blockEnd \in Nat
  BY InputAssumption, UnitFacts DEF TypeOK, blockEnd
<1>2. currStart \in Nat /\ currEnd \in Nat
  BY <1>1, UnitFacts, DivFacts DEF currStart, currEnd, Larger, Smaller
<1>3. /\ StartWithAlignment(currStart) \in Nat
      /\ StartWithAlignment(currStart) < currStart * NsPerSec + interval
  BY <1>1, <1>2, Aligned
<1> DEFINE from == currStart
           to == currEnd
           a == StartWithAlignment(currStart)
<1>4. from \in Nat /\ to \in Nat /\ a \in Nat
      /\ a < from * NsPerSec + interval /\ a >= to * NsPerSec
  BY <1>2, <1>3
<1> HIDE DEF from, to, a
<1>5. (to - from) * NsPerSec = to * NsPerSec - from * NsPerSec
      /\ to * NsPerSec \in Int /\ from * NsPerSec \in Int
  BY <1>4, UnitFacts
<1>6. (to - from) * NsPerSec < interval
  BY <1>1, <1>4, <1>5
<1> QED BY <1>6 DEF from, to

(* The first chunk of a block starts within an interval of the block.      *)
LEMMA FirstChunk ==
    ASSUME TypeOK, LoopInv, stepDuration > 0
    PROVE  (StartWithAlignment(currStart) \div NsPerMs) * NsPerMs
              <= Larger(blockStart * NsPerMs, startTime * NsPerSec) + interval
<1>1. startTime \in Nat /\ interval \in Nat /\ blockStart \in Nat
  BY InputAssumption DEF TypeOK
<1> DEFINE from == currStart
           a == StartWithAlignment(from)
           b == blockStart \div MsPerSec
<1>2. b \in Nat /\ from = Larger(b, startTime) /\ from \in Nat
  BY <1>1, UnitFacts, DivFacts DEF currStart, Larger
<1>3. a \in Nat /\ a < from * NsPerSec + interval
  BY <1>1, <1>2, Aligned
<1>4. b * NsPerSec = blockStart * NsPerMs
  <2>1. blockStart % MsPerSec = 0
    <3>1. blockStart \in Int /\ blockStart % BlockDuration = 0
      BY <1>1 DEF LoopInv
    <3> QED BY <3>1, UnitFacts, BlockAssumption, DivisorOfDivisor
  <2>2. b * MsPerSec = blockStart
    BY <1>1, <2>1, UnitFacts, NextMultiple
  <2>3. b * NsPerSec = (b * MsPerSec) * NsPerMs
    <3> HIDE DEF b
    <3>1. b \in Int
      BY <1>2
    <3> QED BY <3>1, UnitFacts
  <2> QED BY <2>2, <2>3
<1>5. from * NsPerSec <= Larger(blockStart * NsPerMs, startTime * NsPerSec)
  <2>1. from * NsPerSec = b * NsPerSec \/ from * NsPerSec = startTime * NsPerSec
    BY <1>2 DEF Larger
  <2>2. b * NsPerSec \in Int /\ startTime * NsPerSec \in Int
    BY <1>1, <1>2, UnitFacts
  <2> HIDE DEF from, b
  <2> QED BY <1>4, <2>1, <2>2 DEF Larger
<1>6. (a \div NsPerMs) * NsPerMs <= a /\ (a \div NsPerMs) * NsPerMs \in Int
  <2> HIDE DEF a
  <2>1. a \div NsPerMs \in Int
    BY <1>3, UnitFacts, DivFacts
  <2> QED BY <1>3, <2>1, UnitFacts, DivMonotone
<1>7. Larger(blockStart * NsPerMs, startTime * NsPerSec) \in Int /\ from * NsPerSec \in Int
  BY <1>1, <1>2, UnitFacts DEF Larger
<1> DEFINE first == (a \div NsPerMs) * NsPerMs
           bound == Larger(blockStart * NsPerMs, startTime * NsPerSec)
           f == from * NsPerSec
<1>8. first \in Int /\ bound \in Int /\ f \in Int /\ first <= a /\ a < f + interval
      /\ f <= bound /\ a \in Nat
  BY <1>3, <1>5, <1>6, <1>7
<1>9. first <= bound + interval
  <2> HIDE DEF first, bound, f, a
  <2> QED BY <1>1, <1>8
<1> QED BY <1>9

LEMMA CoverStep == PlanInv /\ CoverInv /\ [Next]_vars => CoverInv'
<1> SUFFICES ASSUME PlanInv, CoverInv, [Next]_vars PROVE CoverInv'
  OBVIOUS
<1>0. /\ startTime \in Nat /\ endTime \in Nat /\ interval \in Nat
      /\ blockStart \in Nat /\ TypeOK /\ LoopInv
      /\ startTime * MsPerSec \in Int /\ endTime * MsPerSec \in Int
  BY InputAssumption, UnitFacts DEF PlanInv, TypeOK
<1>1. CASE DivideByZero
  BY <1>1 DEF DivideByZero, CoverInv, RangeIsPlanned
<1>2. CASE PlanBlock
  <2> DEFINE first == StartWithAlignment(currStart) \div NsPerMs
             last == currEnd * MsPerSec
  <2>1. first \in Nat
    BY <1>0, <1>2, BlockBounds DEF PlanBlock
  <2>2. /\ start' = first /\ end' = last /\ chunkStart' = first
        /\ pc = "block" /\ pc' = "chunk"
        /\ UNCHANGED <<inputs, blockStart, chunks>>
    BY <1>2 DEF PlanBlock
  <2>3. first * NsPerMs <= Larger(blockStart * NsPerMs, startTime * NsPerSec) + interval
    BY <1>0, <1>2, FirstChunk DEF PlanBlock
  <2>4. currEnd' = currEnd
    BY <2>2 DEF currEnd, blockEnd, inputs
  <2>5. Quarters' /\ ~\E t \in Int : first <= t /\ t < first
    BY <2>1, <2>2 DEF Quarters
  <2>6. \A t : Covered(t)' = Covered(t)
    BY <2>2 DEF Covered, Planned, InHead, InTail, inputs
  <2> HIDE DEF first
  <2> QED BY <2>2, <2>3, <2>4, <2>5, <2>6 DEF CoverInv, RangeIsPlanned, inputs
<1>3. CASE BreakPlan
  <2>1. /\ pc = "block" /\ pc' = "done" /\ stepDuration > 0
        /\ StartWithAlignment(currStart) >= currEnd * NsPerSec
        /\ UNCHANGED <<inputs, blockStart, chunks>>
    BY <1>3 DEF BreakPlan
  <2>2. (currEnd - currStart) * NsPerSec < interval
    BY <1>0, <2>1, BreakDrops
  <2>3. ASSUME NEW t \in startTime * MsPerSec .. endTime * MsPerSec
        PROVE  Covered(t) \/ DroppedFrom(t)
    <3>1. t \in Int
      BY <1>0
    <3>2. CASE t < blockStart
      BY <2>1, <3>2 DEF CoverInv
    <3>3. CASE ~(t < blockStart)
      BY <1>0, <2>2, <3>1, <3>3 DEF DroppedFrom
    <3> QED BY <3>2, <3>3
  <2>4. \A t : (Covered(t) \/ DroppedFrom(t))' = (Covered(t) \/ DroppedFrom(t))
    BY <2>1 DEF Covered, Planned, InHead, InTail, DroppedFrom, inputs, currEnd, currStart,
                blockEnd
  <2> QED BY <2>1, <2>3, <2>4 DEF CoverInv, RangeIsPlanned, Covered, inputs
<1>4. CASE EndPlan
  <2>1. /\ pc = "block" /\ pc' = "done" /\ blockStart > endTime * MsPerSec
        /\ UNCHANGED <<inputs, blockStart, chunks>>
    BY <1>4 DEF EndPlan
  <2>2. ASSUME NEW t \in startTime * MsPerSec .. endTime * MsPerSec
        PROVE  Covered(t)
    <3>1. t < blockStart
      BY <1>0, <2>1
    <3> QED BY <2>1, <3>1 DEF CoverInv
  <2>3. \A t : Covered(t)' = Covered(t)
    BY <2>1 DEF Covered, Planned, InHead, InTail, inputs
  <2> QED BY <2>1, <2>2, <2>3 DEF CoverInv, RangeIsPlanned, Covered, inputs
<1>5. CASE PlanChunk
  <2> DEFINE new == [start |-> chunkStart, end |-> chunkEnd]
  <2>1. /\ pc = "chunk" /\ pc' = "chunk" /\ chunks' = chunks \cup {new}
        /\ chunkStart' = chunkStart + chunkDuration
        /\ UNCHANGED <<inputs, blockStart, start, end>>
    BY <1>5 DEF PlanChunk
  <2>2. /\ chunkDuration \in Nat /\ chunkStart \in Nat /\ start \in Nat
        /\ chunkEnd = chunkStart + chunkDuration - 1
    BY <1>0, <2>1, ChunkBounds DEF TypeOK, chunkEnd
  <2>3. new.start = chunkStart /\ new.end = chunkEnd
    OBVIOUS
  <2> HIDE DEF new
  <2>4. \A t : Planned(t) => Planned(t)'
    BY <2>1 DEF Planned
  <2>5. \A t : Covered(t) => Covered(t)'
    BY <2>1, <2>4 DEF Covered, InHead, InTail, inputs
  <2>6. ASSUME NEW t \in Int, start <= t, t < chunkStart' PROVE Planned(t)'
    <3>1. CASE t < chunkStart
      BY <2>1, <2>4, <2>6, <3>1 DEF CoverInv
    <3>2. CASE ~(t < chunkStart)
      <4>1. new.start <= t /\ t <= new.end
        BY <2>1, <2>2, <2>3, <2>6, <3>2
      <4> QED BY <2>1, <4>1 DEF Planned
    <3> QED BY <3>1, <3>2
  <2>7. Quarters'
    <3>1. chunkDuration' = chunkDuration
      BY <2>1 DEF chunkDuration
    <3>2. Quarters
      BY <2>1 DEF CoverInv
    <3> QED BY <2>1, <2>2, <3>1, <3>2 DEF Quarters
  <2>8. currEnd' = currEnd
    BY <2>1 DEF currEnd, blockEnd, inputs
  <2> QED BY <2>1, <2>5, <2>6, <2>7, <2>8 DEF CoverInv, RangeIsPlanned, inputs
<1>6. CASE EndBlock
  <2>1. /\ pc = "chunk" /\ pc' = "block" /\ blockStart' = blockStart + BlockDuration
        /\ chunkStart > end \/ chunkEnd > end
        /\ UNCHANGED <<inputs, start, end, chunkStart, chunks>>
    BY <1>6 DEF EndBlock
  <2>2. ASSUME NEW t \in startTime * MsPerSec .. endTime * MsPerSec, t < blockStart'
        PROVE  Covered(t)
    <3>1. t \in Int
      BY <1>0
    <3>2. CASE t < blockStart
      BY <2>1, <3>2 DEF CoverInv
    <3>3. CASE blockStart <= t
      BY <2>1, <2>2, <3>1, <3>3, BlockCovered
    <3> QED BY <1>0, <3>1, <3>2, <3>3
  <2>3. \A t : Covered(t)' = Covered(t)
    BY <2>1 DEF Covered, Planned, InHead, InTail, inputs
  <2> QED BY <2>1, <2>2, <2>3 DEF CoverInv, RangeIsPlanned, inputs
<1>7. CASE UNCHANGED vars
  BY <1>7 DEF vars, inputs, CoverInv, RangeIsPlanned, Covered, Planned, InHead, InTail,
              DroppedFrom, Quarters, chunkDuration, currEnd, currStart, blockEnd
<1> QED BY <1>1, <1>2, <1>3, <1>4, <1>5, <1>6, <1>7 DEF Next, Returned

-----------------------------------------------------------------------------
(* What is made of the chunks.                                             *)
LEMMA OutputFacts ==
    ASSUME PlanInv, ExecTypeOK, NEW c \in chunks
    PROVE  /\ Output(c) \subseteq Nat /\ Late(c) \subseteq Nat
           /\ \A t \in Output(c) : c.start <= t /\ t <= c.end
           /\ \A t \in Late(c) : c.end < t
<1>1. c.start \in Nat /\ c.end \in Int
  BY DEF PlanInv, TypeOK, Chunk
<1>2. CASE task = "generate"
  BY <1>1, <1>2 DEF Output, Late, Grid
<1>3. CASE task = "migrate"
  BY <1>1, <1>3, SourceAssumption DEF Output, Late
<1> QED BY <1>2, <1>3 DEF ExecTypeOK

(* What is kept of a read: the samples of the chunk, and late ones.        *)
LEMMA KeptFacts ==
    ASSUME PlanInv, ExecTypeOK, task = "migrate", NEW c \in chunks, NEW read \in Answers(c)
    PROVE  Output(c) \subseteq Kept(c, read) /\ Kept(c, read) \subseteq Output(c) \cup Late(c)
<1>1. c.start \in Nat /\ c.end \in Int
  BY DEF PlanInv, TypeOK, Chunk
<1>2. Output(c) = {t \in SampleTimes \ StaleTimes : c.start <= t /\ t <= c.end}
      /\ Late(c) = {t \in LateTimes \ StaleTimes : t > c.end}
  BY DEF Output, Late
<1> DEFINE within == {t \in SampleTimes : c.start <= t /\ t <= c.end}
           older  == {t \in SampleTimes : t < c.start}
           late   == {t \in LateTimes : t > c.end}
<1>3. PICK o \in {{}, older}, l \in SUBSET late : read = within \cup o \cup l
  BY DEF Answers
<1>4. Kept(c, read) = {t \in read : t \notin StaleTimes /\ t >= c.start}
  BY DEF Kept
<1>5. \A t \in SampleTimes : t \in Int
  BY SourceAssumption
<1>6. \A t \in Output(c) : t \in Kept(c, read)
  BY <1>2, <1>3, <1>4
<1>7. ASSUME NEW t \in Kept(c, read) PROVE t \in Output(c) \cup Late(c)
  <2>1. t \in read /\ t \notin StaleTimes /\ t >= c.start
    BY <1>4
  <2>2. t \in within \/ t \in older \/ t \in late
    BY <1>3, <2>1
  <2>3. t \notin older
    BY <1>1, <1>5, <2>1
  <2> QED BY <1>2, <2>1, <2>2, <2>3
<1> QED BY <1>6, <1>7

(* The chunks have no time in common.                                      *)
LEMMA OutputsApart ==
    ASSUME PlanInv, ExecTypeOK, NEW c \in chunks, NEW d \in chunks, c # d
    PROVE  Output(c) \cap Output(d) = {}
<1>1. c.end < d.start \/ d.end < c.start
  BY DEF PlanInv, ChunksApart
<1>2. c.start \in Nat /\ c.end \in Int /\ d.start \in Nat /\ d.end \in Int
  BY DEF PlanInv, TypeOK, Chunk
<1>3. \A t \in Output(c) \cap Output(d) :
         t \in Nat /\ c.start <= t /\ t <= c.end /\ d.start <= t /\ t <= d.end
  BY OutputFacts
<1> QED BY <1>1, <1>2, <1>3

(* Samples of a chunk are added, or passed over as NaN: only a late sample *)
(* can have been added before, or be added again.                          *)
LEMMA AddedApart ==
    ASSUME ExecInv, job = "running", NEW c \in todo, NEW samples, NEW nan,
           AddAll(samples), nans' = nans \cup nan,
           samples \cup nan \subseteq Output(c) \cup Late(c),
           nan \subseteq NaNTimes \ samples, task = "migrate" => nan = {}
    PROVE  /\ added' \cup nans' = added \cup nans \cup samples \cup nan
           /\ added' \subseteq Nat /\ repeated' \subseteq added' /\ nans' \subseteq Nat
           /\ repeated' \subseteq UNION {Late(d) : d \in chunks}
           /\ nans' \subseteq NaNTimes \ added'
           /\ task = "migrate" => nans' = {}
<1>1. /\ c \in chunks /\ todo \subseteq chunks /\ PlanInv /\ ExecTypeOK
      /\ added \subseteq Nat /\ nans \subseteq Nat /\ repeated \subseteq added
  BY DEF ExecInv, ExecTypeOK
<1>2. /\ added \cup nans \subseteq UNION {Output(d) \cup Late(d) : d \in chunks \ todo}
      /\ repeated \subseteq UNION {Late(d) : d \in chunks}
      /\ nans \subseteq NaNTimes \ added
      /\ task = "migrate" => nans = {}
  BY DEF ExecInv, ProgressInv
<1>3. samples \subseteq Nat /\ nan \subseteq Nat
  BY <1>1, OutputFacts
<1>4. added' = added \cup samples /\ repeated' = repeated \cup (added \cap samples)
  BY DEF AddAll
<1>5. ASSUME NEW t \in added \cup nans, t \in samples \cup nan
      PROVE  t \in UNION {Late(d) : d \in chunks}
  <2>1. PICK d \in chunks \ todo : t \in Output(d) \cup Late(d)
    BY <1>2
  <2>2. d # c /\ d \in chunks
    BY <2>1
  <2>3. Output(c) \cap Output(d) = {}
    BY <1>1, <2>2, OutputsApart
  <2>4. t \in Late(c) \/ t \in Late(d)
    BY <1>5, <2>1, <2>3
  <2> QED BY <1>1, <2>2, <2>4
<1>6. repeated' \subseteq UNION {Late(d) : d \in chunks}
  BY <1>2, <1>4, <1>5
<1>7. nans' \subseteq NaNTimes \ added'
  <2>1. CASE task = "generate"
    <3>1. UNION {Late(d) : d \in chunks} = {}
      BY <2>1 DEF Late
    <3> QED BY <1>2, <1>4, <1>5, <3>1
  <2>2. CASE task = "migrate"
    BY <1>2, <2>2
  <2> QED BY <1>1, <2>1, <2>2 DEF ExecTypeOK
<1> QED BY <1>1, <1>2, <1>3, <1>4, <1>6, <1>7

(* What the chunks make depends on the plan and the task only.             *)
LEMMA OutputKept ==
    ASSUME UNCHANGED <<vars, task>>
    PROVE  /\ \A d : Output(d)' = Output(d) /\ Late(d)' = Late(d)
           /\ chunks' = chunks /\ pc' = pc
BY DEF Output, Late, Grid, vars, inputs, stepDuration

(* The last action of a chunk: its samples are added.                      *)
LEMMA Executed ==
    ASSUME ExecInv, NEW c \in todo, pc = "done", job = "running", NEW samples, NEW nan,
           AddAll(samples), nans' = nans \cup nan,
           Output(c) \subseteq samples \cup nan,
           samples \cup nan \subseteq Output(c) \cup Late(c),
           nan \subseteq NaNTimes \ samples, task = "migrate" => nan = {},
           todo' = todo \ {c}, UNCHANGED <<vars, task, job>>,
           reads' \in 0 .. maxQueryRetryAttempts
    PROVE  ExecInv'
<1>1. /\ c \in chunks /\ todo \subseteq chunks
      /\ UNION {Output(d) : d \in chunks \ todo} \subseteq added \cup nans
      /\ added \cup nans \subseteq UNION {Output(d) \cup Late(d) : d \in chunks \ todo}
  BY DEF ExecInv, ExecTypeOK, ProgressInv
<1>2. /\ added' \cup nans' = added \cup nans \cup samples \cup nan
      /\ added' \subseteq Nat /\ repeated' \subseteq added' /\ nans' \subseteq Nat
      /\ repeated' \subseteq UNION {Late(d) : d \in chunks}
      /\ nans' \subseteq NaNTimes \ added'
      /\ task = "migrate" => nans' = {}
  BY AddedApart
<1>3. /\ \A d : Output(d)' = Output(d) /\ Late(d)' = Late(d)
      /\ chunks' = chunks /\ pc' = pc
  BY OutputKept
<1>4. ExecTypeOK'
  BY <1>1, <1>2, <1>3 DEF ExecInv, ExecTypeOK
<1>5. PlanInv'
  BY PlanStep DEF ExecInv
<1>6. ProgressInv'
  <2>1. \A d \in chunks \ todo' : d = c \/ d \in chunks \ todo
    OBVIOUS
  <2>2. UNION {Output(d) : d \in chunks \ todo'} \subseteq added' \cup nans'
    BY <1>1, <1>2, <2>1
  <2>3. added' \cup nans' \subseteq UNION {Output(d) \cup Late(d) : d \in chunks \ todo'}
    BY <1>1, <1>2
  <2>4. added' \cup nans' \subseteq UNION {Output(d) \cup Late(d) : d \in chunks}
    BY <2>3
  <2>5. /\ UNION {Output(d)' : d \in chunks' \ todo'} = UNION {Output(d) : d \in chunks \ todo'}
        /\ UNION {Output(d)' \cup Late(d)' : d \in chunks' \ todo'}
             = UNION {Output(d) \cup Late(d) : d \in chunks \ todo'}
        /\ UNION {Output(d)' \cup Late(d)' : d \in chunks'}
             = UNION {Output(d) \cup Late(d) : d \in chunks}
        /\ UNION {Late(d)' : d \in chunks'} = UNION {Late(d) : d \in chunks}
    BY <1>3
  <2>6. job' = "running" /\ task' = task /\ pc' = "done"
    BY <1>3
  <2> QED BY <1>2, <2>2, <2>3, <2>4, <2>5, <2>6 DEF ProgressInv
<1> QED BY <1>4, <1>5, <1>6 DEF ExecInv

(* A step that leaves the chunks to do: it adds nothing, or fails.         *)
LEMMA NotExecuted ==
    ASSUME ExecInv, UNCHANGED <<vars, task, todo>>, pc = "done", job = "running",
           reads' \in 0 .. maxQueryRetryAttempts, job' \in {"running", "failed"},
           job' = "running" => added' = added /\ nans' = nans,
           added' \subseteq Nat, repeated' \subseteq added', nans' \subseteq Nat,
           repeated' \subseteq UNION {Late(d) : d \in chunks},
           nans' \subseteq NaNTimes \ added', task = "migrate" => nans' = {},
           added' \cup nans' \subseteq UNION {Output(d) \cup Late(d) : d \in chunks}
    PROVE  ExecInv'
<1>1. /\ \A d : Output(d)' = Output(d) /\ Late(d)' = Late(d)
      /\ chunks' = chunks /\ pc' = pc
  BY OutputKept
<1>2. PlanInv'
  BY PlanStep DEF ExecInv
<1>3. ExecTypeOK'
  BY <1>1 DEF ExecInv, ExecTypeOK, Jobs
<1>4. ProgressInv'
  <2>1. /\ UNION {Output(d)' : d \in chunks' \ todo'} = UNION {Output(d) : d \in chunks \ todo}
        /\ UNION {Output(d)' \cup Late(d)' : d \in chunks' \ todo'}
             = UNION {Output(d) \cup Late(d) : d \in chunks \ todo}
        /\ UNION {Output(d)' \cup Late(d)' : d \in chunks'}
             = UNION {Output(d) \cup Late(d) : d \in chunks}
        /\ UNION {Late(d)' : d \in chunks'} = UNION {Late(d) : d \in chunks}
    BY <1>1
  <2>2. job' # "failed" =>
          /\ UNION {Output(d) : d \in chunks \ todo} \subseteq added' \cup nans'
          /\ added' \cup nans' \subseteq UNION {Output(d) \cup Late(d) : d \in chunks \ todo}
    BY DEF ExecInv, ProgressInv
  <2>3. job' # "written" /\ task' = task /\ pc' = "done"
    BY <1>1
  <2> QED BY <2>1, <2>2, <2>3 DEF ProgressInv
<1> QED BY <1>2, <1>3, <1>4 DEF ExecInv

LEMMA ExecStart == ExecInit => ExecInv
<1> SUFFICES ASSUME ExecInit PROVE ExecInv
  OBVIOUS
<1>1. PlanInv
  BY PlanInit DEF ExecInit
<1>2. 0 \in 0 .. maxQueryRetryAttempts
  BY SourceAssumption
<1>3. chunks = {} /\ pc = "block"
  BY DEF ExecInit, Init
<1> QED BY <1>1, <1>2, <1>3 DEF ExecInit, ExecInv, ExecTypeOK, Jobs, ProgressInv

LEMMA ExecStep == ExecInv /\ [ExecNext]_allVars => ExecInv'
<1> SUFFICES ASSUME ExecInv, [ExecNext]_allVars PROVE ExecInv'
  OBVIOUS
<1>0. PlanInv /\ ExecTypeOK /\ ProgressInv /\ todo \subseteq chunks
  BY DEF ExecInv, ExecTypeOK
<1>1. CASE Plan
  <2>1. /\ pc # "done" /\ Next /\ todo' = chunks'
        /\ UNCHANGED <<task, reads, added, repeated, nans, job>>
    BY <1>1 DEF Plan
  <2>2. /\ todo = chunks /\ added = {} /\ nans = {} /\ job = "running"
        /\ repeated = {}
    BY <1>0, <2>1 DEF ProgressInv, ExecTypeOK
  <2>3. PlanInv'
    BY <1>0, <2>1, PlanStep
  <2>4. ExecTypeOK'
    BY <1>0, <2>1, <2>2 DEF ExecTypeOK
  <2>5. ProgressInv'
    <3>1. UNION {Output(c)' : c \in chunks' \ todo'} = {}
      BY <2>1
    <3> QED BY <2>1, <2>2, <3>1 DEF ProgressInv
  <2> QED BY <2>3, <2>4, <2>5 DEF ExecInv
<1>2. ASSUME NEW c \in todo, Generate(c) PROVE ExecInv'
  <2>1. task = "generate" /\ Output(c) = Grid(c) /\ pc = "done" /\ job = "running"
    BY <1>2 DEF Generate, Executing, Output
  <2>2. PICK nan \in SUBSET (Grid(c) \cap NaNTimes) :
          AddAll(Valued(c, nan)) /\ nans' = nans \cup nan
    BY <1>2 DEF Generate
  <2>3. /\ Output(c) \subseteq Valued(c, nan) \cup nan
        /\ Valued(c, nan) \cup nan \subseteq Output(c) \cup Late(c)
        /\ nan \subseteq NaNTimes \ Valued(c, nan)
    BY <2>1, <2>2 DEF Valued
  <2>4. reads' \in 0 .. maxQueryRetryAttempts
    BY <1>0, <1>2 DEF Generate, ExecTypeOK
  <2> QED BY <1>2, <2>1, <2>2, <2>3, <2>4, Executed DEF Generate
<1>3. ASSUME NEW c \in todo, Migrate(c) PROVE ExecInv'
  <2>1. task = "migrate" /\ pc = "done" /\ job = "running" /\ nans' = nans
    BY <1>3 DEF Migrate, Executing
  <2>2. PICK read \in Answers(c) : AddAll(Kept(c, read))
    BY <1>3 DEF Migrate
  <2>3. /\ Output(c) \subseteq Kept(c, read)
        /\ Kept(c, read) \subseteq Output(c) \cup Late(c)
    BY <1>0, <2>1, KeptFacts
  <2>4. /\ Output(c) \subseteq Kept(c, read) \cup {}
        /\ Kept(c, read) \cup {} \subseteq Output(c) \cup Late(c)
        /\ {} \subseteq NaNTimes \ Kept(c, read)
        /\ nans' = nans \cup {}
    BY <2>1, <2>3
  <2>5. reads' \in 0 .. maxQueryRetryAttempts
    BY <1>3, SourceAssumption DEF Migrate
  <2> QED BY <1>3, <2>1, <2>2, <2>4, <2>5, Executed DEF Migrate
<1>4. ASSUME NEW c \in todo, NEW samples, NEW nan, pc = "done", job = "running",
             AddAll(samples), nans' = nans \cup nan,
             samples \cup nan \subseteq Output(c) \cup Late(c),
             nan \subseteq NaNTimes \ samples, task = "migrate" => nan = {},
             job' = "failed", UNCHANGED <<vars, task, todo, reads>>
      PROVE  ExecInv'
  <2>1. /\ added' \cup nans' = added \cup nans \cup samples \cup nan
        /\ added' \subseteq Nat /\ repeated' \subseteq added' /\ nans' \subseteq Nat
        /\ repeated' \subseteq UNION {Late(d) : d \in chunks}
        /\ nans' \subseteq NaNTimes \ added'
        /\ task = "migrate" => nans' = {}
    BY <1>4, AddedApart
  <2>2. added' \cup nans' \subseteq UNION {Output(d) \cup Late(d) : d \in chunks}
    BY <1>0, <1>4, <2>1 DEF ProgressInv
  <2>3. reads' \in 0 .. maxQueryRetryAttempts
    BY <1>0, <1>4 DEF ExecTypeOK
  <2> QED BY <1>4, <2>1, <2>2, <2>3, NotExecuted
<1>5. ASSUME NEW c \in todo, GenerateFails(c) PROVE ExecInv'
  <2>1. task = "generate" /\ Output(c) = Grid(c) /\ pc = "done" /\ job = "running"
    BY <1>5 DEF GenerateFails, Executing, Output
  <2>2. PICK t \in Grid(c), nan \in SUBSET (Grid(c) \cap NaNTimes) :
          /\ AddAll({u \in Valued(c, nan) : u < t})
          /\ nans' = nans \cup {u \in nan : u < t}
    BY <1>5 DEF GenerateFails
  <2> DEFINE samples == {u \in Valued(c, nan) : u < t}
             passed  == {u \in nan : u < t}
  <2>3. samples \cup passed \subseteq Output(c) \cup Late(c) /\ passed \subseteq NaNTimes \ samples
    BY <2>1, <2>2 DEF Valued
  <2>4. AddAll(samples) /\ nans' = nans \cup passed
    BY <2>2
  <2> HIDE DEF samples, passed
  <2> QED BY <1>4, <1>5, <2>1, <2>3, <2>4 DEF GenerateFails
<1>6. ASSUME NEW c \in todo, MigrateFails(c) PROVE ExecInv'
  <2>1. task = "migrate" /\ pc = "done" /\ job = "running" /\ nans' = nans
    BY <1>6 DEF MigrateFails, Executing
  <2>2. PICK read \in Answers(c) :
               \E t \in Kept(c, read) : AddAll({u \in Kept(c, read) : u < t})
    BY <1>6 DEF MigrateFails
  <2>3. Kept(c, read) \subseteq Output(c) \cup Late(c)
    BY <1>0, <2>1, KeptFacts
  <2>4. PICK samples \in SUBSET Kept(c, read) : AddAll(samples)
    BY <2>2
  <2> DEFINE nan == {}
  <2>5. /\ nans' = nans \cup nan /\ samples \cup nan \subseteq Output(c) \cup Late(c)
        /\ nan \subseteq NaNTimes \ samples
        /\ task = "migrate" => nan = {}
    BY <2>1, <2>3, <2>4
  <2>6. job' = "failed" /\ UNCHANGED <<vars, task, todo, reads>>
    BY <1>6 DEF MigrateFails
  <2> HIDE DEF nan
  <2> QED BY <1>4, <2>1, <2>4, <2>5, <2>6
<1>7. ASSUME NEW c \in todo, ReadFails(c) PROVE ExecInv'
  <2>1. reads' \in 0 .. maxQueryRetryAttempts
    BY <1>0, <1>7, SourceAssumption DEF ReadFails, ExecTypeOK
  <2>2. /\ pc = "done" /\ job = "running" /\ job' \in {"running", "failed"}
        /\ UNCHANGED <<vars, task, todo, added, repeated, nans>>
    BY <1>7 DEF ReadFails, Executing
  <2>3. /\ added \subseteq Nat /\ repeated \subseteq added /\ nans \subseteq Nat
    BY <1>0 DEF ExecTypeOK
  <2>4. /\ repeated \subseteq UNION {Late(d) : d \in chunks}
        /\ nans \subseteq NaNTimes \ added
        /\ task = "migrate" => nans = {}
        /\ added \cup nans \subseteq UNION {Output(d) \cup Late(d) : d \in chunks}
    BY <1>0 DEF ProgressInv
  <2>5. /\ added' \subseteq Nat /\ repeated' \subseteq added' /\ nans' \subseteq Nat
        /\ repeated' \subseteq UNION {Late(d) : d \in chunks}
        /\ nans' \subseteq NaNTimes \ added'
        /\ task = "migrate" => nans' = {}
        /\ added' \cup nans' \subseteq UNION {Output(d) \cup Late(d) : d \in chunks}
    BY <2>2, <2>3, <2>4
  <2> QED BY <2>1, <2>2, <2>5, NotExecuted
<1>8. CASE Written
  <2>1. \A d : Output(d)' = Output(d) /\ Late(d)' = Late(d)
    BY <1>8, OutputKept DEF Written
  <2>2. PlanInv'
    BY <1>0, <1>8, PlanStep DEF Written
  <2>3. UNCHANGED <<task, todo, reads, added, repeated, nans>> /\ job = "running"
        /\ chunks' = chunks /\ pc' = "done" /\ todo = {} /\ job' = "written"
    BY <1>8 DEF Written, vars
  <2>4. ExecTypeOK'
    BY <1>0, <2>3 DEF ExecTypeOK, Jobs
  <2>5. ProgressInv'
    BY <1>0, <2>1, <2>3 DEF ProgressInv
  <2> QED BY <2>2, <2>4, <2>5 DEF ExecInv
<1>9. CASE UNCHANGED allVars
  <2>1. \A d : Output(d)' = Output(d) /\ Late(d)' = Late(d)
    BY <1>9, OutputKept DEF allVars, execVars
  <2>2. PlanInv'
    BY <1>0, <1>9, PlanStep DEF allVars
  <2>3. UNCHANGED <<task, todo, reads, added, repeated, nans, job, chunks, pc>>
    BY <1>9 DEF allVars, execVars, vars
  <2>4. ExecTypeOK'
    BY <1>0, <2>3 DEF ExecTypeOK
  <2>5. ProgressInv'
    BY <1>0, <2>1, <2>3 DEF ProgressInv
  <2> QED BY <2>2, <2>4, <2>5 DEF ExecInv
<1> QED BY <1>1, <1>2, <1>3, <1>5, <1>6, <1>7, <1>8, <1>9 DEF ExecNext, Ended

-----------------------------------------------------------------------------
(* The loops of the planner stay within the range and one block, whatever  *)
(* the alignment does.  The executed chunks have added all they have to,   *)
(* but for NaN, after any number of failed reads, and nothing besides but  *)
(* what a server returned past the end of one of them.                     *)
THEOREM ExecCorrect == ExecSpec => []ExecInv
<1>1. ExecInit => ExecInv
  BY ExecStart
<1>2. ExecInv /\ [ExecNext]_allVars => ExecInv'
  BY ExecStep
<1> QED BY <1>1, <1>2, PTL DEF ExecSpec

(* Every millisecond of the range is in a chunk but for the head and the   *)
(* tail of its block and for what follows a break of the plan.             *)
THEOREM RangeCorrect == ExecSpec => []RangeIsPlanned
<1>1. ExecInit => CoverInv
  BY CoverInit DEF ExecInit
<1>2. ExecInv /\ CoverInv /\ [ExecNext]_allVars => CoverInv'
  <2> SUFFICES ASSUME ExecInv, CoverInv, [ExecNext]_allVars PROVE CoverInv'
    OBVIOUS
  <2>1. [Next]_vars
    BY DEF ExecNext, allVars, Plan, Generate, GenerateFails, Migrate, MigrateFails, ReadFails,
           Written, Ended
  <2> QED BY <2>1, CoverStep DEF ExecInv
<1>3. CoverInv => RangeIsPlanned
  BY DEF CoverInv
<1> QED BY <1>1, <1>2, <1>3, ExecCorrect, PTL DEF ExecSpec

(* A chunk is planned after everything planned before it has ended.        *)
THEOREM OrderCorrect == ExecSpec => ChunksInOrder
<1>1. ExecInv /\ [ExecNext]_allVars
         => [\A c \in chunks' \ chunks : \A d \in chunks : d.end < c.start]_vars
  <2> SUFFICES ASSUME ExecInv, [ExecNext]_allVars,
                      NEW c \in chunks' \ chunks, NEW d \in chunks, ~UNCHANGED vars
               PROVE  d.end < c.start
    OBVIOUS
  <2>1. Next
    BY DEF ExecNext, allVars, Plan, Generate, GenerateFails, Migrate, MigrateFails, ReadFails,
           Written, Ended
  <2>2. PlanChunk
    BY <2>1 DEF Next, DivideByZero, PlanBlock, BreakPlan, EndPlan, EndBlock, Returned, vars
  <2>3. c = [start |-> chunkStart, end |-> chunkEnd]
    BY <2>2 DEF PlanChunk
  <2> QED BY <2>2, <2>3 DEF PlanChunk, ExecInv, PlanInv, LoopInv
<1> QED BY <1>1, ExecCorrect, PTL DEF ExecSpec, ChunksInOrder

(* A written migration has every sample of the planned chunks; only what a *)
(* server returns past the end of a read is added unplanned, or twice.     *)
THEOREM MigrationCorrect == ExecSpec => []MigratedOnceUnlessLate
<1>1. ExecInv => MigratedOnceUnlessLate
  <2> SUFFICES ASSUME ExecInv, task = "migrate" PROVE MigratedOnceUnlessLate
    BY DEF MigratedOnceUnlessLate
  <2>1. /\ \A c : Output(c) = {t \in SampleTimes \ StaleTimes : c.start <= t /\ t <= c.end}
        /\ \A c : Late(c) = {t \in LateTimes \ StaleTimes : t > c.end}
    BY DEF Output, Late
  <2>2. /\ nans = {} /\ repeated \subseteq UNION {Late(c) : c \in chunks}
        /\ added \subseteq UNION {Output(c) \cup Late(c) : c \in chunks}
    BY DEF ExecInv, ProgressInv
  <2>3. \A c \in chunks : c.end \in Int
    BY DEF ExecInv, PlanInv, TypeOK, Chunk
  <2>4. \A t \in SampleTimes : t \in Int
    BY SourceAssumption
  <2>5. repeated \subseteq LateTimes
    BY <2>1, <2>2
  <2>6. ASSUME NEW t \in added
        PROVE  /\ t \in SampleTimes \ StaleTimes
               /\ Planned(t) \/ (t \in LateTimes /\ \E c \in chunks : c.end < t)
    <3>1. PICK c \in chunks : t \in Output(c) \/ t \in Late(c)
      BY <2>2
    <3>2. CASE t \in Output(c)
      BY <2>1, <3>1, <3>2 DEF Planned
    <3>3. CASE t \in Late(c)
      <4>1. t \in LateTimes /\ t \in SampleTimes \ StaleTimes /\ t > c.end
        BY <2>1, <3>3, SourceAssumption
      <4>2. c.end < t
        BY <2>3, <2>4, <4>1
      <4> QED BY <4>1, <4>2
    <3> QED BY <3>1, <3>2, <3>3
  <2>7. ASSUME job = "written", NEW t \in SampleTimes \ StaleTimes, Planned(t)
        PROVE  t \in added
    <3>1. UNION {Output(c) : c \in chunks} \subseteq added
      BY <2>2, <2>7 DEF ExecInv, ProgressInv
    <3>2. PICK c \in chunks : c.start <= t /\ t <= c.end
      BY <2>7 DEF Planned
    <3> QED BY <2>1, <2>7, <3>1, <3>2
  <2> QED BY <2>5, <2>6, <2>7 DEF MigratedOnceUnlessLate
<1> QED BY <1>1, ExecCorrect, PTL

(* A written migration is the source itself on the planned chunks: every   *)
(* sample of them once, and no other.                                      *)
SourceCopied ==
    task = "migrate" =>
        /\ repeated = {}
        /\ job = "written" => added = {t \in SampleTimes \ StaleTimes : Planned(t)}

(* If the server keeps to the end of what it is asked for, a migration     *)
(* copies the source on the planned chunks.                                *)
THEOREM MigrationExact == ExecSpec => [](LateTimes = {} => SourceCopied)
<1>1. MigratedOnceUnlessLate => (LateTimes = {} => SourceCopied)
  <2> SUFFICES ASSUME MigratedOnceUnlessLate, LateTimes = {}, task = "migrate"
               PROVE  /\ repeated = {}
                      /\ job = "written" => added = {t \in SampleTimes \ StaleTimes : Planned(t)}
    BY DEF SourceCopied
  <2>1. /\ repeated \subseteq LateTimes /\ added \subseteq SampleTimes \ StaleTimes
        /\ \A t \in added : Planned(t) \/ t \in LateTimes
        /\ job = "written" => \A t \in SampleTimes \ StaleTimes : Planned(t) => t \in added
    BY DEF MigratedOnceUnlessLate
  <2> QED BY <2>1
<1> QED BY <1>1, MigrationCorrect, PTL

(* Where a chunk has a time, its grid has a sample less than an interval   *)
(* before, or exactly one before its end.                                  *)
LEMMA GridIsDense ==
    ASSUME PlanInv, NEW c \in chunks, c.start < c.end, NEW t \in c.start .. c.end
    PROVE  \E u \in Grid(c) : t - stepDuration <= u /\ u <= t
<1>1. c.start \in Nat /\ c.end \in Int /\ stepDuration \in Nat \ {0}
  <2>1. stepDuration \in Int /\ stepDuration > 0
    BY UnitFacts, InputAssumption, DivFacts DEF PlanInv, TypeOK, LoopInv, stepDuration
  <2> QED BY <2>1 DEF PlanInv, TypeOK, Chunk
<1> DEFINE step == stepDuration
           first == c.start
           last == c.end
           k == (t - first) \div step
           r == (t - first) % step
<1>2. /\ first \in Nat /\ last \in Int /\ step \in Nat \ {0} /\ first < last
      /\ t \in Int /\ first <= t /\ t <= last
  BY <1>1
<1>3. \A u \in first .. last : u < last /\ (u - first) % step = 0 => u \in Grid(c)
  BY DEF Grid
<1> HIDE DEF step, first, last
<1>4. k \in Nat /\ r \in Nat /\ r < step /\ t - first = step * k + r
  BY <1>2, DivFacts
<1> HIDE DEF k, r
<1>5. step * k \in Nat /\ (step * k) % step = 0
  BY <1>2, <1>4, TimesDivisor
<1>6. CASE t < last \/ r > 0
  <2> DEFINE u == t - r
  <2>1. u \in first .. last /\ u < last /\ u - first = step * k
    BY <1>2, <1>4, <1>5, <1>6
  <2>2. u \in Grid(c)
    BY <1>3, <1>5, <2>1
  <2>3. t - step <= u /\ u <= t
    BY <1>2, <1>4
  <2> QED BY <2>2, <2>3 DEF step
<1>7. CASE ~(t < last \/ r > 0)
  <2> DEFINE u == t - step
  <2>1. k # 0
    BY <1>2, <1>4, <1>7
  <2>2. step * k = step * (k - 1) + step /\ step * (k - 1) \in Nat
    BY <1>2, <1>4, <2>1
  <2>3. (step * (k - 1)) % step = 0
    BY <1>2, <1>4, TimesDivisor
  <2>4. u \in first .. last /\ u < last /\ u - first = step * (k - 1)
    BY <1>2, <1>4, <1>7, <2>2
  <2>5. u \in Grid(c)
    BY <1>3, <2>3, <2>4
  <2>6. t - step <= u /\ u <= t
    BY <1>2
  <2> QED BY <2>5, <2>6 DEF step
<1> QED BY <1>6, <1>7

(* A written generation leaves no gap longer than the interval within a    *)
(* chunk but where the expression gave NaN; no sample is written twice.    *)
THEOREM GenerationCorrect == ExecSpec => []OnlyNaNLeavesGaps
<1>1. ExecInv => OnlyNaNLeavesGaps
  <2> SUFFICES ASSUME ExecInv, task = "generate" PROVE OnlyNaNLeavesGaps
    BY DEF OnlyNaNLeavesGaps
  <2>1. repeated = {}
    <3>1. UNION {Late(c) : c \in chunks} = {}
      BY DEF Late
    <3> QED BY <3>1 DEF ExecInv, ProgressInv
  <2>2. added \cap nans = {}
    BY DEF ExecInv, ProgressInv
  <2>3. ASSUME job = "written", NEW c \in chunks, NEW t \in c.start .. c.end,
               c.start < c.end
        PROVE  \E u \in added \cup nans : t - stepDuration <= u /\ u <= t
    <3>1. UNION {Output(d) : d \in chunks} \subseteq added \cup nans
      BY <2>3 DEF ExecInv, ProgressInv
    <3>2. Grid(c) \subseteq added \cup nans
      BY <3>1 DEF Output
    <3> QED BY <2>3, <3>2, GridIsDense DEF ExecInv
  <2> QED BY <2>1, <2>2, <2>3 DEF OnlyNaNLeavesGaps
<1> QED BY <1>1, ExecCorrect, PTL

-----------------------------------------------------------------------------
(* The state of a generator                                                *)

(* The quotient is the one number between two multiples.                   *)
LEMMA Quotient ==
    ASSUME NEW m \in Nat \ {0}, NEW a \in Nat
    PROVE  /\ a \div m \in Nat
           /\ m * (a \div m) <= a
           /\ a < m * ((a \div m) + 1)
OBVIOUS

LEMMA QuotientIs ==
    ASSUME NEW m \in Nat \ {0}, NEW a \in Nat, NEW k \in Nat, m * k <= a, a < m * (k + 1)
    PROVE  a \div m = k
<1> DEFINE q == a \div m
<1>1. q \in Nat /\ m * q <= a /\ a < m * (q + 1)
  BY Quotient
<1> HIDE DEF q
<1>2. \A i, j \in Nat : i < j => m * (i + 1) <= m * j
  <2> SUFFICES ASSUME NEW i \in Nat, NEW j \in Nat, i < j PROVE m * (i + 1) <= m * j
    OBVIOUS
  <2>1. PICK d \in Nat : j = (i + 1) + d
    <3>1. j - (i + 1) \in Nat
      OBVIOUS
    <3> QED BY <3>1
  <2>2. m * j = (m * (i + 1)) + (m * d)
    BY <2>1
  <2>3. m * d \in Nat /\ m * (i + 1) \in Nat
    OBVIOUS
  <2> QED BY <2>2, <2>3
<1>3. ~(q < k) /\ ~(k < q)
  <2>1. q < k => m * (q + 1) <= m * k
    BY <1>1, <1>2
  <2>2. k < q => m * (k + 1) <= m * q
    BY <1>1, <1>2
  <2>3. m * k \in Nat /\ m * q \in Nat /\ m * (k + 1) \in Nat /\ m * (q + 1) \in Nat
    BY <1>1
  <2> QED BY <1>1, <2>1, <2>2, <2>3
<1>4. q = k
  BY <1>1, <1>3
<1> QED BY <1>4 DEF q

LEMMA Products ==
    ASSUME NEW m \in Nat \ {0}, NEW i \in Nat, NEW j \in Nat
    PROVE  /\ m * i \in Nat /\ m * i = i * m /\ m * (i + 1) = (m * i) + m
           /\ i <= j => m * i <= m * j
           /\ m * i < m * j => i < j
<1>1. m * i \in Nat /\ m * i = i * m /\ m * (i + 1) = (m * i) + m
  OBVIOUS
<1>2. ASSUME NEW k \in Nat, NEW l \in Nat, k <= l PROVE m * k <= m * l
  <2>1. PICK d \in Nat : l = k + d
    <3>1. l - k \in Nat /\ l = k + (l - k)
      BY <1>2
    <3> QED BY <3>1
  <2>2. m * l = (m * k) + (m * d) /\ m * k \in Nat /\ m * d \in Nat
    BY <2>1
  <2> QED BY <2>2
<1>3. m * i < m * j => i < j
  <2>1. j <= i => m * j <= m * i
    BY <1>2
  <2>2. m * i \in Nat /\ m * j \in Nat
    OBVIOUS
  <2> QED BY <2>1, <2>2
<1> QED BY <1>1, <1>2, <1>3

(* The samples of a chunk follow each other, and so do the chunks.         *)
LEMMA SampleFacts ==
    /\ \A c \in Chunks : /\ FirstOf(c) \in Samples /\ ChunkOf(FirstOf(c)) = c
                         /\ FirstOf(c) - 1 = LastOf(c - 1)
    /\ \A n \in Samples : /\ ChunkOf(n) \in Chunks /\ n <= LastOf(ChunkOf(n))
                          /\ n # LastOf(ChunkOf(n)) =>
                                n + 1 \in Samples /\ ChunkOf(n + 1) = ChunkOf(n)
    /\ LastOf(0) = 0 /\ \A c \in {0} \cup Chunks : LastOf(c) \in Nat
    /\ \A c \in Chunks : c \in Nat \ {0}
    /\ \A n \in Samples : n \in Nat \ {0}
<1> DEFINE S == SamplesPerChunk
           T == NumBlocks * ChunksPerBlock
<1>1. S \in Nat \ {0} /\ T \in Nat
  BY SizeAssumption, Products
<1>2. Chunks = 1 .. T /\ Samples = 1 .. T * S
  BY DEF Chunks, Samples
<1>3. T * S = S * T /\ S * T \in Nat
  BY <1>1, Products
<1>4. /\ \A c : FirstOf(c) = (c - 1) * S + 1
      /\ \A c : LastOf(c) = c * S
      /\ \A n : ChunkOf(n) = ((n - 1) \div S) + 1
  BY DEF FirstOf, LastOf, ChunkOf
<1> HIDE DEF S, T
<1>5. ASSUME NEW c \in Chunks
      PROVE  /\ FirstOf(c) \in Samples /\ ChunkOf(FirstOf(c)) = c
             /\ FirstOf(c) - 1 = LastOf(c - 1)
  <2>1. PICK k \in Nat : c = k + 1 /\ k + 1 <= T
    <3>1. c - 1 \in Nat /\ c = (c - 1) + 1 /\ c <= T
      BY <1>1, <1>2
    <3> QED BY <3>1
  <2>2. /\ k * S = S * k /\ S * k \in Nat /\ S * (k + 1) = (S * k) + S
        /\ S * (k + 1) <= S * T
    BY <1>1, <2>1, Products
  <2>3. c - 1 = k
    BY <2>1
  <2>4. FirstOf(c) = (S * k) + 1 /\ LastOf(c - 1) = S * k
    BY <1>4, <2>2, <2>3
  <2>5. FirstOf(c) \in Samples
    BY <1>1, <1>2, <1>3, <2>2, <2>4
  <2>6. (S * k) \div S = k
    BY <1>1, <2>2, QuotientIs
  <2>7. FirstOf(c) - 1 = S * k
    BY <2>2, <2>4
  <2>8. ChunkOf(FirstOf(c)) = k + 1
    BY <1>4, <2>6, <2>7
  <2> QED BY <2>1, <2>4, <2>5, <2>7, <2>8
<1>6. ASSUME NEW n \in Samples
      PROVE  /\ ChunkOf(n) \in Chunks /\ n <= LastOf(ChunkOf(n))
             /\ n # LastOf(ChunkOf(n)) => n + 1 \in Samples /\ ChunkOf(n + 1) = ChunkOf(n)
  <2>1. PICK a \in Nat : n = a + 1 /\ a < S * T
    <3>1. n - 1 \in Nat /\ n = (n - 1) + 1 /\ n - 1 < S * T
      BY <1>2, <1>3
    <3> QED BY <3>1
  <2> DEFINE q == a \div S
  <2>2. q \in Nat /\ S * q <= a /\ a < S * (q + 1)
    BY <1>1, Quotient
  <2>3. n - 1 = a
    BY <2>1
  <2>4. ChunkOf(n) = q + 1
    BY <1>4, <2>3
  <2> HIDE DEF q
  <2>5. S * q \in Nat /\ S * (q + 1) = (S * q) + S /\ (q + 1) * S = S * (q + 1)
    BY <1>1, <2>2, Products
  <2>6. q < T
    <3>1. S * q < S * T
      BY <1>3, <2>1, <2>2, <2>5
    <3> QED BY <1>1, <2>2, <3>1, Products
  <2>7. ChunkOf(n) \in Chunks
    BY <1>1, <1>2, <2>2, <2>4, <2>6
  <2>8. LastOf(ChunkOf(n)) = S * (q + 1)
    BY <1>4, <2>4, <2>5
  <2>9. n <= S * (q + 1)
    BY <1>1, <2>1, <2>2, <2>5
  <2>10. ASSUME n # S * (q + 1) PROVE n + 1 \in Samples /\ ChunkOf(n + 1) = q + 1
    <3>1. n < S * (q + 1) /\ S * (q + 1) <= S * T
      <4>1. q + 1 <= T /\ q + 1 \in Nat
        BY <1>1, <2>2, <2>6
      <4>2. S * (q + 1) <= S * T
        BY <1>1, <4>1, Products
      <4>3. S * (q + 1) \in Nat /\ n \in Nat
        BY <1>1, <2>1, <2>5
      <4> QED BY <2>9, <2>10, <4>2, <4>3
    <3>2. n + 1 \in Samples
      BY <1>1, <1>2, <1>3, <2>1, <2>2, <2>5, <3>1
    <3>3. n \div S = q
      BY <1>1, <2>1, <2>2, <2>5, <3>1, QuotientIs
    <3>4. (n + 1) - 1 = n
      BY <2>1
    <3> QED BY <1>4, <3>2, <3>3, <3>4
  <2> QED BY <2>4, <2>7, <2>8, <2>9, <2>10
<1>7. LastOf(0) = 0 /\ \A c \in {0} \cup Chunks : LastOf(c) \in Nat
  <2>1. 0 * S = 0 /\ \A c \in Nat : c * S \in Nat
    BY <1>1, Products
  <2> QED BY <1>1, <1>2, <1>4, <2>1
<1>8. (\A c \in Chunks : c \in Nat \ {0}) /\ (\A n \in Samples : n \in Nat \ {0})
  BY <1>1, <1>2, <1>3
<1> QED BY <1>5, <1>6, <1>7, <1>8

(* A chunk is in the block of the one before or in the next.               *)
LEMMA BlockFacts ==
    /\ \A c \in Nat \ {0} : BlockOf(c) \in Nat /\ BlockOf(c + 1) \in {BlockOf(c), BlockOf(c) + 1}
    /\ BlockOf(1) = 0
    /\ \A c, d \in Nat \ {0} : d <= c => BlockOf(d) <= BlockOf(c)
<1> DEFINE C == ChunksPerBlock
<1>1. C \in Nat \ {0}
  BY SizeAssumption
<1>2. \A c : BlockOf(c) = (c - 1) \div C
  BY DEF BlockOf
<1> HIDE DEF C
<1>3. ASSUME NEW a \in Nat PROVE BlockOf(a + 1) = a \div C
  <2>1. (a + 1) - 1 = a
    OBVIOUS
  <2> QED BY <1>2, <2>1
<1>4. \A c \in Nat \ {0} : c - 1 \in Nat /\ c = (c - 1) + 1
  OBVIOUS
<1>5. ASSUME NEW a \in Nat, NEW b \in Nat, b <= a PROVE b \div C <= a \div C
  <2> DEFINE p == b \div C
             q == a \div C
  <2>1. p \in Nat /\ q \in Nat /\ C * p <= b /\ a < C * (q + 1)
    BY <1>1, Quotient
  <2> HIDE DEF p, q
  <2>2. C * p \in Nat /\ C * (q + 1) \in Nat /\ q + 1 \in Nat
    BY <1>1, <2>1, Products
  <2>3. C * p < C * (q + 1)
    BY <1>5, <2>1, <2>2
  <2>4. p < q + 1
    BY <1>1, <2>1, <2>2, <2>3, Products
  <2>5. p <= q
    BY <2>1, <2>4
  <2> QED BY <2>5 DEF p, q
<1>6. ASSUME NEW a \in Nat PROVE (a + 1) \div C \in {a \div C, (a \div C) + 1}
  <2> DEFINE q == a \div C
  <2>1. q \in Nat /\ C * q <= a /\ a < C * (q + 1)
    BY <1>1, Quotient
  <2>2. (a + 1) \div C \in {q, q + 1}
    <3> HIDE DEF q
    <3>1. /\ C * q \in Nat /\ C * (q + 1) = (C * q) + C
          /\ C * ((q + 1) + 1) = (C * (q + 1)) + C /\ q + 1 \in Nat
      BY <1>1, <2>1, Products
    <3>2. CASE a + 1 < C * (q + 1)
      BY <1>1, <2>1, <3>1, <3>2, QuotientIs
    <3>3. CASE ~(a + 1 < C * (q + 1))
      <4>1. C * (q + 1) <= a + 1 /\ a + 1 < C * ((q + 1) + 1)
        BY <1>1, <2>1, <3>1, <3>3
      <4> QED BY <1>1, <3>1, <4>1, QuotientIs
    <3> QED BY <3>2, <3>3
  <2> QED BY <2>2 DEF q
<1>7. ASSUME NEW c \in Nat \ {0}
      PROVE  BlockOf(c) \in Nat /\ BlockOf(c + 1) \in {BlockOf(c), BlockOf(c) + 1}
  <2>1. PICK a \in Nat : c = a + 1
    BY <1>4
  <2>2. a \div C \in Nat
    BY <1>1, Quotient
  <2>3. BlockOf(c + 1) = (a + 1) \div C
    BY <1>3, <2>1
  <2> QED BY <1>3, <1>6, <2>1, <2>2, <2>3
<1>8. BlockOf(1) = 0
  <2>1. 0 \div C = 0
    <3>1. C * 0 = 0 /\ C * (0 + 1) = C
      BY <1>1
    <3> QED BY <1>1, <3>1, QuotientIs
  <2> QED BY <1>2, <2>1
<1>9. ASSUME NEW c \in Nat \ {0}, NEW d \in Nat \ {0}, d <= c PROVE BlockOf(d) <= BlockOf(c)
  <2>1. BlockOf(d) = (d - 1) \div C /\ BlockOf(c) = (c - 1) \div C /\ d - 1 <= c - 1
    BY <1>2, <1>9
  <2> QED BY <1>4, <1>5, <2>1
<1> QED BY <1>7, <1>8, <1>9

LEMMA Ranges ==
    /\ \A c \in Chunks : \A d \in 1 .. c : d \in Chunks
    /\ IsFiniteSet(Samples) /\ IsFiniteSet(Consumers)
<1> DEFINE T == NumBlocks * ChunksPerBlock
<1>1. T \in Nat /\ T * SamplesPerChunk \in Nat
  BY SizeAssumption, Products
<1>2. Chunks = 1 .. T /\ Samples = 1 .. T * SamplesPerChunk
  BY DEF Chunks, Samples
<1> HIDE DEF T
<1>3. \A c \in Chunks : \A d \in 1 .. c : d \in Chunks
  BY <1>1, <1>2
<1>4. IsFiniteSet(Samples)
  BY <1>1, <1>2, FS_Interval
<1> QED BY <1>3, <1>4, SizeAssumption

-----------------------------------------------------------------------------
Step(c) ==
    \/ Take(c) \/ SetTimestamp(c) \/ Evaluate(c) \/ EvaluateFails(c)
    \/ SetLast(c) \/ LoadIndex(c) \/ StoreIndex(c) \/ AddFails(c)

LEMMA InitInv == StateInit => StateInv
<1> SUFFICES ASSUME StateInit PROVE StateInv
  OBVIOUS
<1>1. StateTypeOK
  BY DEF StateInit, StateTypeOK
<1>2. Evaluated = {} /\ Uncounted = {} /\ executed = {} /\ next = 1
  BY DEF StateInit, Evaluated, Uncounted
<1>3. LastFromNearbyBlock /\ SequentialIfAlone
  BY <1>2 DEF LastFromNearbyBlock, SequentialIfAlone
<1>4. IndexNotAhead /\ CountInv
  <2>1. Cardinality({}) = 0
    BY FS_EmptySet
  <2> QED BY <1>2, <2>1 DEF StateInit, IndexNotAhead, CountInv
<1>5. ChunkInv
  BY <1>2 DEF StateInit, ChunkInv
<1>6. LastInv
  BY <1>2, BlockFacts DEF StateInit, LastInv, Reached
<1>7. AloneInv
  <2>1. LastOf(next - 1) = 0
    BY <1>2, SampleFacts
  <2> QED BY <2>1 DEF StateInit, AloneInv
<1> QED BY <1>1, <1>3, <1>4, <1>5, <1>6, <1>7 DEF StateInv

LEMMA TypeStep == ASSUME StateInv, NEW c \in workers, Step(c) PROVE StateTypeOK'
<1>0. StateTypeOK /\ ChunkInv /\ c \in Consumers
  BY DEF StateInv, StateTypeOK
<1>1. CASE Take(c)
  <2>1. FirstOf(next) \in Samples
    BY <1>1, SampleFacts DEF Take
  <2> QED BY <1>0, <1>1, <2>1 DEF Take, From, Goes, StateTypeOK, shared
<1>2. CASE SetTimestamp(c)
  <2>1. sample[c] \in Samples
    BY <1>0, <1>2 DEF SetTimestamp, From, ChunkInv
  <2>2. FirstOf(ChunkOf(sample[c])) \in Nat
    BY <2>1, SampleFacts
  <2> QED BY <1>0, <1>2, <2>2 DEF SetTimestamp, From, Goes, StateTypeOK
<1>3. CASE Evaluate(c)
  <2>1. [index |-> Index, timestamp |-> Timestamp, last |-> Last] \in View
    BY <1>0 DEF StateTypeOK, View
  <2>2. seen' \in [Samples -> View \cup {NotSeen}]
    BY <1>0, <1>3, <2>1 DEF Evaluate, StateTypeOK
  <2> QED BY <1>0, <1>3, <2>2 DEF Evaluate, From, Goes, StateTypeOK, shared
<1>4. CASE SetLast(c)
  <2>1. sample[c] \in Nat
    BY <1>0, <1>4, SampleFacts DEF SetLast, From, ChunkInv
  <2> QED BY <1>0, <1>4, <2>1 DEF SetLast, From, Goes, StateTypeOK
<1>5. CASE LoadIndex(c) \/ EvaluateFails(c)
  BY <1>0, <1>5 DEF LoadIndex, EvaluateFails, From, Goes, StateTypeOK, shared
<1>6. CASE StoreIndex(c)
  <2>1. sample[c] \in Samples
    BY <1>0, <1>6 DEF StoreIndex, From, ChunkInv
  <2>2. /\ ChunkOf(sample[c]) \in Chunks
        /\ sample[c] # LastOf(ChunkOf(sample[c])) => sample[c] + 1 \in Samples
    BY <2>1, SampleFacts
  <2>3. sample' \in [Consumers -> {0} \cup Samples] /\ executed' \subseteq Chunks
    BY <1>0, <1>6, <2>2 DEF StoreIndex, StateTypeOK
  <2> QED BY <1>0, <1>6, <2>3 DEF StoreIndex, From, Goes, StateTypeOK
<1>7. CASE AddFails(c)
  BY <1>0, <1>7 DEF AddFails, From, Goes, StateTypeOK
<1> QED BY <1>1, <1>2, <1>3, <1>4, <1>5, <1>6, <1>7 DEF Step

(* Evaluate marks its sample, and nothing else does.                       *)
LEMMA Marked ==
    ASSUME StateTypeOK, NEW c \in Consumers, Step(c)
    PROVE  /\ Evaluate(c) => /\ Evaluated' \subseteq Evaluated \cup {sample[c]}
                             /\ sample[c] \in Samples => Evaluated' = Evaluated \cup {sample[c]}
           /\ ~Evaluate(c) => seen' = seen /\ Evaluated' = Evaluated
<1>1. CASE Evaluate(c)
  <2>1. [index |-> Index, timestamp |-> Timestamp, last |-> Last] # NotSeen
    BY DEF StateTypeOK, NotSeen
  <2> QED BY <1>1, <2>1 DEF Evaluate, Evaluated, StateTypeOK
<1>2. CASE ~Evaluate(c)
  BY <1>2 DEF Step, Take, SetTimestamp, SetLast, LoadIndex, StoreIndex, EvaluateFails, AddFails,
              Evaluated
<1> QED BY <1>1, <1>2

-----------------------------------------------------------------------------
LEMMA ChunkStep == ASSUME StateInv, NEW c \in workers, Step(c) PROVE ChunkInv'
<1>0. StateTypeOK /\ ChunkInv /\ c \in Consumers
  BY DEF StateInv, StateTypeOK
<1>1. CASE Take(c)
  <2>1. /\ next \in Chunks /\ BlockReached(next) /\ next' = next + 1 /\ at[c] = "idle"
        /\ sample' = [sample EXCEPT ![c] = FirstOf(next)]
        /\ at' = [at EXCEPT ![c] = "stamp"]
        /\ UNCHANGED <<workers, executed, seen>>
    BY <1>1 DEF Take, From, Goes
  <2>2. /\ sample'[c] = FirstOf(next) /\ at'[c] = "stamp"
        /\ \A x \in Consumers \ {c} : sample'[x] = sample[x] /\ at'[x] = at[x]
    BY <1>0, <2>1 DEF StateTypeOK
  <2>3. FirstOf(next) \in Samples /\ ChunkOf(FirstOf(next)) = next /\ next \in Nat \ {0}
    BY <2>1, SampleFacts
  <2>4. Evaluated' = Evaluated
    BY <2>1 DEF Evaluated
  <2>5. Reached' = BlockOf(next)
    <3>1. next + 1 # 1 /\ (next + 1) - 1 = next
      BY <2>3
    <3> QED BY <2>1, <3>1 DEF Reached
  <2>6. executed' \subseteq 1 .. next' - 1 /\ next' - 1 \in {0} \cup Chunks
    BY <1>0, <2>1, <2>3 DEF ChunkInv
  <2>7. ASSUME NEW d \in 1 .. next' - 1 PROVE d \in executed' \/ BlockOf(d) = Reached'
    <3>1. d \in 1 .. next
      BY <2>1, <2>3, <2>7
    <3>2. d \in Chunks /\ d \in Nat \ {0} /\ BlockOf(d) <= BlockOf(next)
      BY <2>1, <2>3, <3>1, Ranges, BlockFacts
    <3>3. BlockOf(d) < BlockOf(next) \/ BlockOf(d) = BlockOf(next)
      BY <2>3, <3>2, BlockFacts
    <3> QED BY <2>1, <2>5, <3>2, <3>3 DEF BlockReached
  <2>8. \A n \in Evaluated' : ChunkOf(n) < next'
    <3>1. \A n \in Evaluated : ChunkOf(n) < next /\ ChunkOf(n) \in Nat
      BY <1>0, SampleFacts DEF ChunkInv, Evaluated
    <3> QED BY <2>1, <2>3, <2>4, <3>1
  <2>9. \A n \in Evaluated : ChunkOf(n) # next
    BY <1>0, <2>3 DEF ChunkInv
  <2>10. \A x \in Consumers : at[x] # "idle" => ChunkOf(sample[x]) # next
    BY <1>0, <2>3 DEF ChunkInv
  <2>11. next \in (1 .. next' - 1) \ executed'
    BY <1>0, <2>1, <2>3 DEF ChunkInv
  <2>12. \A x \in Consumers \ {c} : at[x] # "idle" =>
            ChunkOf(sample[x]) \in (1 .. next' - 1) \ executed'
    BY <1>0, <2>1, <2>3 DEF ChunkInv
  <2>13. ASSUME NEW x \in Consumers, at'[x] # "idle"
         PROVE  /\ x \in workers' /\ sample'[x] \in Samples
                /\ ChunkOf(sample'[x]) \in (1 .. next' - 1) \ executed'
                /\ \A d \in Consumers \ {x} :
                      at'[d] # "idle" => ChunkOf(sample'[d]) # ChunkOf(sample'[x])
                /\ \A n \in Evaluated' :
                      ChunkOf(n) = ChunkOf(sample'[x]) =>
                          \/ n < sample'[x]
                          \/ n = sample'[x] /\ at'[x] \notin {"stamp", "eval"}
    <3>1. CASE x = c
      BY <2>1, <2>2, <2>3, <2>4, <2>9, <2>10, <2>11, <3>1
    <3>2. CASE x # c
      BY <1>0, <2>1, <2>2, <2>3, <2>4, <2>10, <2>12, <2>13, <3>2 DEF ChunkInv
    <3> QED BY <3>1, <3>2
  <2> QED BY <2>6, <2>7, <2>8, <2>13 DEF ChunkInv
<1>2. CASE SetTimestamp(c) \/ SetLast(c) \/ LoadIndex(c) \/ EvaluateFails(c) \/ AddFails(c)
  <2>1. /\ UNCHANGED <<workers, next, executed, sample, seen>> /\ at[c] # "idle"
        /\ \A x \in Consumers \ {c} : at'[x] = at[x]
        /\ at'[c] # "idle" /\ (at[c] \notin {"stamp", "eval"} => at'[c] \notin {"stamp", "eval"})
    BY <1>0, <1>2 DEF SetTimestamp, SetLast, LoadIndex, EvaluateFails, AddFails, From, Goes,
                      StateTypeOK
  <2>2. Evaluated' = Evaluated /\ Reached' = Reached
    BY <2>1 DEF Evaluated, Reached
  <2> QED BY <1>0, <2>1, <2>2 DEF ChunkInv
<1>3. CASE Evaluate(c)
  <2>1. /\ UNCHANGED <<workers, next, executed, sample>> /\ at[c] = "eval"
        /\ \A x \in Consumers \ {c} : at'[x] = at[x]
        /\ at'[c] = "last"
    BY <1>0, <1>3 DEF Evaluate, From, Goes, StateTypeOK
  <2>2. Evaluated' \subseteq Evaluated \cup {sample[c]} /\ Reached' = Reached
    BY <1>0, <1>3, <2>1, Marked DEF Step, Reached
  <2>3. ChunkOf(sample[c]) < next
    <3>1. ChunkOf(sample[c]) \in 1 .. next - 1
      BY <1>0, <2>1 DEF ChunkInv
    <3> QED BY <1>0, <3>1 DEF StateTypeOK
  <2> QED BY <1>0, <2>1, <2>2, <2>3 DEF ChunkInv
<1>4. CASE StoreIndex(c)
  <2>1. UNCHANGED <<workers, next, seen>> /\ at[c] = "store"
    BY <1>4 DEF StoreIndex, From
  <2>2. Evaluated' = Evaluated /\ Reached' = Reached
    BY <2>1 DEF Evaluated, Reached
  <2>3. sample[c] \in Samples /\ ChunkOf(sample[c]) \in 1 .. next - 1
    BY <1>0, <2>1 DEF ChunkInv
  <2>4. CASE sample[c] = LastOf(ChunkOf(sample[c]))
    <3>1. /\ \A x \in Consumers \ {c} : at'[x] = at[x]
          /\ at'[c] = "idle" /\ sample' = sample
          /\ executed' = executed \cup {ChunkOf(sample[c])}
      BY <1>0, <1>4, <2>4 DEF StoreIndex, Goes, StateTypeOK
    <3> QED BY <1>0, <2>1, <2>2, <2>3, <3>1 DEF ChunkInv
  <2>5. CASE sample[c] # LastOf(ChunkOf(sample[c]))
    <3>1. /\ \A x \in Consumers \ {c} : at'[x] = at[x] /\ sample'[x] = sample[x]
          /\ at'[c] = "stamp" /\ sample'[c] = sample[c] + 1 /\ executed' = executed
      BY <1>0, <1>4, <2>5 DEF StoreIndex, Goes, StateTypeOK
    <3>2. sample[c] + 1 \in Samples /\ ChunkOf(sample[c] + 1) = ChunkOf(sample[c])
      BY <2>3, <2>5, SampleFacts
    <3>3. \A n \in Evaluated : ChunkOf(n) = ChunkOf(sample[c]) => n < sample[c] + 1
      <4>1. \A n \in Evaluated : n \in Nat
        BY SampleFacts DEF Evaluated
      <4>2. sample[c] \in Nat
        BY <2>3, SampleFacts
      <4> QED BY <1>0, <2>1, <4>1, <4>2 DEF ChunkInv
    <3>4. ASSUME NEW x \in Consumers, at'[x] # "idle"
          PROVE  /\ x \in workers' /\ sample'[x] \in Samples
                 /\ ChunkOf(sample'[x]) = ChunkOf(sample[x]) /\ at[x] # "idle"
      BY <1>0, <2>1, <3>1, <3>2, <3>4 DEF ChunkInv
    <3>5. ASSUME NEW x \in Consumers, at'[x] # "idle", NEW n \in Evaluated',
                 ChunkOf(n) = ChunkOf(sample'[x])
          PROVE  n < sample'[x] \/ (n = sample'[x] /\ at'[x] \notin {"stamp", "eval"})
      BY <1>0, <2>2, <3>1, <3>3, <3>4, <3>5 DEF ChunkInv
    <3> QED BY <1>0, <2>1, <2>2, <3>1, <3>4, <3>5 DEF ChunkInv
  <2> QED BY <2>4, <2>5
<1> QED BY <1>1, <1>2, <1>3, <1>4 DEF Step

-----------------------------------------------------------------------------
(* Who is at work, works on a chunk of the block reached.                  *)
LEMMA AtWork ==
    ASSUME StateTypeOK, ChunkInv, NEW c \in Consumers, at[c] # "idle"
    PROVE  /\ sample[c] \in Samples /\ sample[c] \in Nat
           /\ BlockOf(ChunkOf(sample[c])) = Reached
<1>1. sample[c] \in Samples /\ ChunkOf(sample[c]) \in (1 .. next - 1) \ executed
  BY DEF ChunkInv
<1> QED BY <1>1, SampleFacts DEF ChunkInv

LEMMA LastStep == ASSUME StateInv, NEW c \in workers, Step(c) PROVE LastInv'
<1>0. StateTypeOK /\ ChunkInv /\ LastInv /\ c \in Consumers
  BY DEF StateInv, StateTypeOK
<1>1. CASE Take(c)
  <2>1. /\ next \in Chunks /\ BlockReached(next) /\ next' = next + 1
        /\ UNCHANGED <<Last, executed>>
        /\ \A x \in Consumers : at'[x] \in {"load", "store"} => at[x] \in {"load", "store"}
    BY <1>0, <1>1 DEF Take, From, Goes, StateTypeOK, shared
  <2>2. next \in Nat \ {0}
    BY <1>0 DEF StateTypeOK
  <2>3. Reached' = BlockOf(next)
    <3>1. next + 1 # 1 /\ (next + 1) - 1 = next
      BY <2>2
    <3> QED BY <2>1, <3>1 DEF Reached
  <2>4. CASE Reached' = Reached
    BY <1>0, <2>1, <2>4 DEF LastInv
  <2>5. CASE Reached' # Reached
    <3>1. next # 1 /\ next - 1 \in Nat \ {0} /\ Reached = BlockOf(next - 1)
      BY <2>2, <2>3, <2>5 DEF Reached
    <3>2. Reached \in Nat /\ Reached' = Reached + 1
      <4>1. (next - 1) + 1 = next
        BY <2>2
      <4> QED BY <2>3, <2>5, <3>1, <4>1, BlockFacts
    <3>3. \A d \in 1 .. next - 1 : d \in Chunks /\ BlockOf(d) <= Reached /\ BlockOf(d) \in Nat
      <4>1. ASSUME NEW d \in 1 .. next - 1 PROVE d \in 1 .. next /\ d \in Nat \ {0} /\ d <= next - 1
        BY <2>2
      <4> QED BY <2>1, <3>1, <4>1, Ranges, BlockFacts
    <3>4. \A d \in 1 .. next - 1 : d \in executed /\ BlockOf(d) # Reached'
      BY <2>1, <2>3, <3>2, <3>3 DEF BlockReached
    <3>5. next - 1 \in executed
      <4>1. next - 1 \in 1 .. next - 1
        BY <2>2, <3>1
      <4> QED BY <3>4, <4>1
    <3>6. Last # 0 /\ BlockOf(ChunkOf(Last)) = Reached
      BY <1>0, <3>1, <3>5 DEF LastInv
    <3>7. \A d \in executed : BlockOf(d) # Reached'
      BY <1>0, <3>4 DEF ChunkInv
    <3>8. \A x \in Consumers : at[x] = "idle"
      BY <1>0, <3>4 DEF ChunkInv
    <3>9. Reached' - 1 = Reached
      BY <3>2
    <3> QED BY <1>0, <2>1, <3>6, <3>7, <3>8, <3>9 DEF LastInv
  <2> QED BY <2>4, <2>5
<1>2. CASE SetLast(c)
  <2>1. Last' = sample[c] /\ at[c] = "last" /\ UNCHANGED <<next, executed>>
    BY <1>2 DEF SetLast, From
  <2>2. sample[c] \in Samples /\ sample[c] # 0 /\ BlockOf(ChunkOf(sample[c])) = Reached
    BY <1>0, <2>1, AtWork, SampleFacts
  <2>3. Reached' = Reached
    BY <2>1 DEF Reached
  <2> QED BY <2>1, <2>2, <2>3 DEF LastInv
<1>3. CASE SetTimestamp(c) \/ Evaluate(c) \/ LoadIndex(c) \/ EvaluateFails(c) \/ AddFails(c)
  <2>1. /\ UNCHANGED <<Last, next, executed>>
        /\ \A x \in Consumers : at'[x] \in {"load", "store"} => at[x] \in {"load", "store"}
    BY <1>0, <1>3 DEF SetTimestamp, Evaluate, LoadIndex, EvaluateFails, AddFails, From, Goes,
                      StateTypeOK, shared
  <2>2. Reached' = Reached
    BY <2>1 DEF Reached
  <2> QED BY <1>0, <2>1, <2>2 DEF LastInv
<1>4. CASE StoreIndex(c)
  <2>1. /\ UNCHANGED <<Last, next>> /\ executed' \subseteq executed \cup {ChunkOf(sample[c])}
        /\ at[c] = "store"
        /\ \A x \in Consumers : at'[x] \in {"load", "store"} => at[x] \in {"load", "store"}
    BY <1>0, <1>4 DEF StoreIndex, From, Goes, StateTypeOK
  <2>2. Reached' = Reached
    BY <2>1 DEF Reached
  <2> QED BY <1>0, <2>1, <2>2 DEF LastInv
<1> QED BY <1>1, <1>2, <1>3, <1>4 DEF Step

LEMMA SeenStep ==
    ASSUME StateInv, NEW c \in workers, Step(c)
    PROVE  LastFromNearbyBlock' /\ SequentialIfAlone'
<1>0. /\ StateTypeOK /\ ChunkInv /\ LastInv /\ AloneInv /\ c \in Consumers
      /\ LastFromNearbyBlock /\ SequentialIfAlone
  BY DEF StateInv, StateTypeOK
<1>1. workers' = workers
  BY DEF Step, Take, SetTimestamp, Evaluate, SetLast, LoadIndex, StoreIndex, EvaluateFails,
         AddFails
<1>2. CASE Evaluate(c)
  <2>1. at[c] = "eval"
    BY <1>2 DEF Evaluate, From
  <2>2. sample[c] \in Samples /\ BlockOf(ChunkOf(sample[c])) = Reached
    BY <1>0, <2>1, AtWork
  <2>3. /\ seen'[sample[c]] = [index |-> Index, timestamp |-> Timestamp, last |-> Last]
        /\ \A n \in Samples \ {sample[c]} : seen'[n] = seen[n]
    BY <1>0, <1>2, <2>2 DEF Evaluate, StateTypeOK
  <2>4. Evaluated' = Evaluated \cup {sample[c]}
    BY <1>0, <1>2, <2>2, Marked DEF Step
  <2>5. \A n \in Evaluated : n \in Samples
    BY DEF Evaluated
  <2>6. LastFromNearbyBlock'
    <3>1. seen'[sample[c]].last = Last
      BY <2>3
    <3>2. ASSUME NEW n \in Evaluated'
          PROVE  IF seen'[n].last = 0 THEN BlockOf(ChunkOf(n)) = 0
                 ELSE BlockOf(ChunkOf(seen'[n].last)) \in {BlockOf(ChunkOf(n)) - 1, BlockOf(ChunkOf(n))}
      <4>1. CASE n = sample[c]
        BY <1>0, <2>2, <3>1, <4>1 DEF LastInv
      <4>2. CASE n # sample[c]
        BY <1>0, <2>3, <2>4, <2>5, <4>2 DEF LastFromNearbyBlock
      <4> QED BY <4>1, <4>2
    <3> QED BY <3>2 DEF LastFromNearbyBlock
  <2>7. SequentialIfAlone'
    <3> SUFFICES ASSUME Cardinality(workers) = 1, NEW n \in Evaluated'
                 PROVE  seen'[n].index = n - 1 /\ seen'[n].last = n - 1
      BY <1>1 DEF SequentialIfAlone
    <3>1. CASE n = sample[c]
      <4>1. IsFiniteSet(workers)
        BY <1>0, Ranges, FS_Subset DEF StateTypeOK
      <4>2. workers = {c}
        BY <4>1, FS_Singleton
      <4>3. Index = sample[c] - 1 /\ Last = sample[c] - 1
        BY <1>0, <2>1, <4>2 DEF AloneInv
      <4> QED BY <2>3, <3>1, <4>3
    <3>2. CASE n # sample[c]
      BY <1>0, <2>3, <2>4, <2>5, <3>2 DEF SequentialIfAlone
    <3> QED BY <3>1, <3>2
  <2> QED BY <2>6, <2>7
<1>3. CASE ~Evaluate(c)
  <2>1. seen' = seen /\ Evaluated' = Evaluated
    BY <1>0, <1>3, Marked
  <2> QED BY <1>0, <1>1, <2>1 DEF LastFromNearbyBlock, SequentialIfAlone
<1> QED BY <1>2, <1>3

-----------------------------------------------------------------------------
LEMMA CountStep ==
    ASSUME StateInv, NEW c \in workers, Step(c) PROVE CountInv' /\ IndexNotAhead'
<1>0. StateTypeOK /\ ChunkInv /\ CountInv /\ IndexNotAhead /\ c \in Consumers
  BY DEF StateInv, StateTypeOK
<1>1. /\ IsFiniteSet(Uncounted) /\ IsFiniteSet(Evaluated)
      /\ IsFiniteSet(Uncounted') /\ IsFiniteSet(Evaluated')
  <2>1. /\ Uncounted \subseteq Consumers /\ Uncounted' \subseteq Consumers
        /\ Evaluated \subseteq Samples /\ Evaluated' \subseteq Samples
    BY DEF Uncounted, Evaluated
  <2> QED BY <2>1, Ranges, FS_Subset
<1>2. /\ Cardinality(Uncounted) \in Nat /\ Cardinality(Evaluated) \in Nat
      /\ Cardinality(Uncounted') \in Nat /\ Cardinality(Evaluated') \in Nat
  BY <1>1, FS_CardinalityType
<1>3. Index' \in Nat /\ (\A x \in Consumers : loaded[x] \in Nat) /\ Index \in Nat
  BY <1>0, TypeStep DEF StateTypeOK
<1>4. CountInv' => IndexNotAhead'
  BY <1>2, <1>3 DEF CountInv, IndexNotAhead
<1>5. CASE Evaluate(c)
  <2>1. /\ at[c] = "eval" /\ UNCHANGED <<Index, loaded>> /\ at'[c] = "last"
        /\ \A x \in Consumers \ {c} : at'[x] = at[x]
    BY <1>0, <1>5 DEF Evaluate, From, Goes, StateTypeOK, shared
  <2>2. Uncounted' = Uncounted \cup {c} /\ c \notin Uncounted
    BY <1>0, <2>1 DEF Uncounted
  <2>3. Evaluated' = Evaluated \cup {sample[c]} /\ sample[c] \notin Evaluated
    <3>1. sample[c] \in Samples /\ ~(sample[c] < sample[c])
      BY <1>0, <2>1, AtWork
    <3> QED BY <1>0, <1>5, <2>1, <3>1, Marked DEF Step, ChunkInv
  <2>4. /\ Cardinality(Uncounted') = Cardinality(Uncounted) + 1
        /\ Cardinality(Evaluated') = Cardinality(Evaluated) + 1
    BY <1>1, <2>2, <2>3, FS_AddElement
  <2>5. \A x \in Consumers : at'[x] = "store" => at[x] = "store"
    BY <2>1
  <2> QED BY <1>0, <1>2, <1>3, <1>4, <2>1, <2>4, <2>5 DEF CountInv
<1>6. CASE StoreIndex(c) \/ AddFails(c)
  <2>1. /\ at[c] = "store" /\ Index' = loaded[c] + 1 /\ loaded' = loaded
        /\ at'[c] \notin {"last", "load", "store"}
        /\ \A x \in Consumers \ {c} : at'[x] = at[x]
    BY <1>0, <1>6 DEF StoreIndex, AddFails, From, Goes, StateTypeOK
  <2>2. Uncounted' = Uncounted \ {c} /\ c \in Uncounted
    BY <1>0, <2>1 DEF Uncounted
  <2>3. Cardinality(Uncounted') = Cardinality(Uncounted) - 1
    BY <1>1, <2>2, FS_RemoveElement
  <2>4. Evaluated' = Evaluated
    BY <1>6 DEF StoreIndex, AddFails, Evaluated
  <2>5. loaded[c] + Cardinality(Uncounted) <= Cardinality(Evaluated)
    BY <1>0, <2>1 DEF CountInv
  <2>6. \A x \in Consumers : at'[x] = "store" => at[x] = "store"
    BY <2>1
  <2> QED BY <1>0, <1>2, <1>3, <1>4, <2>1, <2>3, <2>4, <2>5, <2>6 DEF CountInv
<1>7. CASE Take(c) \/ SetTimestamp(c) \/ SetLast(c) \/ LoadIndex(c) \/ EvaluateFails(c)
  <2>1. /\ Index' = Index /\ seen' = seen
        /\ \A x \in Consumers : at'[x] \in {"last", "load", "store"} <=> at[x] \in {"last", "load", "store"}
        /\ \A x \in Consumers : at'[x] = "store" =>
              \/ at[x] = "store" /\ loaded'[x] = loaded[x]
              \/ loaded'[x] = Index
    BY <1>0, <1>7 DEF Take, SetTimestamp, SetLast, LoadIndex, EvaluateFails, From, Goes, StateTypeOK,
                      shared
  <2>2. Uncounted' = Uncounted /\ Evaluated' = Evaluated
    BY <2>1 DEF Uncounted, Evaluated
  <2> QED BY <1>0, <1>2, <1>3, <1>4, <2>1, <2>2 DEF CountInv
<1> QED BY <1>4, <1>5, <1>6, <1>7 DEF Step

LEMMA AloneStep == ASSUME StateInv, NEW c \in workers, Step(c) PROVE AloneInv'
<1>0. StateTypeOK /\ ChunkInv /\ AloneInv /\ c \in Consumers
  BY DEF StateInv, StateTypeOK
<1>1. workers' = workers
  BY DEF Step, Take, SetTimestamp, Evaluate, SetLast, LoadIndex, StoreIndex, EvaluateFails,
         AddFails
<1> SUFFICES ASSUME workers = {c}
             PROVE  /\ at'[c] = "idle" => Index' = LastOf(next' - 1) /\ Last' = LastOf(next' - 1)
                    /\ at'[c] # "idle" => ChunkOf(sample'[c]) = next' - 1
                    /\ at'[c] \in {"stamp", "eval", "last", "load"} => Index' = sample'[c] - 1
                    /\ at'[c] \in {"stamp", "eval"} => Last' = sample'[c] - 1
                    /\ at'[c] \in {"load", "store"} => Last' = sample'[c]
                    /\ at'[c] = "store" => loaded'[c] = sample'[c] - 1
  BY <1>1 DEF AloneInv
<1>2. /\ at[c] = "idle" => Index = LastOf(next - 1) /\ Last = LastOf(next - 1)
      /\ at[c] # "idle" => ChunkOf(sample[c]) = next - 1
      /\ at[c] \in {"stamp", "eval", "last", "load"} => Index = sample[c] - 1
      /\ at[c] \in {"stamp", "eval"} => Last = sample[c] - 1
      /\ at[c] \in {"load", "store"} => Last = sample[c]
      /\ at[c] = "store" => loaded[c] = sample[c] - 1
  BY <1>0 DEF AloneInv
<1>3. CASE Take(c)
  <2>1. /\ next \in Chunks /\ next' = next + 1 /\ at[c] = "idle" /\ at'[c] = "stamp"
        /\ sample'[c] = FirstOf(next) /\ UNCHANGED <<Index, Last>>
    BY <1>0, <1>3 DEF Take, From, Goes, StateTypeOK, shared
  <2>2. ChunkOf(FirstOf(next)) = next /\ FirstOf(next) - 1 = LastOf(next - 1)
    BY <2>1, SampleFacts
  <2>3. next' - 1 = next
    BY <1>0, <2>1 DEF StateTypeOK
  <2> QED BY <1>2, <2>1, <2>2, <2>3
<1>4. CASE StoreIndex(c)
  <2>1. at[c] = "store" /\ Index' = loaded[c] + 1 /\ UNCHANGED <<Last, next>>
    BY <1>4 DEF StoreIndex, From
  <2>2. sample[c] \in Nat
    BY <1>0, <2>1, AtWork
  <2>3. Index' = sample[c] /\ Last' = sample[c] /\ ChunkOf(sample[c]) = next - 1
    BY <1>2, <2>1, <2>2
  <2>4. CASE sample[c] = LastOf(ChunkOf(sample[c]))
    <3>1. at'[c] = "idle"
      BY <1>0, <1>4, <2>4 DEF StoreIndex, Goes, StateTypeOK
    <3> QED BY <2>1, <2>3, <2>4, <3>1
  <2>5. CASE sample[c] # LastOf(ChunkOf(sample[c]))
    <3>1. at'[c] = "stamp" /\ sample'[c] = sample[c] + 1
      BY <1>0, <1>4, <2>5 DEF StoreIndex, Goes, StateTypeOK
    <3>2. ChunkOf(sample[c] + 1) = ChunkOf(sample[c])
      BY <1>0, <2>1, <2>5, AtWork, SampleFacts
    <3>3. sample'[c] - 1 = sample[c]
      BY <2>2, <3>1
    <3> QED BY <2>1, <2>3, <3>1, <3>2, <3>3
  <2> QED BY <2>4, <2>5
<1>5. CASE SetTimestamp(c) \/ Evaluate(c) \/ SetLast(c) \/ LoadIndex(c)
  BY <1>0, <1>2, <1>5 DEF SetTimestamp, Evaluate, SetLast, LoadIndex, From, Goes, StateTypeOK, shared
<1>6. CASE EvaluateFails(c) \/ AddFails(c)
  BY <1>0, <1>2, <1>6 DEF EvaluateFails, AddFails, From, Goes, StateTypeOK
<1> QED BY <1>3, <1>4, <1>5, <1>6 DEF Step

-----------------------------------------------------------------------------
LEMMA InvStep == StateInv /\ [StateNext]_stateVars => StateInv'
<1>1. ASSUME StateInv, NEW c \in workers, Step(c) PROVE StateInv'
  BY <1>1, TypeStep, ChunkStep, LastStep, SeenStep, CountStep, AloneStep DEF StateInv
<1>2. ASSUME StateInv, UNCHANGED stateVars PROVE StateInv'
  <2>1. UNCHANGED <<workers, Index, Timestamp, Last, next, executed, at, sample, loaded, seen>>
    BY <1>2 DEF stateVars, shared
  <2>2. Evaluated' = Evaluated /\ Uncounted' = Uncounted /\ Reached' = Reached
    BY <2>1 DEF Evaluated, Uncounted, Reached
  <2> QED BY <1>2, <2>1, <2>2 DEF StateInv, StateTypeOK, LastFromNearbyBlock, IndexNotAhead,
             SequentialIfAlone, ChunkInv, LastInv, CountInv, AloneInv
<1> QED BY <1>1, <1>2 DEF StateNext, Step, Finished

(* Whatever consumers, blocks and chunks there are: a sample sees as Last  *)
(* a value of its own block or of the one before, Index is never ahead of  *)
(* the samples evaluated, and one consumer alone sees exactly the number   *)
(* of samples before and the value of the previous one.                    *)
THEOREM StateCorrect == StateSpec => []StateInv
<1>1. StateInit => StateInv
  BY InitInv
<1>2. StateInv /\ [StateNext]_stateVars => StateInv'
  BY InvStep
<1> QED BY <1>1, <1>2, PTL DEF StateSpec
=============================================================================
