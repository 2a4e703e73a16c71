------------------------------ MODULE Appender ------------------------------
(***************************************************************************)
(* One safeAppender of lib/database/appender.go: Add, append, flush and    *)
(* close, and what happens to the samples on their way through             *)
(*                                                                         *)
(*     the tsdb appender (appended) -- Commit --> the head of the block    *)
(*     writer (head) -- Flush --> a block in the appender's directory.     *)
(*                                                                         *)
(* An appender belongs to one consumer and close() comes from the append   *)
(* manager when the consumer is done (BlockWriter!NoAddAfterClose), so     *)
(* each call is one step.  The tsdb is external: an Append takes the       *)
(* sample, refuses it with one of the three errors that append() swallows, *)
(* or fails; Commit, Flush and NewBlockWriter may fail.                    *)
(***************************************************************************)
EXTENDS Integers, FiniteSets

CONSTANTS Timestamps,          \* the timestamps of samples
          MaxCalls,            \* bound on the calls of Add
          maxSamplesInMemory,  \* 15000
          blockFlushDuration   \* min(blockDuration, maxBlockFlushDuration)

ASSUME TimestampAssumption == Timestamps \subseteq Nat
ASSUME LimitAssumption ==
    /\ MaxCalls \in Nat
    /\ maxSamplesInMemory \in Nat \ {0}
    /\ blockFlushDuration \in Nat \ {0}

VARIABLES
    addCalls,            \* calls of Add so far; a sample's id is its call
    blockStart,          \* -1 until the first sample
    currentSampleCount,
    stopped,
    broken,              \* a call returned an error: the consumer is gone
    fatal,               \* the runtime killed the process
    appended,            \* appended, not committed
    head,                \* committed, not flushed
    blocks,              \* in a block on disk
    lost,                \* taken by the tsdb and gone
    flushers             \* ids of the samples whose Add began with a flush

data == <<appended, head, blocks, lost, flushers>>
appenderVars == <<addCalls, blockStart, currentSampleCount, stopped, broken, fatal, data>>

Sample == [id : 1 .. MaxCalls, t : Timestamps]

AppenderTypeOK ==
    /\ addCalls \in 0 .. MaxCalls
    /\ blockStart \in Int
    /\ currentSampleCount \in Nat
    /\ stopped \in BOOLEAN /\ broken \in BOOLEAN /\ fatal \in BOOLEAN
    /\ appended \subseteq Sample
    /\ head \subseteq Sample
    /\ blocks \subseteq Sample
    /\ lost \subseteq Sample
    /\ flushers \subseteq 1 .. MaxCalls

AppenderInit ==
    /\ addCalls = 0 /\ blockStart = -1 /\ currentSampleCount = 0
    /\ stopped = FALSE /\ broken = FALSE /\ fatal = FALSE
    /\ appended = {} /\ head = {} /\ blocks = {} /\ lost = {} /\ flushers = {}

-----------------------------------------------------------------------------
(* What Append does with a sample: taken, or one of ErrOutOfOrderSample,   *)
(* ErrOutOfBounds, ErrDuplicateSampleForTimestamp, on which append()       *)
(* returns nil all the same.                                               *)
Taken(s) == {{s}, {}}

(* Definitions whose name ends in _bug are no part of the model: each is   *)
(* the definition after it with a plausible slip a property must find.     *)
NeedsFlush_bug(t) == blockStart >= 0 /\ t > blockStart + 2 * blockFlushDuration
NeedsFlush(t) == blockStart >= 0 /\ t > blockStart + blockFlushDuration

Windowed(t) == IF blockStart < 0 THEN t ELSE blockStart

Calling(t) ==
    /\ ~stopped /\ ~broken /\ ~fatal
    /\ addCalls < MaxCalls
    /\ addCalls' = addCalls + 1

(* The count is compared with > instead of >=.                             *)
AddSample_bug(t) ==
    /\ Calling(t)
    /\ ~NeedsFlush(t)
    /\ blockStart' = Windowed(t)
    /\ \E taken \in Taken([id |-> addCalls + 1, t |-> t]) :
          IF currentSampleCount + 1 > maxSamplesInMemory
          THEN /\ head' = head \cup appended \cup taken
               /\ appended' = {}
               /\ currentSampleCount' = 0
          ELSE /\ appended' = appended \cup taken
               /\ currentSampleCount' = currentSampleCount + 1
               /\ UNCHANGED head
    /\ UNCHANGED <<stopped, broken, fatal, blocks, lost, flushers>>

(* Add on the ordinary path.  A swallowed sample counts too; at            *)
(* maxSamplesInMemory the count is reset by a Commit.                      *)
AddSample(t) ==
    /\ Calling(t)
    /\ ~NeedsFlush(t)
    /\ blockStart' = Windowed(t)
    /\ \E taken \in Taken([id |-> addCalls + 1, t |-> t]) :
          IF currentSampleCount + 1 >= maxSamplesInMemory
          THEN /\ head' = head \cup appended \cup taken
               /\ appended' = {}
               /\ currentSampleCount' = 0
          ELSE /\ appended' = appended \cup taken
               /\ currentSampleCount' = currentSampleCount + 1
               /\ UNCHANGED head
    /\ UNCHANGED <<stopped, broken, fatal, blocks, lost, flushers>>

(* append() fails, or the Commit at maxSamplesInMemory does.               *)
AddSampleFails(t) ==
    /\ Calling(t)
    /\ ~NeedsFlush(t)
    /\ blockStart' = Windowed(t)
    /\ \/ UNCHANGED <<currentSampleCount, appended>>
       \/ /\ currentSampleCount + 1 >= maxSamplesInMemory
          /\ currentSampleCount' = currentSampleCount + 1
          /\ \E taken \in Taken([id |-> addCalls + 1, t |-> t]) :
                appended' = appended \cup taken
    /\ broken' = TRUE
    /\ UNCHANGED <<stopped, fatal, head, blocks, lost, flushers>>

Committed_bug == IF currentSampleCount > 1 THEN appended ELSE {}

(* Commit, only when something was counted, then Flush: what was appended  *)
(* and is not committed is gone with the appender of the tsdb.             *)
Committed == IF currentSampleCount > 0 THEN appended ELSE {}

(* flush() and the append after it, which does not count the sample.  The  *)
(* window moves on by one length, however far ahead the sample is.         *)
AddAfterFlush(t) ==
    /\ Calling(t)
    /\ NeedsFlush(t)
    /\ flushers' = flushers \cup {addCalls + 1}
    /\ blocks' = blocks \cup head \cup Committed
    /\ lost' = lost \cup (appended \ Committed)
    /\ head' = {}
    /\ currentSampleCount' = 0
    /\ blockStart' = blockStart + blockFlushDuration
    /\ appended' \in Taken([id |-> addCalls + 1, t |-> t])
    /\ UNCHANGED <<stopped, broken, fatal>>

(* An error of the append after a flush runs the deferred RUnlock of a     *)
(* mutex that this goroutine holds for writing.  The runtime kills the     *)
(* process, unless another appender is waiting to read: then only the      *)
(* consumer of this one is gone, and the mutex has one reader too few.     *)
AddAfterFlushFails(t) ==
    /\ Calling(t)
    /\ NeedsFlush(t)
    /\ flushers' = flushers \cup {addCalls + 1}
    /\ blocks' = blocks \cup head \cup Committed
    /\ lost' = lost \cup (appended \ Committed)
    /\ head' = {} /\ appended' = {}
    /\ currentSampleCount' = 0
    /\ blockStart' = blockStart + blockFlushDuration
    /\ \/ fatal' = TRUE /\ UNCHANGED broken
       \/ broken' = TRUE /\ UNCHANGED fatal
    /\ UNCHANGED stopped

(* flush() breaks off: at the Commit, at the Flush, or at NewBlockWriter,  *)
(* which leaves the flushed block writer and its appender in place.        *)
FlushFails(t) ==
    /\ Calling(t)
    /\ NeedsFlush(t)
    /\ broken' = TRUE
    /\ \/ /\ currentSampleCount > 0
          /\ UNCHANGED <<currentSampleCount, appended, head, blocks>>
       \/ /\ currentSampleCount' = 0
          /\ appended' = appended \ Committed
          /\ head' = head \cup Committed
          /\ \/ UNCHANGED blocks
             \/ blocks' = blocks \cup head'
    /\ UNCHANGED <<blockStart, stopped, fatal, lost, flushers>>

(* close(): the same Commit and Flush, then the blocks are moved.          *)
Close ==
    /\ ~stopped /\ ~fatal
    /\ stopped' = TRUE
    /\ blocks' = blocks \cup head \cup Committed
    /\ lost' = lost \cup (appended \ Committed)
    /\ head' = {} /\ appended' = {}
    /\ currentSampleCount' = 0
    /\ UNCHANGED <<addCalls, blockStart, broken, fatal, flushers>>

(* Commit or Flush of close() fails, and what is not in a block is gone,   *)
(* or the blocks are written and moving them fails.                        *)
CloseFails ==
    /\ ~stopped /\ ~fatal
    /\ stopped' = TRUE
    /\ broken' = TRUE
    /\ head' = {} /\ appended' = {}
    /\ \/ /\ lost' = lost \cup ((appended \cup head) \ blocks)
          /\ currentSampleCount' \in {currentSampleCount, 0}
          /\ UNCHANGED blocks
       \/ /\ lost' = lost \cup (appended \ Committed)
          /\ currentSampleCount' = 0
          /\ blocks' = blocks \cup head \cup Committed
    /\ UNCHANGED <<addCalls, blockStart, fatal, flushers>>

Finished == (stopped \/ fatal) /\ UNCHANGED appenderVars

AppenderNext ==
    \/ \E t \in Timestamps :
          \/ AddSample(t) \/ AddSampleFails(t)
          \/ AddAfterFlush(t) \/ AddAfterFlushFails(t) \/ FlushFails(t)
    \/ Close
    \/ CloseFails
    \/ Finished

AppenderSpec == AppenderInit /\ [][AppenderNext]_appenderVars

-----------------------------------------------------------------------------
(* Properties                                                              *)

(* As long as every call succeeds the tsdb appender never holds more than  *)
(* maxSamplesInMemory samples, although the one that follows a flush is    *)
(* not counted.                                                            *)
MemoryBounded ==
    ~broken /\ ~fatal => Cardinality(appended) <= maxSamplesInMemory

(* A sample in memory is not beyond the end of the window, except one that *)
(* made its Add flush: no block spans more than one window and a sample.   *)
InWindow ==
    \A s \in appended \cup head :
        s.t <= blockStart + blockFlushDuration \/ s.id \in flushers

(* Without an error, only a sample whose Add began with a flush is ever    *)
(* lost, and only when the next call is again a flush or the close:        *)
(* otherwise the next Commit takes it along.                               *)
LossOnlyBetweenFlushes ==
    ~broken /\ ~fatal =>
        \A s \in lost :
            /\ s.id \in flushers
            /\ s.id + 1 \in flushers \/ s.id = addCalls

(* The invariant behind the three.  While nothing has failed the count is  *)
(* at most one behind what is appended ...                                 *)
MemoryInv ==
    /\ IsFiniteSet(appended)
    /\ ~broken /\ ~fatal =>
          /\ currentSampleCount < maxSamplesInMemory
          /\ Cardinality(appended) <= currentSampleCount + 1

(* ... before the first sample nothing is in memory ...                    *)
WindowInv ==
    /\ flushers \subseteq 1 .. addCalls
    /\ blockStart < 0 => appended \cup head = {}
    /\ InWindow

(* ... and what a count of 0 forgets is the sample of the last Add.        *)
LossInv ==
    ~broken /\ ~fatal =>
        /\ currentSampleCount = 0 =>
              \A s \in appended : s.id \in flushers /\ s.id = addCalls
        /\ \A s \in lost :
              /\ s.id \in flushers
              /\ s.id + 1 \in flushers \/ (s.id = addCalls /\ stopped)

AppenderInv == MemoryInv /\ WindowInv /\ LossInv

(* The inductive invariant of Add: which samples are in memory, how far    *)
(* the window of the block has moved, and which samples can no more be     *)
(* flushed.                                                                *)
AddInv == AppenderTypeOK /\ AppenderInv
=============================================================================
