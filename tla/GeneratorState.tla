--------------------------- MODULE GeneratorState ---------------------------
(***************************************************************************)
(* The state that planExecutor.Execute of lib/generator/generator.go keeps *)
(* for one instance of a metric between its samples.  An expression may    *)
(* refer to Index, the number of samples before, to Last, the value of the *)
(* previous one, and to Timestamp; exampleMetricConfig.yml does.           *)
(*                                                                         *)
(* createMetricSpecifications makes one state for the whole command.  The  *)
(* chunks of a block are executed by several consumers at the same time,   *)
(* every one of which reads and writes that state without a lock: each     *)
(* access is a step.  Which chunks may run together is what BlockWriter    *)
(* proves (BlockBarrier).  Other instances have a state of their own.      *)
(*                                                                         *)
(* The samples are numbered along the plan, and a sample's number stands   *)
(* for its value.                                                          *)
(***************************************************************************)
EXTENDS Integers, FiniteSets

CONSTANTS Consumers,         \* the consumers of the plan
          NumBlocks,
          ChunksPerBlock,    \* chunks of this metric in a block
          SamplesPerChunk

ASSUME SizeAssumption ==
    /\ IsFiniteSet(Consumers)
    /\ NumBlocks \in Nat \ {0}
    /\ ChunksPerBlock \in Nat \ {0}
    /\ SamplesPerChunk \in Nat \ {0}

Chunks == 1 .. NumBlocks * ChunksPerBlock
Samples == 1 .. NumBlocks * ChunksPerBlock * SamplesPerChunk

BlockOf(chunk) == (chunk - 1) \div ChunksPerBlock
ChunkOf(n) == (n - 1) \div SamplesPerChunk + 1
FirstOf(chunk) == (chunk - 1) * SamplesPerChunk + 1
LastOf(chunk) == chunk * SamplesPerChunk

VARIABLES
    workers,                  \* the consumers the command was given
    Index, Timestamp, Last,   \* the shared state
    next,                     \* the next chunk the producer hands out
    executed,                 \* chunks whose Execute returned nil
    at,                       \* where each consumer is
    sample,                   \* the sample it is at
    loaded,                   \* the Index it has read to increment it
    seen                      \* what each evaluated sample saw of the state

shared == <<Index, Timestamp, Last>>
stateVars == <<workers, shared, next, executed, at, sample, loaded, seen>>

NotSeen == [index |-> -1, timestamp |-> -1, last |-> -1]
View == [index : Nat, timestamp : Nat, last : Nat]

StateTypeOK ==
    /\ workers \subseteq Consumers
    /\ Index \in Nat /\ Timestamp \in Nat /\ Last \in Nat
    /\ next \in Nat \ {0}
    /\ executed \subseteq Chunks
    /\ at \in [Consumers -> {"idle", "stamp", "eval", "last", "load", "store", "stopped"}]
    /\ sample \in [Consumers -> {0} \cup Samples]
    /\ loaded \in [Consumers -> Nat]
    /\ seen \in [Samples -> View \cup {NotSeen}]

(* -parallelism is the number of consumers; it may be one.                 *)
StateInit ==
    /\ workers \in (SUBSET Consumers) \ {{}}
    /\ Index = 0 /\ Timestamp = 0 /\ Last = 0
    /\ next = 1
    /\ executed = {}
    /\ at = [c \in Consumers |-> "idle"]
    /\ sample = [c \in Consumers |-> 0]
    /\ loaded = [c \in Consumers |-> 0]
    /\ seen = [n \in Samples |-> NotSeen]

-----------------------------------------------------------------------------
Goes(c, to) == at' = [at EXCEPT ![c] = to]
From(c, from) == at[c] = from

(* Definitions whose name ends in _bug are no part of the model: each is   *)
(* the definition after it with a plausible slip a property must find.     *)
BlockReached_bug(chunk) == TRUE

(* The producer goes to the next block when this one is executed.          *)
BlockReached(chunk) ==
    \A d \in Chunks : BlockOf(d) < BlockOf(chunk) => d \in executed

Take(c) ==
    /\ From(c, "idle")
    /\ next \in Chunks
    /\ BlockReached(next)
    /\ next' = next + 1
    /\ sample' = [sample EXCEPT ![c] = FirstOf(next)]
    /\ Goes(c, "stamp")
    /\ UNCHANGED <<workers, shared, executed, loaded, seen>>

(* s.Timestamp = float64(plan.Start()), the start of the chunk             *)
SetTimestamp(c) ==
    /\ From(c, "stamp")
    /\ Timestamp' = FirstOf(ChunkOf(sample[c]))
    /\ Goes(c, "eval")
    /\ UNCHANGED <<workers, Index, Last, next, executed, sample, loaded, seen>>

(* m.Expression.EvalFloat64(..., s)                                        *)
Evaluate(c) ==
    /\ From(c, "eval")
    /\ seen' = [seen EXCEPT ![sample[c]] =
                    [index |-> Index, timestamp |-> Timestamp, last |-> Last]]
    /\ Goes(c, "last")
    /\ UNCHANGED <<workers, shared, next, executed, sample, loaded>>

(* s.Last = value                                                          *)
SetLast(c) ==
    /\ From(c, "last")
    /\ Last' = sample[c]
    /\ Goes(c, "load")
    /\ UNCHANGED <<workers, Index, Timestamp, next, executed, sample, loaded, seen>>

(* s.Index += 1, first half                                                *)
LoadIndex(c) ==
    /\ From(c, "load")
    /\ loaded' = [loaded EXCEPT ![c] = Index]
    /\ Goes(c, "store")
    /\ UNCHANGED <<workers, shared, next, executed, sample, seen>>

(* Second half, and on to the next sample of the chunk or the next chunk;  *)
(* a NaN is not added.                                                     *)
StoreIndex(c) ==
    /\ From(c, "store")
    /\ Index' = loaded[c] + 1
    /\ IF sample[c] = LastOf(ChunkOf(sample[c]))
       THEN /\ Goes(c, "idle")
            /\ executed' = executed \cup {ChunkOf(sample[c])}
            /\ UNCHANGED sample
       ELSE /\ Goes(c, "stamp")
            /\ sample' = [sample EXCEPT ![c] = sample[c] + 1]
            /\ UNCHANGED executed
    /\ UNCHANGED <<workers, Timestamp, Last, next, loaded, seen>>

(* The expression cannot be evaluated; the consumer stops.                 *)
EvaluateFails(c) ==
    /\ From(c, "eval")
    /\ Goes(c, "stopped")
    /\ UNCHANGED <<workers, shared, next, executed, sample, loaded, seen>>

(* appender.Add fails, after the state was changed.                        *)
AddFails(c) ==
    /\ From(c, "store")
    /\ Index' = loaded[c] + 1
    /\ Goes(c, "stopped")
    /\ UNCHANGED <<workers, Timestamp, Last, next, executed, sample, loaded, seen>>

Finished ==
    /\ \A c \in workers : at[c] \in {"idle", "stopped"}
    /\ UNCHANGED stateVars

StateNext ==
    \/ \E c \in workers :
          \/ Take(c) \/ SetTimestamp(c) \/ Evaluate(c) \/ EvaluateFails(c)
          \/ SetLast(c) \/ LoadIndex(c) \/ StoreIndex(c) \/ AddFails(c)
    \/ Finished

StateSpec == StateInit /\ [][StateNext]_stateVars

-----------------------------------------------------------------------------
(* Properties                                                              *)
Evaluated == {n \in Samples : seen[n] # NotSeen}

(* A sample never sees as Last a value from later in the series than its   *)
(* block, nor one older than the block before: the barrier between blocks. *)
LastFromNearbyBlock ==
    \A n \in Evaluated :
        LET b == BlockOf(ChunkOf(n))
            l == seen[n].last
        IN  IF l = 0 THEN b = 0 ELSE BlockOf(ChunkOf(l)) \in {b - 1, b}

(* Index is never ahead of the number of samples evaluated, but increments *)
(* may get lost.                                                           *)
IndexNotAhead == Index <= Cardinality(Evaluated)

(* With one consumer an expression is told its true place in the series:   *)
(* Index is the number of samples before it and Last the value of the      *)
(* previous one, across chunks and blocks.  With more than one it may not  *)
(* be; IndexNotAhead and LastFromNearbyBlock are what is left then.        *)
SequentialIfAlone ==
    Cardinality(workers) = 1 =>
        \A n \in Evaluated : seen[n].index = n - 1 /\ seen[n].last = n - 1

(* The block of the last chunk handed out.                                 *)
Reached == BlockOf(IF next = 1 THEN 1 ELSE next - 1)

(* Chunks that are not executed belong to the last block, each is in the   *)
(* hands of one consumer, and is evaluated as far as that one has come.    *)
ChunkInv ==
    /\ executed \subseteq 1 .. next - 1 /\ next - 1 \in {0} \cup Chunks
    /\ \A d \in 1 .. next - 1 : d \in executed \/ BlockOf(d) = Reached
    /\ \A n \in Evaluated : ChunkOf(n) < next
    /\ \A c \in Consumers : at[c] # "idle" =>
          /\ c \in workers /\ sample[c] \in Samples
          /\ ChunkOf(sample[c]) \in (1 .. next - 1) \ executed
          /\ \A d \in Consumers \ {c} :
                at[d] # "idle" => ChunkOf(sample[d]) # ChunkOf(sample[c])
          /\ \A n \in Evaluated :
                ChunkOf(n) = ChunkOf(sample[c]) =>
                    \/ n < sample[c]
                    \/ n = sample[c] /\ at[c] \notin {"stamp", "eval"}

(* Last comes from this block or the one before, and from this one as soon *)
(* as one of its samples is evaluated.                                     *)
LastInv ==
    /\ Last \in {0} \cup Samples
    /\ IF Last = 0 THEN Reached = 0 ELSE BlockOf(ChunkOf(Last)) \in {Reached - 1, Reached}
    /\ (\E d \in executed : BlockOf(d) = Reached) \/ (\E c \in Consumers : at[c] \in {"load", "store"})
          => Last # 0 /\ BlockOf(ChunkOf(Last)) = Reached

(* Index does not yet count the samples between Evaluate and StoreIndex.   *)
Uncounted == {c \in Consumers : at[c] \in {"last", "load", "store"}}
CountInv ==
    /\ Index + Cardinality(Uncounted) <= Cardinality(Evaluated)
    /\ \A c \in Consumers :
          at[c] = "store" => loaded[c] + Cardinality(Uncounted) <= Cardinality(Evaluated)

(* What a consumer that is alone finds at each of its steps.               *)
AloneInv ==
    \A c \in Consumers : workers = {c} =>
        /\ at[c] = "idle" => Index = LastOf(next - 1) /\ Last = LastOf(next - 1)
        /\ at[c] # "idle" => ChunkOf(sample[c]) = next - 1
        /\ at[c] \in {"stamp", "eval", "last", "load"} => Index = sample[c] - 1
        /\ at[c] \in {"stamp", "eval"} => Last = sample[c] - 1
        /\ at[c] \in {"load", "store"} => Last = sample[c]
        /\ at[c] = "store" => loaded[c] = sample[c] - 1

(* What is true of the shared state of a series, with one consumer and     *)
(* with several that generate chunks of it at a time.                      *)
StateInv ==
    /\ StateTypeOK /\ LastFromNearbyBlock /\ IndexNotAhead /\ SequentialIfAlone
    /\ ChunkInv /\ LastInv /\ CountInv /\ AloneInv
=============================================================================
