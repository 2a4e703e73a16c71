-------------------------- MODULE BlockWriterProof --------------------------
(***************************************************************************)
(* Proofs about BlockWriter, for every plan and every number of consumers. *)
(***************************************************************************)
EXTENDS BlockWriter, FiniteSetTheorems, TLAPS

(* NewPlannerConfig gives at least one consumer.                           *)
LEMMA ParallelismPositive == Parallelism \in Nat \ {0}
<1>1. MaxParallelism \in Nat \ {0}
  BY ParallelismAssumption DEF MaxParallelism
<1>2. QED
  BY <1>1, ParallelismAssumption DEF Parallelism

(* What an entry is.                                                       *)
LEMMA EntryPairs ==
    /\ \A e \in Entries :
          /\ e = <<e[1], e[2]>>
          /\ e[1] \in 1 .. NumBlocks
          /\ e[2] \in 1 .. PlanLen[e[1]]
    /\ \A b \in 1 .. NumBlocks : \A p \in 1 .. PlanLen[b] : <<b, p>> \in Entries
    /\ NoEntry \notin Entries
BY PlanAssumption DEF Entries, EntriesOf, NoEntry

LEMMA FirstNaturals ==
    ASSUME NEW n \in Nat
    PROVE  IsFiniteSet(1 .. n) /\ Cardinality(1 .. n) = n
<1>1. 1 \in Int /\ n \in Int
  OBVIOUS
<1>2. IsFiniteSet(1 .. n)
      /\ Cardinality(1 .. n) = IF 1 > n THEN 0 ELSE n - 1 + 1
  BY <1>1, FS_Interval
<1> QED BY <1>2

(* A block has as many entries as its plan is long.                        *)
LEMMA BlockSize ==
    ASSUME NEW b \in 1 .. NumBlocks
    PROVE  IsFiniteSet(EntriesOf(b)) /\ Cardinality(EntriesOf(b)) = PlanLen[b]
<1>1. IsFiniteSet({b}) /\ Cardinality({b}) = 1
  BY FS_Singleton
<1>2. PlanLen[b] \in Nat
  BY PlanAssumption
<1>3. IsFiniteSet(1 .. PlanLen[b]) /\ Cardinality(1 .. PlanLen[b]) = PlanLen[b]
  BY <1>2, FirstNaturals
<1>4. IsFiniteSet({b} \X (1 .. PlanLen[b]))
      /\ Cardinality({b} \X (1 .. PlanLen[b])) = 1 * PlanLen[b]
  BY <1>1, <1>3, FS_Product
<1> QED BY <1>2, <1>4 DEF EntriesOf

(* The plan is finite.                                                     *)
LEMMA PlanIsFinite == IsFiniteSet(Entries)
<1> DEFINE Blocks == {EntriesOf(b) : b \in 1 .. NumBlocks}
           f == [b \in 1 .. NumBlocks |-> EntriesOf(b)]
<1>1. IsFiniteSet(1 .. NumBlocks)
  BY PlanAssumption, FirstNaturals
<1>2. f \in Surjection(1 .. NumBlocks, Blocks)
  BY DEF Surjection
<1>3. IsFiniteSet(Blocks)
  BY <1>1, <1>2, FS_Surjection
<1>4. \A T \in Blocks : IsFiniteSet(T)
  BY BlockSize
<1> QED BY <1>3, <1>4, FS_UNION DEF Entries

(* So are the sets that the wait groups count.                             *)
LEMMA CountedSets ==
    /\ IsFiniteSet(Added \ done)
    /\ IsFiniteSet(Live)
    /\ Cardinality(Added \ done) \in Nat
    /\ Cardinality(Live) \in Nat
<1>1. IsFiniteSet(Added \ done)
  BY PlanIsFinite, FS_Subset DEF Added
<1>2. IsFiniteSet(Consumers)
  BY ParallelismPositive, FirstNaturals DEF Consumers
<1>3. IsFiniteSet(Live)
  BY <1>2, FS_Subset DEF Live
<1> QED BY <1>1, <1>3, FS_CardinalityType

(* The initial state satisfies the invariant.                              *)
LEMMA InitInv == Init => WriterInv
<1> SUFFICES ASSUME Init PROVE WriterInv
  OBVIOUS
<1>1. TypeOK
  <2>1. 1 \in 1 .. NumBlocks + 1 /\ 0 \in 0 .. Parallelism
    BY PlanAssumption, ParallelismPositive
  <2>2. wg \in Nat /\ cg \in Nat
    BY SMT DEF Init
  <2>3. ctxDone \in BOOLEAN /\ cancelled \in BOOLEAN
    BY DEF Init
  <2>4. blk \in 1 .. NumBlocks + 1 /\ spawned \in 0 .. Parallelism /\ pos \in Nat \ {0}
    BY <2>1 DEF Init
  <2>5. /\ consumer \in [Consumers -> {"none", "idle", "exec", "cancelling", "stopped"}]
        /\ cur \in [Consumers -> Entries \cup {NoEntry}]
        /\ appender \in [Consumers -> {"none", "open", "closed"}]
    BY DEF Init
  <2>6. /\ run = "start" /\ result = "none" /\ published = "none"
        /\ watcher = "none" /\ producer = "off" /\ helper = "none"
        /\ done = {} /\ failed = {}
    BY DEF Init
  <2> QED BY <2>1, <2>2, <2>3, <2>4, <2>5, <2>6 DEF TypeOK
<1>2. Live = {} /\ Added = {} /\ Sent = {} /\ Executing = {}
  BY EntryPairs DEF Init, Live, Added, Sent, Executing
<1>3. Cardinality({}) = 0
  BY FS_EmptySet
<1>4. EntryInv /\ NoSharedEntry
  BY <1>2 DEF Init, EntryInv, NoSharedEntry
<1>5. WaitGroupInv
  <2>1. Added \ done = {}
    BY <1>2
  <2> QED BY <1>2, <1>3, <2>1 DEF Init, WaitGroupInv, WgCountsOpenEntries
<1>6. BarrierInv /\ CancelInv /\ PhaseInv
  BY <1>2, EntryPairs, ParallelismPositive
     DEF Init, BarrierInv, CancelInv, PhaseInv, Joined, Consumers
<1> QED BY <1>1, <1>4, <1>5, <1>6 DEF WriterInv, PipelineInv

-----------------------------------------------------------------------------
(* What a wait group tells about the goroutines it waits for.              *)

LEMMA WgZero ==
    ASSUME WriterInv, wg = 0
    PROVE  Added \subseteq done
<1>1. Cardinality(Added \ done) = 0
  BY DEF WriterInv, PipelineInv, WaitGroupInv, WgCountsOpenEntries
<1>2. Added \ done = {}
  BY <1>1, CountedSets, FS_EmptySet
<1> QED BY <1>2

LEMMA WgPositive ==
    ASSUME WriterInv, NEW c \in Consumers, consumer[c] = "exec"
    PROVE  /\ cur[c] \in Entries /\ cur[c] # NoEntry
           /\ cur[c] \in Added \ done
           /\ wg >= 1
<1>1. cur[c] \in Sent /\ cur[c] \notin done
  BY DEF WriterInv, PipelineInv, EntryInv, Executing
<1>2. cur[c] \in Added \ done
  BY <1>1 DEF Sent
<1>3. Cardinality(Added \ done) # 0
  BY <1>2, CountedSets, FS_EmptySet
<1>4. wg >= 1
  BY <1>3, CountedSets DEF WriterInv, PipelineInv, WaitGroupInv, WgCountsOpenEntries
<1> QED BY <1>2, <1>4, EntryPairs DEF Added

LEMMA CgPositive ==
    ASSUME WriterInv, NEW c \in Consumers, consumer[c] \in {"idle", "exec", "cancelling"}
    PROVE  cg - 1 \in Nat
<1>1. c \in Live
  BY DEF Live
<1>2. Cardinality(Live) # 0
  BY <1>1, CountedSets, FS_EmptySet
<1> QED BY <1>2, CountedSets DEF WriterInv, TypeOK, PipelineInv, WaitGroupInv

LEMMA CgZero ==
    ASSUME WriterInv, run = "cgwait", cg = 0
    PROVE  \A c \in Consumers : consumer[c] = "stopped"
<1>1. Cardinality(Live) = 0
  BY CountedSets DEF WriterInv, PipelineInv, WaitGroupInv
<1>2. Live = {}
  BY <1>1, CountedSets, FS_EmptySet
<1>3. \A c \in Consumers : consumer[c] # "none"
  BY ParallelismPositive DEF WriterInv, PipelineInv, PhaseInv, Consumers
<1> QED BY <1>2, <1>3 DEF Live, WriterInv, TypeOK

-----------------------------------------------------------------------------
(* Each part of the invariant is preserved by every step.                  *)

LEMMA TypeStep ==
    ASSUME WriterInv, [Next]_vars
    PROVE  TypeOK'
<1> USE DEF WriterInv, vars, mainVars, syncVars, producerVars, consumerVars
<1>1. ASSUME ProducerNext PROVE TypeOK'
  <2>1. CASE ProducerAdd
    BY <2>1, PlanAssumption DEF TypeOK, ProducerAdd
  <2>2. ASSUME NEW c \in Consumers, Send(c) PROVE TypeOK'
    BY <2>2, EntryPairs DEF TypeOK, Send, PipelineInv, BarrierInv
  <2>3. CASE ProducerWait
    BY <2>3 DEF TypeOK, ProducerWait
  <2>4. CASE ProducerProceed
    BY <2>4, PlanAssumption DEF TypeOK, ProducerProceed, PipelineInv, BarrierInv
  <2>5. CASE ProducerCancelled
    BY <2>5 DEF TypeOK, ProducerCancelled
  <2>6. CASE ProducerFinish
    BY <2>6 DEF TypeOK, ProducerFinish
  <2> QED BY <1>1, <2>1, <2>2, <2>3, <2>4, <2>5, <2>6 DEF ProducerNext
<1>2. CASE HelperDone
  BY <1>2 DEF TypeOK, HelperDone
<1>3. ASSUME NEW c \in Consumers, ConsumerNext(c) PROVE TypeOK'
  <2>1. CASE ConsumerStop(c)
    BY <2>1, CgPositive DEF TypeOK, ConsumerStop
  <2>2. CASE ExecuteOk(c)
    <3>1. wg - 1 \in Nat /\ cur[c] \in Entries
      BY <2>2, WgPositive DEF ExecuteOk, TypeOK
    <3> QED BY <2>2, <3>1 DEF TypeOK, ExecuteOk
  <2>3. CASE ExecuteFail(c)
    <3>1. cur[c] \in Entries
      BY <2>3, WgPositive DEF ExecuteFail, Cancel
    <3> QED BY <2>3, <3>1 DEF TypeOK, ExecuteFail, Cancel
  <2>4. CASE ConsumerFailed(c)
    BY <2>4, CgPositive DEF TypeOK, ConsumerFailed
  <2> QED BY <1>3, <2>1, <2>2, <2>3, <2>4 DEF ConsumerNext
<1>4. CASE WatcherFires
  BY <1>4 DEF TypeOK, WatcherFires
<1>5. ASSUME MainNext PROVE TypeOK'
  <2>1. CASE Open
    BY <2>1 DEF TypeOK, Open, Return
  <2>2. CASE Spawn
    BY <2>2, ParallelismPositive DEF TypeOK, Spawn, Consumers
  <2>3. CASE SpawnFail
    BY <2>3, ParallelismPositive DEF TypeOK, SpawnFail, Consumers
  <2>4. CASE SpawnDone
    BY <2>4 DEF TypeOK, SpawnDone
  <2>5. CASE CgWait
    BY <2>5 DEF TypeOK, CgWait
  <2>6. CASE CloseAppenders
    BY <2>6 DEF TypeOK, CloseAppenders, StopAppenders, Return
  <2>7. CASE Compact
    BY <2>7 DEF TypeOK, Compact, Return
  <2>8. CASE MoveBlocks
    BY <2>8 DEF TypeOK, MoveBlocks, Return
  <2>9. CASE Abort
    BY <2>9 DEF TypeOK, Abort, StopAppenders, Return
  <2> QED BY <1>5, <2>1, <2>2, <2>3, <2>4, <2>5, <2>6, <2>7, <2>8, <2>9 DEF MainNext
<1>6. CASE UNCHANGED vars
  BY <1>6 DEF TypeOK
<1> QED BY <1>1, <1>2, <1>3, <1>4, <1>5, <1>6 DEF Next, Returned

(* Entries are sent once, in order, and only a sent entry is executed.     *)
LEMMA EntryStep ==
    ASSUME WriterInv, [Next]_vars
    PROVE  EntryInv' /\ NoSharedEntry'
<1> USE DEF WriterInv, PipelineInv, vars, mainVars, syncVars, producerVars, consumerVars
<1> DEFINE Goal == EntryInv' /\ NoSharedEntry'
<1>1. CASE ProducerNext
  <2> USE EntryPairs DEF EntryInv, NoSharedEntry, Sent, Added, Executing, TypeOK
  <2>1. CASE ProducerAdd
    BY <2>1 DEF ProducerAdd
  <2>2. ASSUME NEW c \in Consumers, Send(c) PROVE Goal
    BY <2>2 DEF Send, BarrierInv
  <2>3. CASE ProducerWait
    BY <2>3 DEF ProducerWait
  <2>4. CASE ProducerProceed
    <3>1. Sent \subseteq Sent'
      BY <2>4 DEF ProducerProceed
    <3> QED BY <2>4, <3>1 DEF ProducerProceed
  <2>5. CASE ProducerCancelled
    BY <2>5 DEF ProducerCancelled
  <2>6. CASE ProducerFinish
    BY <2>6 DEF ProducerFinish
  <2> QED BY <1>1, <2>1, <2>2, <2>3, <2>4, <2>5, <2>6 DEF ProducerNext
<1>2. ASSUME NEW c \in Consumers, ConsumerNext(c) PROVE Goal
  <2> USE DEF EntryInv, NoSharedEntry, Executing, Sent, Added, TypeOK
  <2>1. CASE ConsumerStop(c)
    BY <2>1 DEF ConsumerStop
  <2>2. CASE ExecuteOk(c)
    <3>1. cur[c] # NoEntry /\ cur[c] \in Sent \ (done \cup failed)
      BY <2>2, WgPositive DEF ExecuteOk
    <3> QED BY <2>2, <3>1 DEF ExecuteOk
  <2>3. CASE ExecuteFail(c)
    <3>1. cur[c] # NoEntry /\ cur[c] \in Sent \ (done \cup failed)
      BY <2>3, WgPositive DEF ExecuteFail, Cancel
    <3> QED BY <2>3, <3>1 DEF ExecuteFail, Cancel
  <2>4. CASE ConsumerFailed(c)
    BY <2>4 DEF ConsumerFailed
  <2> QED BY <1>2, <2>1, <2>2, <2>3, <2>4 DEF ConsumerNext
<1>3. ASSUME MainNext PROVE Goal
  <2> USE DEF EntryInv, NoSharedEntry, Executing, Sent, Added, TypeOK
  <2>1. CASE Open
    BY <2>1 DEF Open, Return, PhaseInv
  <2>2. CASE Spawn
    BY <2>2 DEF Spawn, PhaseInv
  <2>3. CASE SpawnFail \/ SpawnDone \/ CgWait
    BY <2>3 DEF SpawnFail, SpawnDone, CgWait
  <2>4. CASE CloseAppenders \/ Compact \/ MoveBlocks \/ Abort
    BY <2>4 DEF CloseAppenders, Compact, MoveBlocks, Abort
  <2> QED BY <1>3, <2>1, <2>2, <2>3, <2>4 DEF MainNext
<1>4. CASE HelperDone \/ WatcherFires \/ UNCHANGED vars
  BY <1>4 DEF HelperDone, WatcherFires, EntryInv, NoSharedEntry, Executing, Sent, Added
<1> QED BY <1>1, <1>2, <1>3, <1>4 DEF Next, Returned

(* wg counts the entries to be executed, cg the consumers that are alive.  *)
LEMMA WaitGroupStep ==
    ASSUME WriterInv, [Next]_vars
    PROVE  WaitGroupInv'
<1> USE DEF WriterInv, PipelineInv, vars, mainVars, syncVars, producerVars, consumerVars,
            WaitGroupInv, WgCountsOpenEntries
<1>1. ASSUME UNCHANGED <<wg, done>>, Added' = Added
      PROVE  WgCountsOpenEntries'
  BY <1>1
<1>2. ASSUME UNCHANGED <<cg, consumer>>, StartFailed' \/ ~StartFailed
      PROVE  cg' >= Cardinality(Live') /\ (~StartFailed' => cg' = Cardinality(Live'))
  BY <1>2, CountedSets DEF Live, TypeOK
<1>3. CASE ProducerNext
  <2>1. UNCHANGED cg /\ StartFailed' = StartFailed /\ Live' = Live
    BY <1>3 DEF ProducerNext, ProducerAdd, Send, ProducerWait, ProducerProceed,
                ProducerCancelled, ProducerFinish, StartFailed, Live, TypeOK
  <2>2. WgCountsOpenEntries'
    <3>1. CASE ProducerAdd
      <4> DEFINE S == Added \ done
                 T == EntriesOf(blk)
      <4>1. blk \in 1 .. NumBlocks
        BY <3>1 DEF ProducerAdd, TypeOK
      <4>2. done \subseteq Added
        BY DEF EntryInv, Sent
      <4>3. Added' = Added \cup T /\ Added \cap T = {}
        BY <3>1, <4>1 DEF ProducerAdd, Added, Entries, EntriesOf
      <4>4. (Added \ done)' = S \cup T /\ S \cap T = {}
        BY <3>1, <4>2, <4>3 DEF ProducerAdd
      <4>5. Cardinality(S \cup T) = Cardinality(S) + Cardinality(T) - Cardinality(S \cap T)
        BY <4>1, CountedSets, BlockSize, FS_Union
      <4>6. Cardinality(S \cap T) = 0
        BY <4>4, FS_EmptySet
      <4>7. PlanLen[blk] \in Nat
        BY <4>1, PlanAssumption
      <4> HIDE DEF S, T
      <4>8. Cardinality(S \cup T) = wg + PlanLen[blk]
        BY <4>1, <4>5, <4>6, <4>7, BlockSize DEF S, T, TypeOK
      <4> QED BY <3>1, <4>4, <4>8 DEF ProducerAdd
    <3>2. ASSUME NEW c \in Consumers, Send(c) PROVE WgCountsOpenEntries'
      BY <3>2 DEF Send, Added
    <3>3. CASE ProducerWait \/ ProducerCancelled
      BY <3>3 DEF ProducerWait, ProducerCancelled, Added
    <3>4. CASE ProducerProceed
      <4>1. Added' = Added
        BY <3>4, EntryPairs DEF ProducerProceed, Added, TypeOK
      <4> QED BY <3>4, <4>1, <1>1 DEF ProducerProceed
    <3>5. CASE ProducerFinish
      <4>1. Added' = Added
        BY <3>5, EntryPairs, PlanAssumption DEF ProducerFinish, Added, TypeOK
      <4> QED BY <3>5, <4>1, <1>1 DEF ProducerFinish
    <3> QED BY <1>3, <3>1, <3>2, <3>3, <3>4, <3>5 DEF ProducerNext
  <2> QED BY <2>1, <2>2
<1>4. ASSUME NEW c \in Consumers, ConsumerNext(c) PROVE WaitGroupInv'
  <2>1. CASE ConsumerStop(c) \/ ConsumerFailed(c)
    <3>1. c \in Live /\ Live' = Live \ {c}
      BY <2>1 DEF ConsumerStop, ConsumerFailed, Live, TypeOK
    <3>2. Cardinality(Live') = Cardinality(Live) - 1
      BY <3>1, CountedSets, FS_RemoveElement
    <3>3. cg' = cg - 1 /\ StartFailed' = StartFailed
      BY <2>1 DEF ConsumerStop, ConsumerFailed, StartFailed
    <3>4. WgCountsOpenEntries'
      BY <2>1 DEF ConsumerStop, ConsumerFailed, Added
    <3> QED BY <3>2, <3>3, <3>4, CountedSets DEF TypeOK
  <2>2. CASE ExecuteOk(c)
    <3>1. cur[c] \in Added \ done
      BY <2>2, WgPositive DEF ExecuteOk
    <3>2. (Added \ done)' = (Added \ done) \ {cur[c]}
      BY <2>2 DEF ExecuteOk, Added
    <3>3. Cardinality((Added \ done)') = Cardinality(Added \ done) - 1
      BY <3>1, <3>2, CountedSets, FS_RemoveElement
    <3>4. Live' = Live /\ StartFailed' = StartFailed /\ UNCHANGED cg
      BY <2>2 DEF ExecuteOk, Live, StartFailed, TypeOK
    <3> QED BY <2>2, <3>3, <3>4 DEF ExecuteOk
  <2>3. CASE ExecuteFail(c)
    <3>1. Live' = Live /\ StartFailed' = StartFailed /\ Added' = Added
      BY <2>3 DEF ExecuteFail, Cancel, Live, StartFailed, Added, TypeOK
    <3> QED BY <2>3, <3>1 DEF ExecuteFail, Cancel
  <2> QED BY <1>4, <2>1, <2>2, <2>3 DEF ConsumerNext
<1>5. ASSUME MainNext PROVE WaitGroupInv'
  <2>1. Added' = Added /\ UNCHANGED <<wg, done>>
    BY <1>5 DEF MainNext, Open, Spawn, SpawnFail, SpawnDone, CgWait, CloseAppenders,
                Compact, MoveBlocks, Abort, Return, Added, PhaseInv
  <2>2. CASE Spawn
    <3>1. spawned + 1 \notin Live /\ Live' = Live \cup {spawned + 1}
      BY <2>2, ParallelismPositive DEF Spawn, Live, PhaseInv, TypeOK, Consumers
    <3>2. Cardinality(Live') = Cardinality(Live) + 1
      BY <3>1, CountedSets, FS_AddElement
    <3>3. ~StartFailed /\ ~StartFailed' /\ cg' = cg + 1
      BY <2>2 DEF Spawn, StartFailed
    <3> QED BY <2>1, <3>2, <3>3, <1>1
  <2>3. CASE SpawnFail
    <3>1. StartFailed' /\ Live' = Live /\ cg' = cg + 1
      BY <2>3 DEF SpawnFail, StartFailed, Live
    <3> QED BY <2>1, <3>1, <1>1, CountedSets DEF TypeOK
  <2>4. CASE Open \/ SpawnDone \/ CgWait \/ Abort
    <3>1. UNCHANGED <<cg, consumer>> /\ (StartFailed' \/ ~StartFailed)
      BY <2>4, ParallelismPositive
         DEF Open, SpawnDone, CgWait, Abort, Return, StartFailed, PhaseInv
    <3> QED BY <2>1, <3>1, <1>1, <1>2
  <2>5. CASE CloseAppenders \/ Compact \/ MoveBlocks
    <3>1. UNCHANGED <<cg, consumer>> /\ ~StartFailed
      BY <2>5 DEF CloseAppenders, Compact, MoveBlocks, Return, StartFailed, PhaseInv
    <3> QED BY <2>1, <3>1, <1>1, <1>2
  <2> QED BY <1>5, <2>2, <2>3, <2>4, <2>5 DEF MainNext
<1>6. CASE HelperDone \/ WatcherFires \/ UNCHANGED vars
  BY <1>6, <1>1, <1>2 DEF HelperDone, WatcherFires, Added, StartFailed, Live
<1> QED BY <1>3, <1>4, <1>5, <1>6 DEF Next, Returned

(* The next block begins when wg has reached zero, and not before.         *)
LEMMA BarrierStep ==
    ASSUME WriterInv, [Next]_vars
    PROVE  BarrierInv'
<1> USE DEF WriterInv, PipelineInv, BarrierInv, Added, TypeOK,
            vars, mainVars, syncVars, producerVars, consumerVars
<1>1. ASSUME ProducerNext PROVE BarrierInv'
  <2>1. CASE ProducerAdd
    BY <2>1 DEF ProducerAdd
  <2>2. ASSUME NEW c \in Consumers, Send(c) PROVE BarrierInv'
    BY <2>2 DEF Send
  <2>3. CASE ProducerWait \/ ProducerCancelled \/ ProducerFinish
    BY <2>3, EntryPairs DEF ProducerWait, ProducerCancelled, ProducerFinish
  <2>4. CASE ProducerProceed
    BY <2>4, EntryPairs DEF ProducerProceed
  <2> QED BY <1>1, <2>1, <2>2, <2>3, <2>4 DEF ProducerNext
<1>2. CASE HelperDone
  <2>1. Added \subseteq done
    BY <1>2, WgZero DEF HelperDone
  <2> QED BY <1>2, <2>1 DEF HelperDone
<1>3. ASSUME NEW c \in Consumers, ConsumerNext(c) PROVE BarrierInv'
  BY <1>3 DEF ConsumerNext, ConsumerStop, ExecuteOk, ExecuteFail, Cancel, ConsumerFailed
<1>4. CASE MainNext
  <2>1. CASE Open
    BY <2>1 DEF Open, Return, PhaseInv
  <2>2. CASE Spawn \/ SpawnFail \/ SpawnDone \/ CgWait \/ CloseAppenders
             \/ Compact \/ MoveBlocks \/ Abort
    BY <2>2 DEF Spawn, SpawnFail, SpawnDone, CgWait, CloseAppenders,
                Compact, MoveBlocks, Abort
  <2> QED BY <1>4, <2>1, <2>2 DEF MainNext
<1>5. CASE WatcherFires \/ UNCHANGED vars
  BY <1>5 DEF WatcherFires
<1> QED BY <1>1, <1>2, <1>3, <1>4, <1>5 DEF Next, Returned

(* Who may stop, and why: a failure, the end of the plan, or the end of    *)
(* Run.                                                                    *)
LEMMA CancelStep ==
    ASSUME WriterInv, [Next]_vars
    PROVE  CancelInv'
<1> USE DEF WriterInv, PipelineInv, CancelInv, TypeOK,
            vars, mainVars, syncVars, producerVars, consumerVars
<1>1. CASE ProducerNext
  <2> USE DEF Joined, StartFailed
  <2>1. CASE ProducerAdd \/ ProducerWait \/ ProducerProceed
    BY <2>1 DEF ProducerAdd, ProducerWait, ProducerProceed
  <2>2. ASSUME NEW c \in Consumers, Send(c) PROVE CancelInv'
    BY <2>2 DEF Send
  <2>3. CASE ProducerCancelled \/ ProducerFinish
    BY <2>3 DEF ProducerCancelled, ProducerFinish
  <2> QED BY <1>1, <2>1, <2>2, <2>3 DEF ProducerNext
<1>2. ASSUME NEW c \in Consumers, ConsumerNext(c) PROVE CancelInv'
  <2> USE DEF Joined, StartFailed, Executing, EntryInv
  <2>1. CASE ConsumerStop(c)
    BY <2>1 DEF ConsumerStop
  <2>2. CASE ExecuteOk(c)
    BY <2>2, WgPositive DEF ExecuteOk
  <2>3. CASE ExecuteFail(c)
    BY <2>3 DEF ExecuteFail, Cancel
  <2>4. CASE ConsumerFailed(c)
    BY <2>4 DEF ConsumerFailed
  <2> QED BY <1>2, <2>1, <2>2, <2>3, <2>4 DEF ConsumerNext
<1>3. ASSUME MainNext PROVE CancelInv'
  <2> USE DEF Joined, StartFailed, PhaseInv
  <2>1. CASE Open
    BY <2>1, ParallelismPositive DEF Open, Return
  <2>2. CASE Spawn
    BY <2>2 DEF Spawn
  <2>3. CASE SpawnFail \/ SpawnDone
    BY <2>3 DEF SpawnFail, SpawnDone
  <2>4. CASE CgWait
    <3>1. \A c \in Consumers : consumer[c] = "stopped"
      BY <2>4, CgZero DEF CgWait
    <3>2. 1 \in Consumers
      BY ParallelismPositive DEF Consumers
    <3>3. failed # {} \/ blk > NumBlocks
      BY <2>4, <3>1, <3>2 DEF CgWait
    <3>4. failed # {} \/ done = Entries
      <4>1. ASSUME blk > NumBlocks, NEW e \in Entries PROVE e \in done
        <5>1. e[1] \in 1 .. NumBlocks
          BY EntryPairs
        <5>2. e[1] < blk
          BY <4>1, <5>1, PlanAssumption
        <5> QED BY <5>2 DEF BarrierInv
      <4> QED BY <3>3, <4>1
    <3> QED BY <2>4, <3>4 DEF CgWait
  <2>5. CASE CloseAppenders \/ Compact \/ MoveBlocks
    BY <2>5 DEF CloseAppenders, Compact, MoveBlocks, Return
  <2>6. CASE Abort
    BY <2>6 DEF Abort, Return
  <2> QED BY <1>3, <2>1, <2>2, <2>3, <2>4, <2>5, <2>6 DEF MainNext
<1>4. CASE HelperDone \/ WatcherFires \/ UNCHANGED vars
  BY <1>4 DEF HelperDone, WatcherFires, Joined, StartFailed
<1> QED BY <1>1, <1>2, <1>3, <1>4 DEF Next, Returned

(* Where Run is, which consumers exist then and whose appender is open.    *)
LEMMA PhaseStep ==
    ASSUME WriterInv, [Next]_vars
    PROVE  PhaseInv'
<1> USE DEF WriterInv, PipelineInv, PhaseInv, TypeOK,
            vars, mainVars, syncVars, producerVars, consumerVars
<1>1. CASE ProducerNext
  <2> USE DEF Joined
  <2>1. ASSUME NEW c \in Consumers, Send(c) PROVE PhaseInv'
    BY <2>1 DEF Send
  <2>2. CASE ProducerAdd \/ ProducerWait \/ ProducerProceed
             \/ ProducerCancelled \/ ProducerFinish
    BY <2>2 DEF ProducerAdd, ProducerWait, ProducerProceed, ProducerCancelled, ProducerFinish
  <2> QED BY <1>1, <2>1, <2>2 DEF ProducerNext
<1>2. ASSUME NEW c \in Consumers, ConsumerNext(c) PROVE PhaseInv'
  BY <1>2 DEF ConsumerNext, ConsumerStop, ExecuteOk, ExecuteFail, Cancel, ConsumerFailed, Joined
<1>3. ASSUME MainNext PROVE PhaseInv'
  <2> USE DEF Joined
  <2>1. CASE Open
    BY <2>1, ParallelismPositive DEF Open, Return, Consumers
  <2>2. CASE Spawn
    <3>1. spawned + 1 \in Consumers
      BY <2>2, ParallelismPositive DEF Spawn, Consumers
    <3>2. \A c \in Consumers : consumer'[c] = "none" <=> c > spawned'
      BY <2>2, <3>1 DEF Spawn, Consumers
    <3>3. \A c \in Consumers : consumer'[c] # "none" => appender'[c] = "open"
      BY <2>2, <3>1 DEF Spawn
    <3>4. run' = "spawn" /\ published' = "none"
      BY <2>2 DEF Spawn
    <3> QED BY <3>2, <3>3, <3>4
  <2>3. CASE SpawnFail
    BY <2>3 DEF SpawnFail
  <2>4. CASE SpawnDone
    BY <2>4 DEF SpawnDone
  <2>5. CASE CgWait
    BY <2>5, CgZero DEF CgWait
  <2>6. CASE CloseAppenders \/ Compact \/ MoveBlocks \/ Abort
    BY <2>6 DEF CloseAppenders, Compact, MoveBlocks, Abort, Return
  <2> QED BY <1>3, <2>1, <2>2, <2>3, <2>4, <2>5, <2>6 DEF MainNext
<1>4. CASE HelperDone \/ WatcherFires \/ UNCHANGED vars
  BY <1>4 DEF HelperDone, WatcherFires, Joined
<1> QED BY <1>1, <1>2, <1>3, <1>4 DEF Next, Returned

-----------------------------------------------------------------------------
(* The theorems.                                                           *)

(* PipelineInv holds in every run of the pipeline.                         *)
THEOREM Invariance == Spec => []WriterInv
<1>1. WriterInv /\ [Next]_vars => WriterInv'
  BY TypeStep, EntryStep, WaitGroupStep, BarrierStep, CancelStep, PhaseStep
     DEF WriterInv, PipelineInv
<1> QED BY InitInv, <1>1, PTL DEF Spec

(* Every variable keeps its type; cg and wg, of which a negative value     *)
(* panics, stay natural numbers.                                           *)
THEOREM TypeCorrect == Spec => []TypeOK
<1>1. WriterInv => TypeOK
  BY DEF WriterInv
<1> QED BY Invariance, <1>1, PTL

(* The WaitGroup of the entries counts the ones that are not written.      *)
THEOREM WgCorrect == Spec => []WgCountsOpenEntries
<1>1. WriterInv => WgCountsOpenEntries
  BY DEF WriterInv, PipelineInv, WaitGroupInv
<1> QED BY Invariance, <1>1, PTL

(* No entry is handed to two consumers.                                    *)
THEOREM EntriesNotShared == Spec => []NoSharedEntry
<1>1. WriterInv => NoSharedEntry
  BY DEF WriterInv, PipelineInv
<1> QED BY Invariance, <1>1, PTL

(* No consumer works on a block before the earlier ones are written.       *)
LEMMA BarrierFromInv == WriterInv => BlockBarrier
<1> SUFFICES ASSUME WriterInv, NEW c \in Executing, NEW f \in EarlierBlocks(cur[c])
             PROVE  f \in done
  BY DEF BlockBarrier
<1>1. cur[c] \in Added
  BY DEF WriterInv, PipelineInv, EntryInv, Sent
<1>2. f \in Entries /\ f[1] < cur[c][1]
  BY DEF EarlierBlocks
<1>3. cur[c][1] <= blk
  BY <1>1, EntryPairs DEF Added, WriterInv, TypeOK
<1>4. f[1] < blk
  BY <1>1, <1>2, <1>3, EntryPairs DEF Added, WriterInv, TypeOK
<1> QED BY <1>2, <1>4 DEF WriterInv, PipelineInv, BarrierInv

THEOREM BarrierCorrect == Spec => []BlockBarrier
BY Invariance, BarrierFromInv, PTL

(* No consumer adds samples to an appender that Run has closed.            *)
LEMMA AppendersFromInv == WriterInv => NoAddAfterClose
<1> SUFFICES ASSUME WriterInv, NEW c \in Executing, ~StartFailed
             PROVE  appender[c] = "open"
  BY DEF NoAddAfterClose
<1>1. c \in Consumers /\ consumer[c] = "exec"
  BY DEF Executing
<1>2. ~Joined
  BY <1>1 DEF WriterInv, PipelineInv, PhaseInv
<1>3. run \in {"start", "spawn", "cgwait"}
  BY <1>2, ParallelismPositive DEF Joined, StartFailed, WriterInv, TypeOK, PipelineInv, PhaseInv
<1> QED BY <1>1, <1>3 DEF WriterInv, PipelineInv, PhaseInv

THEOREM AppendersCorrect == Spec => []NoAddAfterClose
BY Invariance, AppendersFromInv, PTL

(* What is published without a failure is the whole plan.                  *)
LEMMA PublishFromInv == WriterInv => CompletePublish
BY DEF WriterInv, PipelineInv, CancelInv, PhaseInv, CompletePublish

THEOREM PublishCorrect == Spec => []CompletePublish
BY Invariance, PublishFromInv, PTL

(* A consumer never receives an entry out of the order of the plan.        *)
THEOREM OrderCorrect == Spec => InPlanOrder
<1> DEFINE Ordered == \A c \in Consumers : cur'[c] # cur[c] => Precedes(cur[c], cur'[c])
<1>1. ASSUME WriterInv, [Next]_vars PROVE [Ordered]_vars
  <2> USE DEF vars, mainVars, syncVars, producerVars, consumerVars
  <2>1. ASSUME NEW c \in Consumers, Send(c) PROVE Ordered
    <3>1. cur' = [cur EXCEPT ![c] = <<blk, pos>>] /\ cur \in [Consumers -> Entries \cup {NoEntry}]
      BY <1>1, <2>1 DEF Send, WriterInv, TypeOK
    <3>2. blk \in Nat /\ pos \in Nat /\ blk >= 1 /\ pos >= 1
      BY <1>1, PlanAssumption DEF WriterInv, TypeOK
    <3>3. cur[c] = NoEntry \/ cur[c] \in Sent
      BY <1>1 DEF WriterInv, PipelineInv, EntryInv
    <3>4. Precedes(cur[c], <<blk, pos>>)
      BY <3>2, <3>3, EntryPairs DEF Precedes, Sent, Added, NoEntry
    <3> QED BY <3>1, <3>4
  <2>2. CASE UNCHANGED cur
    BY <2>2
  <2>3. UNCHANGED cur \/ \E c \in Consumers : Send(c)
    BY <1>1 DEF Next, ProducerNext, ConsumerNext, MainNext, ProducerAdd, ProducerWait,
                ProducerProceed, ProducerCancelled, ProducerFinish, HelperDone, ConsumerStop,
                ExecuteOk, ExecuteFail, Cancel, ConsumerFailed, WatcherFires, Open, Spawn, SpawnFail,
                SpawnDone, CgWait, CloseAppenders, Compact, MoveBlocks, Abort, Returned
  <2> QED BY <2>1, <2>2, <2>3
<1> QED BY Invariance, <1>1, PTL DEF Spec, InPlanOrder

-----------------------------------------------------------------------------
(* The goroutines implement PlannedWrite.                                  *)

LEMMA SamePlan ==
    /\ Job!Entries = Entries
    /\ \A e \in Entries : Job!EarlierBlocks(e) = EarlierBlocks(e)
BY DEF Job!Entries, Job!EntriesOf, Job!EarlierBlocks, Entries, EntriesOf, EarlierBlocks

(* While a consumer executes, Run has published nothing.                   *)
LEMMA ExecutingOutcome ==
    ASSUME WriterInv, NEW c \in Executing
    PROVE  outcome \in {"running", "error"}
<1>1. ~Joined
  BY DEF Executing, WriterInv, PipelineInv, PhaseInv
<1>2. published = "none"
  BY <1>1 DEF WriterInv, PipelineInv, PhaseInv
<1> QED BY <1>2 DEF outcome

LEMMA ImplementationStep ==
    ASSUME WriterInv, [Next]_vars
    PROVE  [Job!Next]_(Job!vars)
<1> USE DEF vars, mainVars, syncVars, producerVars, consumerVars, Job!vars
<1>1. ASSUME NEW c \in Consumers, ExecuteOk(c) \/ ExecuteFail(c)
      PROVE  Job!Next
  <2>1. c \in Executing
    BY <1>1 DEF ExecuteOk, ExecuteFail, Cancel, Executing
  <2>2. cur[c] \in Entries /\ cur[c] \notin done \cup failed
    BY <2>1, WgPositive DEF Executing, WriterInv, PipelineInv, EntryInv
  <2>3. EarlierBlocks(cur[c]) \subseteq done
    BY <2>1, BarrierFromInv DEF BlockBarrier
  <2>4. Job!Startable(cur[c])
    BY <2>1, <2>2, <2>3, SamePlan, ExecutingOutcome DEF Job!Startable
  <2>5. outcome' = outcome
    BY <1>1 DEF ExecuteOk, ExecuteFail, Cancel, outcome
  <2>6. Job!Complete(cur[c]) \/ Job!Fail(cur[c])
    BY <1>1, <2>4, <2>5 DEF ExecuteOk, ExecuteFail, Cancel, Job!Complete, Job!Fail
  <2> QED BY <2>2, <2>6, SamePlan DEF Job!Next
<1>2. ASSUME NEW c \in Consumers, ConsumerStop(c) \/ ConsumerFailed(c)
      PROVE  UNCHANGED Job!vars
  BY <1>2 DEF ConsumerStop, ConsumerFailed, outcome
<1>3. ASSUME ProducerNext \/ HelperDone \/ WatcherFires
      PROVE  UNCHANGED Job!vars
  <2>1. UNCHANGED <<run, published, done, failed>>
    BY <1>3 DEF ProducerNext, ProducerAdd, Send, ProducerWait, ProducerProceed,
                ProducerCancelled, ProducerFinish, HelperDone, WatcherFires
  <2> QED BY <2>1 DEF outcome
<1>4. ASSUME MainNext
      PROVE  [Job!Next]_(Job!vars)
  <2>1. UNCHANGED <<done, failed>>
    BY <1>4 DEF MainNext, Open, Spawn, SpawnFail, SpawnDone, CgWait, CloseAppenders,
                Compact, MoveBlocks, Abort, Return
  <2>2. CASE MoveBlocks /\ published' # "none"
    <3>1. published = "none" /\ outcome = "running"
      BY <2>2 DEF MoveBlocks, WriterInv, PipelineInv, PhaseInv, outcome
    <3>2. failed = {} => done = Job!Entries
      BY <2>2, SamePlan DEF MoveBlocks, WriterInv, PipelineInv, CancelInv, Joined
    <3>3. outcome' \in {"published", "partial"}
      BY <2>2 DEF MoveBlocks, outcome
    <3> QED BY <2>1, <3>1, <3>2, <3>3 DEF Job!Publish, Job!Next
  <2>3. CASE UNCHANGED published
    <3>1. run \notin {"done"} /\ published = "none"
      BY <1>4 DEF MainNext, Open, Spawn, SpawnFail, SpawnDone, CgWait, CloseAppenders,
                  Compact, MoveBlocks, Abort, WriterInv, PipelineInv, PhaseInv
    <3>2. CASE run = "abort"
      <4>1. run' = "done"
        BY <1>4, <3>2 DEF MainNext, Open, Spawn, SpawnFail, SpawnDone, CgWait,
                          CloseAppenders, Compact, MoveBlocks, Abort, Return
      <4>2. UNCHANGED outcome
        BY <2>3, <3>2, <4>1 DEF outcome
      <4> QED BY <2>1, <4>2
    <3>3. CASE run # "abort"
      <4>1. outcome = "running" /\ outcome' \in {"running", "error"}
        BY <2>3, <3>1, <3>3 DEF outcome
      <4> QED BY <2>1, <4>1 DEF Job!GiveUp, Job!Next
    <3> QED BY <3>2, <3>3
  <2>4. (MoveBlocks /\ published' # "none") \/ UNCHANGED published
    BY <1>4 DEF MainNext, Open, Spawn, SpawnFail, SpawnDone, CgWait, CloseAppenders,
                Compact, MoveBlocks, Abort, WriterInv, PipelineInv, PhaseInv, Joined
  <2> QED BY <2>2, <2>3, <2>4
<1>5. CASE UNCHANGED vars
  BY <1>5 DEF outcome
<1> QED BY <1>1, <1>2, <1>3, <1>4, <1>5 DEF Next, ConsumerNext, Returned

(* Every run of the goroutines is a run of the abstract job: entries are   *)
(* executed at most once and block by block, and the result is published   *)
(* at most once, when nothing is executed any more.                        *)
THEOREM Implementation == Spec => ImplementsPlannedWrite
<1>1. Init => Job!Init
  BY DEF Init, Job!Init, outcome
<1> QED BY Invariance, ImplementationStep, <1>1, PTL
        DEF Spec, ImplementsPlannedWrite, Job!Spec
=============================================================================
