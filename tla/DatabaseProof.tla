--------------------------- MODULE DatabaseProof ----------------------------
(***************************************************************************)
(* Proofs about the appenders of lib/database, from two sides.             *)
(*                                                                         *)
(* Appender, what becomes of the samples: for any timestamps, any number   *)
(* of calls, any maxSamplesInMemory and any length of the window.          *)
(*                                                                         *)
(* AppendLocks, the mutex of the database: for every number of consumers   *)
(* and of samples.  LocksInv is inductive; that a writer is alone follows  *)
(* from the count of the readers and from who holds the lock of the        *)
(* writers.                                                                *)
(***************************************************************************)
EXTENDS Appender, AppendLocks, FiniteSetTheorems, TLAPS

(* Adding what the tsdb took to a finite set of samples.                   *)
LEMMA TakenSize ==
    ASSUME NEW S, IsFiniteSet(S), NEW s, NEW taken \in Taken(s)
    PROVE  /\ IsFiniteSet(S \cup taken)
           /\ Cardinality(S \cup taken) \in Nat
           /\ Cardinality(S \cup taken) <= Cardinality(S) + 1
<1>1. Cardinality(S) \in Nat
  BY FS_CardinalityType
<1>2. CASE taken = {}
  <2>1. S \cup taken = S
    BY <1>2
  <2>2. IsFiniteSet(S \cup taken) /\ Cardinality(S \cup taken) = Cardinality(S)
    BY <2>1, Zenon
  <2> QED BY <1>1, <2>2
<1>3. CASE taken = {s}
  <2>1. IsFiniteSet(S \cup {s})
        /\ Cardinality(S \cup {s}) = IF s \in S THEN Cardinality(S) ELSE Cardinality(S) + 1
    BY FS_AddElement
  <2> QED BY <1>1, <1>3, <2>1
<1> QED BY <1>2, <1>3 DEF Taken

(* The sample of a call, and what is taken of it, is a Sample.             *)
LEMMA TakenType ==
    ASSUME AppenderTypeOK, NEW t \in Timestamps, Calling(t),
           NEW taken \in Taken([id |-> addCalls + 1, t |-> t])
    PROVE  taken \subseteq Sample /\ addCalls' \in 0 .. MaxCalls
BY LimitAssumption DEF AppenderTypeOK, Calling, Taken, Sample

LEMMA AppenderInitInv == AppenderInit => AddInv
<1> SUFFICES ASSUME AppenderInit PROVE AddInv
  OBVIOUS
<1>1. AppenderTypeOK
  <2>1. addCalls \in 0 .. MaxCalls /\ blockStart \in Int /\ currentSampleCount \in Nat
    BY LimitAssumption DEF AppenderInit
  <2>2. stopped \in BOOLEAN /\ broken \in BOOLEAN /\ fatal \in BOOLEAN
    BY DEF AppenderInit
  <2> QED BY <2>1, <2>2 DEF AppenderInit, AppenderTypeOK
<1>2. AppenderInv
  BY LimitAssumption, FS_EmptySet
     DEF AppenderInit, AppenderInv, MemoryInv, WindowInv, LossInv, InWindow
<1> QED BY <1>1, <1>2 DEF AddInv

LEMMA AppenderTypeStep ==
    ASSUME AddInv, [AppenderNext]_appenderVars
    PROVE  AppenderTypeOK'
<1> USE DEF AddInv, appenderVars, data
<1>1. ASSUME NEW t \in Timestamps, AddSample(t) PROVE AppenderTypeOK'
  <2>1. Windowed(t) \in Int /\ currentSampleCount + 1 \in Nat
    BY TimestampAssumption DEF Windowed, AppenderTypeOK
  <2>2. PICK taken \in Taken([id |-> addCalls + 1, t |-> t]) :
          \/ head' = head \cup appended \cup taken /\ appended' = {} /\ currentSampleCount' = 0
          \/ head' = head /\ appended' = appended \cup taken
             /\ currentSampleCount' = currentSampleCount + 1
    BY <1>1 DEF AddSample
  <2>3. taken \subseteq Sample /\ addCalls' \in 0 .. MaxCalls
    BY <1>1, TakenType DEF AddSample
  <2> QED BY <1>1, <2>1, <2>2, <2>3 DEF AddSample, AppenderTypeOK
<1>2. ASSUME NEW t \in Timestamps, AddSampleFails(t) PROVE AppenderTypeOK'
  <2>1. Windowed(t) \in Int /\ currentSampleCount' \in Nat
    BY <1>2, TimestampAssumption DEF Windowed, AppenderTypeOK, AddSampleFails
  <2>2. appended' \subseteq Sample /\ addCalls' \in 0 .. MaxCalls
    BY <1>2, TakenType, LimitAssumption DEF AddSampleFails, Calling, AppenderTypeOK
  <2> QED BY <1>2, <2>1, <2>2 DEF AddSampleFails, AppenderTypeOK
<1>3. ASSUME NEW t \in Timestamps, AddAfterFlush(t) \/ AddAfterFlushFails(t) PROVE AppenderTypeOK'
  <2>1. appended' \subseteq Sample /\ addCalls' \in 0 .. MaxCalls /\ addCalls + 1 \in 1 .. MaxCalls
    BY <1>3, TakenType, LimitAssumption DEF AddAfterFlush, AddAfterFlushFails, Calling, AppenderTypeOK
  <2>2. Committed \subseteq Sample /\ blockStart' \in Int
    BY <1>3, LimitAssumption DEF Committed, AppenderTypeOK, AddAfterFlush, AddAfterFlushFails
  <2>3. stopped' \in BOOLEAN /\ broken' \in BOOLEAN /\ fatal' \in BOOLEAN
    BY <1>3 DEF AppenderTypeOK, AddAfterFlush, AddAfterFlushFails
  <2>4. currentSampleCount' \in Nat /\ head' = {}
    BY <1>3 DEF AddAfterFlush, AddAfterFlushFails
  <2>5. blocks' \subseteq Sample /\ lost' \subseteq Sample /\ flushers' \subseteq 1 .. MaxCalls
    BY <1>3, <2>1, <2>2 DEF AppenderTypeOK, AddAfterFlush, AddAfterFlushFails
  <2> QED BY <2>1, <2>2, <2>3, <2>4, <2>5 DEF AppenderTypeOK
<1>4. ASSUME NEW t \in Timestamps, FlushFails(t) PROVE AppenderTypeOK'
  BY <1>4, LimitAssumption DEF FlushFails, Calling, Committed, AppenderTypeOK
<1>5. CASE Close
  BY <1>5 DEF Close, Committed, AppenderTypeOK
<1>6. CASE CloseFails
  BY <1>6 DEF CloseFails, Committed, AppenderTypeOK
<1>7. CASE Finished \/ UNCHANGED appenderVars
  BY <1>7 DEF Finished, AppenderTypeOK
<1> QED BY <1>1, <1>2, <1>3, <1>4, <1>5, <1>6, <1>7 DEF AppenderNext

-----------------------------------------------------------------------------
(* Every step keeps the count and what is appended together.               *)
LEMMA MemoryStep ==
    ASSUME AddInv, [AppenderNext]_appenderVars
    PROVE  MemoryInv'
<1> USE LimitAssumption DEF MemoryInv, appenderVars, data
<1>0. AppenderTypeOK /\ MemoryInv /\ Cardinality(appended) \in Nat
  BY FS_CardinalityType DEF AddInv, AppenderInv
<1>e. IsFiniteSet({}) /\ Cardinality({}) = 0
  BY FS_EmptySet
<1>1. ASSUME NEW t \in Timestamps, AddSample(t) PROVE MemoryInv'
  <2>1. PICK taken \in Taken([id |-> addCalls + 1, t |-> t]) :
          \/ appended' = {} /\ currentSampleCount' = 0
          \/ /\ appended' = appended \cup taken
             /\ currentSampleCount' = currentSampleCount + 1
             /\ currentSampleCount + 1 < maxSamplesInMemory
    BY <1>0, <1>1 DEF AddSample, AppenderTypeOK
  <2>2. CASE appended' = {} /\ currentSampleCount' = 0
    BY <1>e, <2>2
  <2>3. CASE /\ appended' = appended \cup taken
             /\ currentSampleCount' = currentSampleCount + 1
             /\ currentSampleCount + 1 < maxSamplesInMemory
    <3>1. /\ IsFiniteSet(appended') /\ Cardinality(appended') \in Nat
          /\ Cardinality(appended') <= Cardinality(appended) + 1
      BY <1>0, <2>3, TakenSize
    <3>2. ~broken /\ ~fatal
      BY <1>1 DEF AddSample, Calling
    <3> QED BY <1>0, <2>3, <3>1, <3>2 DEF AppenderTypeOK
  <2> QED BY <2>1, <2>2, <2>3
<1>2. ASSUME NEW t \in Timestamps, AddSampleFails(t) PROVE MemoryInv'
  <2>1. broken'
    BY <1>2 DEF AddSampleFails
  <2>2. IsFiniteSet(appended')
    BY <1>0, <1>2, TakenSize DEF AddSampleFails
  <2> QED BY <2>1, <2>2
<1>3. ASSUME NEW t \in Timestamps, AddAfterFlush(t) PROVE MemoryInv'
  <2>1. PICK taken \in Taken([id |-> addCalls + 1, t |-> t]) : appended' = {} \cup taken
    BY <1>3 DEF AddAfterFlush
  <2>2. /\ IsFiniteSet(appended') /\ Cardinality(appended') \in Nat
        /\ Cardinality(appended') <= 0 + 1
    BY <1>e, <2>1, TakenSize
  <2>3. currentSampleCount' = 0
    BY <1>3 DEF AddAfterFlush
  <2> QED BY <2>2, <2>3
<1>4. ASSUME NEW t \in Timestamps, AddAfterFlushFails(t) PROVE MemoryInv'
  <2>1. appended' = {} /\ (broken' \/ fatal')
    BY <1>4 DEF AddAfterFlushFails
  <2> QED BY <1>e, <2>1
<1>5. ASSUME NEW t \in Timestamps, FlushFails(t) PROVE MemoryInv'
  <2>1. broken' /\ appended' \in SUBSET appended
    BY <1>5 DEF FlushFails
  <2> QED BY <1>0, <2>1, FS_Subset
<1>6. CASE Close \/ CloseFails
  <2>1. appended' = {} /\ (broken' \/ (broken' = broken /\ fatal' = fatal /\ currentSampleCount' = 0))
    BY <1>6 DEF Close, CloseFails
  <2> QED BY <1>e, <2>1
<1>7. CASE Finished \/ UNCHANGED appenderVars
  BY <1>0, <1>7 DEF Finished
<1> QED BY <1>1, <1>2, <1>3, <1>4, <1>5, <1>6, <1>7 DEF AppenderNext

(* What stays in memory stays within the window.                           *)
LEMMA WindowStep ==
    ASSUME AddInv, [AppenderNext]_appenderVars
    PROVE  WindowInv'
<1> USE LimitAssumption, TimestampAssumption DEF AddInv, AppenderInv, WindowInv, appenderVars, data
<1>1. ASSUME NEW t \in Timestamps, AddSample(t) \/ AddSampleFails(t) PROVE WindowInv'
  <2>1. flushers' = flushers /\ addCalls' = addCalls + 1 /\ addCalls \in Nat
    BY <1>1 DEF AddSample, AddSampleFails, Calling, AppenderTypeOK
  <2>2. blockStart' \in Nat /\ t <= blockStart' + blockFlushDuration
    BY <1>1 DEF AddSample, AddSampleFails, NeedsFlush, Windowed, AppenderTypeOK
  <2>3. blockStart' = blockStart \/ appended \cup head = {}
    BY <1>1 DEF AddSample, AddSampleFails, Windowed, AppenderTypeOK
  <2>4. \A s \in (appended \cup head)' : s \in appended \cup head \/ s.t = t
    BY <1>1 DEF AddSample, AddSampleFails, Taken
  <2>5. InWindow'
    BY <2>1, <2>2, <2>3, <2>4 DEF InWindow
  <2> QED BY <2>1, <2>2, <2>5
<1>2. ASSUME NEW t \in Timestamps, AddAfterFlush(t) \/ AddAfterFlushFails(t) PROVE WindowInv'
  <2>1. /\ flushers' = flushers \cup {addCalls + 1} /\ addCalls' = addCalls + 1 /\ addCalls \in Nat
        /\ blockStart' = blockStart + blockFlushDuration /\ blockStart >= 0
    BY <1>2 DEF AddAfterFlush, AddAfterFlushFails, Calling, NeedsFlush, AppenderTypeOK
  <2>2. \A s \in (appended \cup head)' : s.id = addCalls + 1
    BY <1>2 DEF AddAfterFlush, AddAfterFlushFails, Taken
  <2> QED BY <2>1, <2>2 DEF InWindow, AppenderTypeOK
<1>3. ASSUME NEW t \in Timestamps, FlushFails(t) PROVE WindowInv'
  BY <1>3 DEF FlushFails, Calling, Committed, InWindow, AppenderTypeOK
<1>4. CASE Close \/ CloseFails \/ Finished \/ UNCHANGED appenderVars
  BY <1>4 DEF Close, CloseFails, Finished, InWindow
<1> QED BY <1>1, <1>2, <1>3, <1>4 DEF AppenderNext

(* A sample is forgotten by a flush or a close right after its Add only.   *)
LEMMA LossStep ==
    ASSUME AddInv, [AppenderNext]_appenderVars
    PROVE  LossInv'
<1> USE LimitAssumption DEF AddInv, AppenderInv, LossInv, appenderVars, data, AppenderTypeOK
<1>1. ASSUME NEW t \in Timestamps, AddSample(t) PROVE LossInv'
  <2>1. UNCHANGED <<lost, flushers, broken, fatal>> /\ ~stopped /\ ~broken /\ ~fatal
    BY <1>1 DEF AddSample, Calling
  <2>2. appended' = {} \/ currentSampleCount' = currentSampleCount + 1
    BY <1>1 DEF AddSample
  <2>3. currentSampleCount' = 0 => appended' = {}
    BY <2>2
  <2> QED BY <2>1, <2>3
<1>2. ASSUME NEW t \in Timestamps, AddSampleFails(t) PROVE LossInv'
  BY <1>2 DEF AddSampleFails
<1>3. ASSUME NEW t \in Timestamps, AddAfterFlush(t) PROVE LossInv'
  <2>1. /\ ~stopped /\ ~broken /\ ~fatal
        /\ addCalls' = addCalls + 1 /\ flushers' = flushers \cup {addCalls + 1}
    BY <1>3 DEF AddAfterFlush, Calling
  <2>2. \A s \in appended' : s.id = addCalls + 1
    BY <1>3 DEF AddAfterFlush, Taken
  <2>3. \A s \in lost' : s \in lost \/ (s \in appended /\ currentSampleCount = 0)
    BY <1>3 DEF AddAfterFlush, Committed
  <2> QED BY <2>1, <2>2, <2>3
<1>4. ASSUME NEW t \in Timestamps, AddAfterFlushFails(t) PROVE LossInv'
  BY <1>4 DEF AddAfterFlushFails
<1>5. ASSUME NEW t \in Timestamps, FlushFails(t) PROVE LossInv'
  BY <1>5 DEF FlushFails
<1>6. CASE Close
  <2>1. /\ UNCHANGED <<flushers, broken, fatal, addCalls>> /\ stopped' /\ ~stopped /\ appended' = {}
    BY <1>6 DEF Close
  <2>2. \A s \in lost' : s \in lost \/ (s \in appended /\ currentSampleCount = 0)
    BY <1>6 DEF Close, Committed
  <2> QED BY <2>1, <2>2
<1>7. CASE CloseFails
  BY <1>7 DEF CloseFails
<1>8. CASE Finished \/ UNCHANGED appenderVars
  BY <1>8 DEF Finished
<1> QED BY <1>1, <1>2, <1>3, <1>4, <1>5, <1>6, <1>7, <1>8 DEF AppenderNext

-----------------------------------------------------------------------------
(* AppenderTypeOK and AppenderInv hold after any calls.                    *)
THEOREM Invariance == AppenderSpec => []AddInv
<1>1. AddInv /\ [AppenderNext]_appenderVars => AddInv'
  BY AppenderTypeStep, MemoryStep, WindowStep, LossStep DEF AddInv, AppenderInv
<1> QED BY AppenderInitInv, <1>1, PTL DEF AppenderSpec

(* The tsdb appender holds at most maxSamplesInMemory samples.             *)
THEOREM MemoryCorrect == AppenderSpec => []MemoryBounded
<1>1. AddInv => MemoryBounded
  <2> SUFFICES ASSUME AddInv, ~broken, ~fatal PROVE Cardinality(appended) <= maxSamplesInMemory
    BY DEF MemoryBounded
  <2>1. Cardinality(appended) \in Nat
    BY FS_CardinalityType DEF AddInv, AppenderInv, MemoryInv
  <2> QED BY <2>1, LimitAssumption DEF AddInv, AppenderInv, MemoryInv, AppenderTypeOK
<1> QED BY Invariance, <1>1, PTL

(* What is in memory lies in the window, but for the sample of a flush.    *)
THEOREM WindowCorrect == AppenderSpec => []InWindow
<1>1. AddInv => InWindow
  BY DEF AddInv, AppenderInv, WindowInv
<1> QED BY Invariance, <1>1, PTL

(* Without an error only the sample of a flush followed by another flush   *)
(* or the close is lost.                                                   *)
THEOREM LossCorrect == AppenderSpec => []LossOnlyBetweenFlushes
<1>1. AddInv => LossOnlyBetweenFlushes
  BY DEF AddInv, AppenderInv, LossInv, LossOnlyBetweenFlushes
<1> QED BY Invariance, <1>1, PTL

-----------------------------------------------------------------------------
(* The mutex                                                               *)

LEMMA ThreadFacts ==
    /\ Main \in Threads /\ Main \notin Consumers
    /\ \A c \in Consumers : c \in Threads /\ c \in Nat /\ c # Main
    /\ Nobody \notin Threads
BY ConsumerAssumption DEF Threads, Consumers, Main, Nobody

LEMMA ReadersFinite ==
    /\ IsFiniteSet(Reading) /\ Cardinality(Reading) \in Nat
    /\ IsFiniteSet(Asleep) /\ Cardinality(Asleep) \in Nat
    /\ Cardinality(Reading \cup Asleep) = Cardinality(Reading) + Cardinality(Asleep)
<1>1. IsFiniteSet(0 .. NumConsumers)
  BY ConsumerAssumption, FS_Interval
<1>2. Reading \subseteq 0 .. NumConsumers /\ Asleep \subseteq 0 .. NumConsumers
  BY ConsumerAssumption DEF Reading, Asleep, Threads, Consumers, Main
<1>3. IsFiniteSet(Reading) /\ IsFiniteSet(Asleep)
  BY <1>1, <1>2, FS_Subset
<1>4. Cardinality(Reading) \in Nat /\ Cardinality(Asleep) \in Nat
  BY <1>3, FS_CardinalityType
<1>5. Reading \cap Asleep = {}
  BY DEF Reading, Asleep
<1>6. Cardinality(Reading \cap Asleep) = 0
  BY <1>5, FS_EmptySet, Zenon
<1>7. Cardinality(Reading \cup Asleep)
         = Cardinality(Reading) + Cardinality(Asleep) - Cardinality(Reading \cap Asleep)
  BY <1>3, FS_Union
<1> QED BY <1>3, <1>4, <1>6, <1>7

(* Who holds the mutex for writing has waited for all who read.            *)
LEMMA HolderIsAlone ==
    ASSUME TypeOK, ReadersAreCounted, HolderInv, ~corrupt,
           NEW t \in Threads, at[t] \in {"writing", "unlock"}
    PROVE  /\ Reading = {} /\ Writing = {t} /\ w = t /\ pending
           /\ readerWait = 0 /\ readerSem = 0
           /\ readerCount = Cardinality(Asleep) /\ readerCount \in Nat
<1>1. w = t /\ w # Nobody /\ pending /\ readerWait = 0
  BY ThreadFacts DEF HolderInv
<1>2. readerWait = Cardinality(Reading) + readerSem
  BY <1>1 DEF ReadersAreCounted
<1>3. Cardinality(Reading) = 0 /\ readerSem = 0
  <2>1. readerSem \in Nat
    BY DEF TypeOK
  <2>2. Cardinality(Reading) \in Nat
    BY ReadersFinite
  <2> QED BY <1>1, <1>2, <2>1, <2>2
<1>4. Reading = {}
  BY <1>3, ReadersFinite, FS_EmptySet
<1>5. Writing = {t}
  BY <1>1 DEF HolderInv, Writing
<1> QED BY <1>1, <1>3, <1>4, <1>5, ReadersFinite DEF ReadersAreCounted

LEMMA InitInv == Init => LocksInv
<1> SUFFICES ASSUME Init PROVE LocksInv
  OBVIOUS
<1>1. Reading = {} /\ Asleep = {} /\ Writing = {}
  BY DEF Init, Reading, Asleep, Writing
<1>2. Cardinality(Reading) = 0 /\ Cardinality(Asleep) = 0
  BY <1>1, FS_EmptySet, Zenon
<1>3. TypeOK
  <2>1. at \in [Threads -> Places] /\ goal \in [Consumers -> {"add", "flush", "commit", "fail"}]
    BY DEF Init, Places
  <2>2. adds \in [Consumers -> 0 .. MaxAdds] /\ created \in 0 .. NumConsumers
    BY ConsumerAssumption, BoundAssumption DEF Init
  <2>3. w = Nobody /\ readerCount \in Int /\ readerWait \in Int /\ readerSem \in Nat
    BY DEF Init
  <2>4. pending \in BOOLEAN /\ startFailed \in BOOLEAN /\ closed \in BOOLEAN
        /\ corrupt \in BOOLEAN /\ emptied = {} /\ died = "no"
    BY DEF Init
  <2> QED BY <2>1, <2>2, <2>3, <2>4 DEF TypeOK
<1>4. WriterIsAlone
  BY <1>1 DEF WriterIsAlone
<1>5. ReadersAreCounted
  BY <1>2, ReadersFinite DEF Init, ReadersAreCounted
<1>6. HolderInv
  BY DEF Init, HolderInv
<1>7. ManagerInv
  BY ConsumerAssumption, ThreadFacts DEF Init, ManagerInv, Consumers
<1> QED BY <1>3, <1>4, <1>5, <1>6, <1>7 DEF LocksInv

-----------------------------------------------------------------------------
(* TypeOK in two parts: the places of the threads, and the rest.           *)
PlacesOK == at \in [Threads -> Places]

LEMMA PlacesStep == LocksInv /\ Next => PlacesOK'
<1> SUFFICES ASSUME LocksInv, Next PROVE PlacesOK'
  OBVIOUS
<1> USE ThreadFacts DEF LocksInv, PlacesOK
<1>1. at \in [Threads -> Places]
  BY DEF TypeOK
<1>2. ASSUME NEW t \in Threads, NEW from \in Places, NEW to \in Places, Moves(t, from, to)
      PROVE  PlacesOK'
  BY <1>1, <1>2 DEF Moves
<1>3. ASSUME NEW c \in Consumers, AddBegins(c) PROVE PlacesOK'
  BY <1>2, <1>3 DEF AddBegins, Places
<1>4. ASSUME NEW c \in Consumers, AddLocks(c) PROVE PlacesOK'
  BY <1>2, <1>4 DEF AddLocks, RLock, Places
<1>5. ASSUME NEW c \in Consumers, WakeReader(c) \/ ConsumerStops(c) \/ WriteSection(c)
      PROVE  PlacesOK'
  BY <1>2, <1>5 DEF WakeReader, ConsumerStops, WriteSection, Places
<1>6. ASSUME NEW c \in Consumers, ReadSection(c) \/ LateError(c) \/ AppendToNil(c)
      PROVE  PlacesOK'
  BY <1>1, <1>2, <1>6 DEF ReadSection, LateError, AppendToNil, Places
<1>7. ASSUME NEW t \in Threads, Lock(t) PROVE PlacesOK'
  BY <1>2, <1>7 DEF Lock, Places
<1>8. ASSUME NEW t \in Threads, WakeWriter(t) PROVE PlacesOK'
  BY <1>2, <1>8 DEF WakeWriter, Places
<1>9. ASSUME NEW c \in Consumers, AddEnds(c) PROVE PlacesOK'
  BY <1>2, <1>9 DEF AddEnds, Places
<1>10. CASE NewAppender
  BY <1>1, <1>10 DEF NewAppender, Places
<1>11. CASE StartFails \/ CloseBegins \/ CloseEnds
  BY <1>2, <1>11 DEF StartFails, CloseBegins, CloseEnds, Places
<1>12. CASE Ended
  BY <1>1, <1>12 DEF Ended, vars
<1> QED BY <1>3, <1>4, <1>5, <1>6, <1>7, <1>8, <1>9, <1>10, <1>11, <1>12
        DEF Next, ConsumerNext, MainNext

LEMMA TypeStep == LocksInv /\ Next => TypeOK'
<1> SUFFICES ASSUME LocksInv, Next PROVE TypeOK'
  OBVIOUS
<1> USE DEF LocksInv
<1>1. w' \in Threads \cup {Nobody} /\ pending' \in BOOLEAN
  BY ThreadFacts DEF TypeOK, Next, ConsumerNext, MainNext, AddBegins, AddLocks, RLock,
     WakeReader, ReadSection, RUnlock, AppendToNil, Lock, WakeWriter, WriteSection,
     LateError, AddEnds, ConsumerStops, NewAppender, StartFails, CloseBegins, CloseEnds,
     Unlock, Ended, vars, mutex
<1>2. readerCount' \in Int /\ readerWait' \in Int /\ readerSem' \in Nat
  <2>1. readerCount \in Int /\ readerWait \in Int /\ readerSem \in Nat
    BY DEF TypeOK
  <2>2. \/ UNCHANGED <<readerCount, readerWait, readerSem>>
        \/ \E c \in Consumers, p \in Places : RLock(c, p)
        \/ readerSem > 0 /\ readerSem' = readerSem - 1 /\ UNCHANGED <<readerCount, readerWait>>
        \/ RUnlock \/ Unlock
        \/ \E t \in Threads : Lock(t)
    BY DEF Next, ConsumerNext, MainNext, AddBegins, AddLocks, WakeReader, ReadSection,
       AppendToNil, WakeWriter, WriteSection, LateError, AddEnds, ConsumerStops,
       NewAppender, StartFails, CloseBegins, CloseEnds, Ended, vars, mutex, Places,
       Threads
  <2>3. CASE \E c \in Consumers, p \in Places : RLock(c, p)
    BY <2>1, <2>3 DEF RLock
  <2>4. CASE RUnlock
    BY <2>1, <2>4 DEF RUnlock
  <2>5. CASE Unlock
    BY <2>1, <2>5 DEF Unlock
  <2>6. CASE \E t \in Threads : Lock(t)
    BY <2>1, <2>6 DEF Lock
  <2> QED BY <2>1, <2>2, <2>3, <2>4, <2>5, <2>6
<1>3. goal' \in [Consumers -> {"add", "flush", "commit", "fail"}]
  BY DEF TypeOK, Next, ConsumerNext, MainNext, AddBegins, AddLocks, WakeReader,
     ReadSection, AppendToNil, Lock, WakeWriter, WriteSection, LateError, AddEnds,
     ConsumerStops, NewAppender, StartFails, CloseBegins, CloseEnds, Ended, vars
<1>4. adds' \in [Consumers -> 0 .. MaxAdds]
  <2>1. ASSUME NEW c \in Consumers, AddBegins(c) PROVE adds' \in [Consumers -> 0 .. MaxAdds]
    <3>1. adds \in [Consumers -> 0 .. MaxAdds] /\ adds[c] < MaxAdds
          /\ adds' = [adds EXCEPT ![c] = adds[c] + 1]
      BY <2>1 DEF AddBegins, TypeOK
    <3>2. adds[c] + 1 \in 0 .. MaxAdds
      BY <3>1, BoundAssumption
    <3> QED BY <3>1, <3>2
  <2>2. CASE adds' = adds
    BY <2>2 DEF TypeOK
  <2> QED
    BY <2>1, <2>2 DEF Next, ConsumerNext, MainNext, AddLocks, WakeReader, ReadSection,
       AppendToNil, Lock, WakeWriter, WriteSection, LateError, AddEnds, ConsumerStops,
       NewAppender, StartFails, CloseBegins, CloseEnds, Ended, vars
<1>5. created' \in 0 .. NumConsumers
  <2>1. CASE NewAppender
    <3>1. created \in 0 .. NumConsumers /\ created < NumConsumers /\ created' = created + 1
      BY <2>1 DEF NewAppender, TypeOK
    <3> QED BY <3>1, ConsumerAssumption
  <2>2. CASE created' = created
    BY <2>2 DEF TypeOK
  <2> QED
    BY <2>1, <2>2 DEF Next, ConsumerNext, MainNext, AddBegins, AddLocks, WakeReader,
       ReadSection, AppendToNil, Lock, WakeWriter, WriteSection, LateError, AddEnds,
       ConsumerStops, StartFails, CloseBegins, CloseEnds, Ended, vars, manager
<1>6. startFailed' \in BOOLEAN /\ closed' \in BOOLEAN /\ emptied' \subseteq Consumers
  BY DEF TypeOK, Next, ConsumerNext, MainNext, AddBegins, AddLocks, WakeReader,
     ReadSection, AppendToNil, Lock, WakeWriter, WriteSection, LateError, AddEnds,
     ConsumerStops, NewAppender, StartFails, CloseBegins, CloseEnds, Ended, vars, manager
<1>7. corrupt' \in BOOLEAN /\ died' \in {"no", "unlock", "nil appender"}
  BY DEF TypeOK, Next, ConsumerNext, MainNext, AddBegins, AddLocks, WakeReader,
     ReadSection, AppendToNil, Lock, WakeWriter, WriteSection, LateError, AddEnds,
     ConsumerStops, NewAppender, StartFails, CloseBegins, CloseEnds, Ended, vars
<1> QED BY <1>1, <1>2, <1>3, <1>4, <1>5, <1>6, <1>7, PlacesStep DEF TypeOK, PlacesOK

(* HolderInv: the lock of the writers is taken when it is free, and given  *)
(* back by the one that has it.                                            *)
LEMMA HolderStep == LocksInv /\ Next => HolderInv'
<1> SUFFICES ASSUME LocksInv, Next PROVE HolderInv'
  OBVIOUS
<1> USE ThreadFacts DEF LocksInv
<1> DEFINE Held(t) == at[t] \in {"asleepW", "writing", "unlock"}
<1>1. ASSUME UNCHANGED <<w, pending, corrupt>>, readerWait' = readerWait \/ corrupt,
             NEW c \in Threads, ~Held(c), ~Held(c)',
             \A t \in Threads \ {c} : at'[t] = at[t]
      PROVE  HolderInv'
  BY <1>1 DEF HolderInv, TypeOK
<1>2. ASSUME NEW c \in Consumers, AddBegins(c) \/ AddLocks(c) \/ WakeReader(c)
                                  \/ ConsumerStops(c) \/ AppendToNil(c)
      PROVE  HolderInv'
  <2>1. /\ UNCHANGED <<w, pending, readerWait, corrupt>> /\ ~Held(c) /\ ~Held(c)'
        /\ \A t \in Threads \ {c} : at'[t] = at[t]
    BY <1>2 DEF AddBegins, AddLocks, RLock, WakeReader, ConsumerStops, AppendToNil, Moves,
                TypeOK, mutex
  <2> QED BY <1>1, <2>1
<1>3. ASSUME NEW c \in Consumers, ReadSection(c) PROVE HolderInv'
  <2>1. /\ UNCHANGED <<w, pending, corrupt>> /\ ~Held(c) /\ ~Held(c)'
        /\ \A t \in Threads \ {c} : at'[t] = at[t]
    BY <1>3 DEF ReadSection, RUnlock, Moves, TypeOK, mutex
  <2>2. ~corrupt /\ w # Nobody => at[w] = "asleepW"
    <3>1. c \in Reading /\ (w # Nobody => w \in Threads /\ Held(w))
      BY <1>3 DEF ReadSection, HolderInv, TypeOK, Reading
    <3> QED BY <3>1, HolderIsAlone
  <2>3. (w # Nobody => at'[w] = at[w]) /\ (pending <=> w # Nobody)
    BY <1>3, <2>1 DEF HolderInv, TypeOK
  <2> QED BY <2>1, <2>2, <2>3 DEF HolderInv, TypeOK
<1>4. ASSUME NEW t \in Threads, Lock(t) PROVE HolderInv'
  <2>1. /\ w = Nobody /\ w' = t /\ pending' = TRUE /\ corrupt' = corrupt
        /\ at'[t] = (IF readerCount # 0 /\ readerWait' # 0 THEN "asleepW" ELSE "writing")
        /\ readerWait' = readerWait + readerCount
        /\ \A s \in Threads \ {t} : at'[s] = at[s] /\ ~Held(s)
    BY <1>4 DEF Lock, Moves, TypeOK, HolderInv
  <2>2. ~corrupt => readerWait = 0
    BY <2>1 DEF HolderInv, ReadersAreCounted
  <2>3. ~corrupt' /\ at'[t] # "asleepW" => readerWait' = 0
    <3>1. readerCount \in Int
      BY DEF TypeOK
    <3> QED BY <2>1, <2>2, <3>1
  <2> QED BY <2>1, <2>3 DEF HolderInv
<1>5. ASSUME NEW t \in Threads, WakeWriter(t) PROVE HolderInv'
  BY <1>5 DEF WakeWriter, Moves, TypeOK, HolderInv, mutex
<1>6. ASSUME NEW c \in Consumers, WriteSection(c) \/ LateError(c) PROVE HolderInv'
  BY <1>6 DEF WriteSection, LateError, RUnlock, Moves, TypeOK, HolderInv, mutex
<1>7. ASSUME NEW t \in Threads, Held(t), Unlock, ~Held(t)',
             \A s \in Threads \ {t} : at'[s] = at[s] \/ at'[s] = "idle"
      PROVE  HolderInv'
  BY <1>7 DEF Unlock, HolderInv, TypeOK
<1>8. ASSUME NEW c \in Consumers, AddEnds(c) PROVE HolderInv'
  BY <1>7, <1>8 DEF AddEnds, Moves, TypeOK
<1>9. CASE NewAppender \/ StartFails \/ CloseEnds
  BY <1>7, <1>9 DEF NewAppender, StartFails, CloseEnds, Moves, TypeOK
<1>10. CASE CloseBegins
  BY <1>1, <1>10 DEF CloseBegins, Moves, TypeOK, mutex
<1>11. CASE Ended
  BY <1>11 DEF Ended, vars, mutex, HolderInv
<1> QED BY <1>2, <1>3, <1>4, <1>5, <1>6, <1>8, <1>9, <1>10, <1>11
        DEF Next, ConsumerNext, MainNext

-----------------------------------------------------------------------------
(* ReadersAreCounted, as long as the counter is not corrupt.               *)
LEMMA SameReaders ==
    ASSUME ReadersAreCounted, UNCHANGED <<readerCount, readerWait, readerSem, pending>>,
           corrupt' = corrupt,
           \A t \in Threads : /\ at'[t] = "reading" <=> at[t] = "reading"
                              /\ at'[t] = "asleepR" <=> at[t] = "asleepR"
    PROVE  ReadersAreCounted'
<1>1. Reading' = Reading
  BY DEF Reading
<1>2. Asleep' = Asleep
  BY DEF Asleep
<1> QED BY <1>1, <1>2 DEF ReadersAreCounted

(* Whoever gives the write lock back wakes exactly those who sleep.        *)
LEMMA Released ==
    ASSUME TypeOK, ReadersAreCounted, HolderInv,
           NEW t \in Threads, at[t] \in {"writing", "unlock"}, Unlock, corrupt' = corrupt,
           \A s \in Threads : /\ at'[s] = "reading" <=> at[s] = "reading"
                              /\ at'[s] = "asleepR" <=> at[s] = "asleepR"
    PROVE  ReadersAreCounted'
<1> SUFFICES ASSUME ~corrupt PROVE ReadersAreCounted'
  BY DEF ReadersAreCounted
<1>1. Reading' = Reading
  BY DEF Reading
<1>2. Asleep' = Asleep
  BY DEF Asleep
<1>3. /\ readerCount = Cardinality(Asleep) /\ readerCount \in Nat
      /\ readerSem = 0 /\ readerWait = 0
      /\ readerCount = Cardinality(Reading \cup Asleep)
  BY HolderIsAlone DEF ReadersAreCounted
<1>4. /\ readerCount' = readerCount /\ readerWait' = 0 /\ ~pending'
      /\ readerSem' = readerCount
  BY <1>3 DEF Unlock
<1> QED BY <1>1, <1>2, <1>3, <1>4 DEF ReadersAreCounted

LEMMA CountStep == LocksInv /\ Next => ReadersAreCounted'
<1> SUFFICES ASSUME LocksInv, Next PROVE ReadersAreCounted'
  OBVIOUS
<1> USE DEF LocksInv
<1> SUFFICES ASSUME ~corrupt, ~corrupt' PROVE ReadersAreCounted'
  <2>1. corrupt => corrupt'
    BY DEF TypeOK, Next, ConsumerNext, MainNext, AddBegins, AddLocks, WakeReader,
       ReadSection, AppendToNil, Lock, WakeWriter, WriteSection, LateError, AddEnds,
       ConsumerStops, NewAppender, StartFails, CloseBegins, CloseEnds, Ended, vars
  <2> QED BY <2>1 DEF ReadersAreCounted
<1> USE ThreadFacts
<1>0. /\ readerCount = Cardinality(Reading \cup Asleep)
      /\ pending => readerWait = Cardinality(Reading) + readerSem
      /\ ~pending => readerWait = 0 /\ readerSem = Cardinality(Asleep)
      /\ readerSem <= Cardinality(Asleep)
      /\ readerSem \in Nat
  BY DEF ReadersAreCounted, TypeOK
<1>1. ASSUME NEW c \in Consumers, AddBegins(c) \/ ConsumerStops(c) \/ WriteSection(c)
      PROVE  ReadersAreCounted'
  BY <1>1, SameReaders DEF AddBegins, ConsumerStops, WriteSection, Moves, TypeOK, mutex
<1>2. ASSUME NEW t \in Threads, WakeWriter(t) PROVE ReadersAreCounted'
  BY <1>2, SameReaders DEF WakeWriter, Moves, TypeOK, mutex
<1>3. ASSUME NEW c \in Consumers, AddLocks(c) PROVE ReadersAreCounted'
  <2>1. /\ c \notin Reading \cup Asleep /\ readerCount' = readerCount + 1
        /\ UNCHANGED <<pending, readerWait, readerSem>>
    BY <1>3 DEF AddLocks, RLock, Moves, Reading, Asleep
  <2>2. CASE pending
    <3>1. Reading' = Reading /\ Asleep' = Asleep \cup {c}
      BY <1>3, <2>2 DEF AddLocks, RLock, Moves, Reading, Asleep, TypeOK
    <3>2. Cardinality(Asleep \cup {c}) = Cardinality(Asleep) + 1
      BY <2>1, ReadersFinite, FS_AddElement
    <3>3. Cardinality(Asleep') = Cardinality(Asleep) + 1
      BY <3>1, <3>2, Zenon
    <3>4. Cardinality(Reading' \cup Asleep') = Cardinality(Reading \cup Asleep) + 1
      <4>1. Cardinality((Reading \cup Asleep) \cup {c}) = Cardinality(Reading \cup Asleep) + 1
        BY <2>1, ReadersFinite, FS_AddElement, FS_Union
      <4>2. Reading' \cup Asleep' = (Reading \cup Asleep) \cup {c}
        BY <3>1
      <4> QED BY <4>1, <4>2, Zenon
    <3> QED BY <1>0, <2>1, <2>2, <3>1, <3>3, <3>4, ReadersFinite DEF ReadersAreCounted
  <2>3. CASE ~pending
    <3>1. Reading' = Reading \cup {c} /\ Asleep' = Asleep
      BY <1>3, <2>3 DEF AddLocks, RLock, Moves, Reading, Asleep, TypeOK
    <3>2. Cardinality(Reading' \cup Asleep') = Cardinality(Reading \cup Asleep) + 1
      <4>1. Cardinality((Reading \cup Asleep) \cup {c}) = Cardinality(Reading \cup Asleep) + 1
        BY <2>1, ReadersFinite, FS_AddElement, FS_Union
      <4>2. Reading' \cup Asleep' = (Reading \cup Asleep) \cup {c}
        BY <3>1
      <4> QED BY <4>1, <4>2, Zenon
    <3> QED BY <1>0, <2>1, <2>3, <3>1, <3>2 DEF ReadersAreCounted
  <2> QED BY <2>2, <2>3
<1>4. ASSUME NEW c \in Consumers, WakeReader(c) PROVE ReadersAreCounted'
  <2>1. /\ c \in Asleep /\ c \notin Reading /\ readerSem > 0 /\ readerSem' = readerSem - 1
        /\ UNCHANGED <<pending, readerWait, readerCount>>
    BY <1>4 DEF WakeReader, Moves, Reading, Asleep
  <2>2. Reading' = Reading \cup {c} /\ Asleep' = Asleep \ {c}
    BY <1>4 DEF WakeReader, Moves, Reading, Asleep, TypeOK
  <2>3. /\ Cardinality(Reading \cup {c}) = Cardinality(Reading) + 1
        /\ Cardinality(Asleep \ {c}) = Cardinality(Asleep) - 1
    BY <2>1, ReadersFinite, FS_AddElement, FS_RemoveElement
  <2>4. /\ Cardinality(Reading') = Cardinality(Reading) + 1
        /\ Cardinality(Asleep') = Cardinality(Asleep) - 1
    BY <2>2, <2>3, Zenon
  <2>5. Reading' \cup Asleep' = Reading \cup Asleep
    BY <2>1, <2>2
  <2> QED BY <1>0, <2>1, <2>4, <2>5, ReadersFinite DEF ReadersAreCounted
<1>5. ASSUME NEW c \in Consumers, ReadSection(c) PROVE ReadersAreCounted'
  <2>1. CASE RUnlockFatal
    BY <1>5, <2>1, SameReaders DEF ReadSection, mutex
  <2>2. CASE ~RUnlockFatal
    <3>1. /\ c \in Reading /\ c \notin Asleep /\ readerCount' = readerCount - 1
          /\ readerWait' = (IF pending THEN readerWait - 1 ELSE readerWait)
          /\ UNCHANGED <<pending, readerSem>>
      BY <1>5, <2>2 DEF ReadSection, RUnlock, Reading, Asleep
    <3>2. Reading' = Reading \ {c} /\ Asleep' = Asleep
      BY <1>5, <2>2 DEF ReadSection, Moves, Reading, Asleep, TypeOK
    <3>3. Cardinality(Reading \ {c}) = Cardinality(Reading) - 1
      BY <3>1, ReadersFinite, FS_RemoveElement
    <3>4. Cardinality(Reading') = Cardinality(Reading) - 1
      BY <3>2, <3>3, Zenon
    <3>5. Cardinality(Reading' \cup Asleep') = Cardinality(Reading \cup Asleep) - 1
      <4>1. Cardinality((Reading \cup Asleep) \ {c}) = Cardinality(Reading \cup Asleep) - 1
        BY <3>1, ReadersFinite, FS_RemoveElement, FS_Union
      <4>2. Reading' \cup Asleep' = (Reading \cup Asleep) \ {c}
        BY <3>1, <3>2
      <4> QED BY <4>1, <4>2, Zenon
    <3> QED BY <1>0, <3>1, <3>2, <3>4, <3>5, ReadersFinite DEF ReadersAreCounted
  <2> QED BY <2>1, <2>2
<1>6. ASSUME NEW t \in Threads, Lock(t) PROVE ReadersAreCounted'
  <2>1. /\ ~pending /\ pending' /\ readerWait' = readerWait + readerCount
        /\ UNCHANGED <<readerCount, readerSem>>
    BY <1>6 DEF Lock, HolderInv, TypeOK
  <2>2. Reading' = Reading /\ Asleep' = Asleep
    BY <1>6 DEF Lock, Moves, Reading, Asleep, TypeOK
  <2> QED BY <1>0, <2>1, <2>2, ReadersFinite DEF ReadersAreCounted
<1>7. ASSUME NEW c \in Consumers, LateError(c) PROVE ReadersAreCounted'
  BY <1>7 DEF LateError
<1>8. ASSUME NEW c \in Consumers, AddEnds(c) PROVE ReadersAreCounted'
  BY <1>8, Released DEF AddEnds, Moves, TypeOK
<1>9. CASE NewAppender
  <2>1. created \in 0 .. NumConsumers /\ created < NumConsumers
    BY <1>9 DEF NewAppender, TypeOK
  <2>2. created + 1 \in Consumers /\ created + 1 > created
    BY <2>1, ConsumerAssumption DEF Consumers
  <2>3. at[created + 1] = "off"
    BY <2>2 DEF ManagerInv
  <2> QED BY <1>9, <2>2, <2>3, Released DEF NewAppender, TypeOK
<1>10. CASE StartFails \/ CloseEnds
  BY <1>10, Released DEF StartFails, CloseEnds, Moves, TypeOK
<1>11. CASE CloseBegins
  BY <1>11, SameReaders DEF CloseBegins, Moves, TypeOK, mutex
<1>12. ASSUME NEW c \in Consumers, AppendToNil(c) PROVE ReadersAreCounted'
  BY <1>12, SameReaders DEF AppendToNil, mutex
<1>13. CASE Ended
  BY <1>13, SameReaders DEF Ended, vars, mutex
<1> QED BY <1>1, <1>2, <1>3, <1>4, <1>5, <1>6, <1>7, <1>8, <1>9, <1>10, <1>11, <1>12,
           <1>13 DEF Next, ConsumerNext, MainNext

-----------------------------------------------------------------------------
(* ManagerInv: every consumer works on an appender that was made, and the  *)
(* appenders are closed when no consumer works, or after a failed start.   *)
LEMMA ManagerStep == LocksInv /\ Next => ManagerInv'
<1> SUFFICES ASSUME LocksInv, Next PROVE ManagerInv'
  OBVIOUS
<1> USE ThreadFacts DEF LocksInv
<1>1. ASSUME NEW c \in Consumers, at[c] # "off", at[c] # "stopped",
             at'[c] # "off", \A t \in Threads \ {c} : at'[t] = at[t],
             UNCHANGED manager
      PROVE  ManagerInv'
  BY <1>1 DEF ManagerInv, Joined, manager
<1>2. ASSUME NEW c \in Consumers, ConsumerNext(c) PROVE ManagerInv'
  <2>1. CASE UNCHANGED at
    <3>1. UNCHANGED manager
      BY <1>2 DEF ConsumerNext, AddBegins, AddLocks, WakeReader, ReadSection, AppendToNil,
         Lock, WakeWriter, WriteSection, LateError, AddEnds, ConsumerStops
    <3> QED BY <2>1, <3>1 DEF ManagerInv, Joined, manager
  <2>2. CASE ~UNCHANGED at
    <3>1. /\ at[c] # "off" /\ at[c] # "stopped" /\ at'[c] # "off"
          /\ \A t \in Threads \ {c} : at'[t] = at[t]
          /\ UNCHANGED manager
      BY <1>2, <2>2 DEF ConsumerNext, AddBegins, AddLocks, RLock, WakeReader, ReadSection,
         AppendToNil, Lock, WakeWriter, WriteSection, LateError, AddEnds, ConsumerStops,
         Moves, TypeOK
    <3> QED BY <1>1, <3>1
  <2> QED BY <2>1, <2>2
<1>3. CASE Lock(Main) \/ WakeWriter(Main)
  <2>1. /\ at[Main] \in {"lock", "asleepW"} /\ at'[Main] \in {"asleepW", "writing"}
        /\ \A t \in Consumers : at'[t] = at[t]
        /\ UNCHANGED manager
    BY <1>3 DEF Lock, WakeWriter, Moves, TypeOK
  <2> QED BY <2>1 DEF ManagerInv, Joined, manager
<1>4. CASE NewAppender
  <2>1. created \in 0 .. NumConsumers /\ created < NumConsumers /\ created' = created + 1
    BY <1>4 DEF NewAppender, TypeOK
  <2>2. created' \in Consumers /\ \A c \in Consumers : c > created' <=> c > created /\ c # created'
    BY <2>1, ConsumerAssumption DEF Consumers
  <2>3. /\ at[Main] = "writing" /\ ~startFailed /\ UNCHANGED <<startFailed, closed, emptied>>
        /\ at'[Main] = (IF created' = NumConsumers THEN "off" ELSE "lock")
        /\ at'[created'] = "idle"
        /\ \A t \in Threads \ {Main, created'} : at'[t] = at[t]
    BY <1>4, <2>2 DEF NewAppender, TypeOK
  <2> QED BY <2>1, <2>2, <2>3 DEF ManagerInv, Joined
<1>5. CASE StartFails \/ CloseBegins \/ CloseEnds
  <2>1. /\ at[Main] \in {"off", "writing"} /\ at'[Main] \in {"lock", "stopped"}
        /\ \A t \in Consumers : at'[t] = at[t]
        /\ created' = created
    BY <1>5 DEF StartFails, CloseBegins, CloseEnds, Moves, TypeOK, manager
  <2>2. Joined' <=> Joined
    BY <2>1 DEF Joined
  <2>3. CASE StartFails
    <3>1. at'[Main] = "lock" /\ startFailed' /\ UNCHANGED <<closed, emptied>>
      BY <2>3 DEF StartFails, Moves, TypeOK
    <3> QED BY <2>1, <2>3, <3>1 DEF StartFails, ManagerInv
  <2>4. CASE CloseBegins
    <3>1. at'[Main] = "lock" /\ Joined /\ UNCHANGED manager
      BY <2>4 DEF CloseBegins, Moves, TypeOK
    <3> QED BY <2>1, <2>2, <2>4, <3>1 DEF CloseBegins, Moves, ManagerInv, manager
  <2>5. CASE CloseEnds
    <3>1. /\ at[Main] = "writing" /\ at'[Main] = "stopped" /\ closed'
          /\ startFailed' = startFailed /\ (created = NumConsumers \/ startFailed)
      BY <2>5 DEF CloseEnds, Moves, TypeOK
    <3> QED BY <2>1, <2>2, <3>1 DEF ManagerInv
  <2> QED BY <1>5, <2>3, <2>4, <2>5
<1>6. CASE Ended
  BY <1>6 DEF Ended, vars, manager, ManagerInv, Joined
<1> QED BY <1>2, <1>3, <1>4, <1>5, <1>6 DEF Next, MainNext

-----------------------------------------------------------------------------
(* In every reachable state the read-write lock lets a writer of the       *)
(* database alone and counts its readers, unless an unlock too many has    *)
(* spoilt it, and the appenders are closed only when no Add can follow or  *)
(* after a failed start, for every number of consumers and samples.        *)
THEOREM LocksCorrect == Spec => []LocksInv
<1> DEFINE Counted == TypeOK /\ ReadersAreCounted /\ HolderInv /\ ManagerInv
<1>1. Init => Counted
  BY InitInv DEF LocksInv
<1>2. Counted => LocksInv
  BY HolderIsAlone DEF WriterIsAlone, Writing, LocksInv
<1>3. Counted /\ [Next]_vars => Counted'
  <2> SUFFICES ASSUME Counted, [Next]_vars PROVE Counted'
    OBVIOUS
  <2>1. CASE Next
    BY <1>2, <2>1, TypeStep, HolderStep, CountStep, ManagerStep
  <2>2. CASE UNCHANGED vars
    BY <2>2 DEF vars, mutex, manager, TypeOK, ReadersAreCounted, HolderInv, ManagerInv,
                Joined, Reading, Asleep
  <2> QED BY <2>1, <2>2
<1> QED BY <1>1, <1>2, <1>3, PTL DEF Spec

(* The process is killed by an RUnlock only after an append() that failed  *)
(* right after a flush, and by an append to a closed appender only after a *)
(* start that failed.                                                      *)
THEOREM KilledCorrect == Spec => []KilledOnlyByErrors
<1>1. Init => KilledOnlyByErrors
  BY DEF Init, KilledOnlyByErrors
<1>2. LocksInv /\ KilledOnlyByErrors /\ [Next]_vars => KilledOnlyByErrors'
  <2> SUFFICES ASSUME LocksInv, KilledOnlyByErrors, [Next]_vars PROVE KilledOnlyByErrors'
    OBVIOUS
  <2> USE ThreadFacts DEF LocksInv
  <2>0. (corrupt => corrupt') /\ (startFailed => startFailed')
    BY DEF TypeOK, Next, ConsumerNext, MainNext, AddBegins, AddLocks, WakeReader, ReadSection,
       AppendToNil, Lock, WakeWriter, WriteSection, LateError, AddEnds, ConsumerStops,
       NewAppender, StartFails, CloseBegins, CloseEnds, Ended, vars, manager
  <2>1. ASSUME NEW c \in Consumers, ReadSection(c), RUnlockFatal PROVE corrupt
    <3>1. c \in Reading \cup Asleep
      BY <2>1 DEF ReadSection, Reading
    <3>2. Cardinality(Reading \cup Asleep) # 0
      BY <3>1, ReadersFinite, FS_EmptySet, FS_Union
    <3> QED BY <2>1, <3>2 DEF RUnlockFatal, ReadersAreCounted
  <2>2. ASSUME NEW c \in Consumers, AppendToNil(c) PROVE startFailed
    <3>1. closed /\ at[c] = "reading"
      BY <2>2 DEF AppendToNil, ManagerInv
    <3> QED BY <3>1 DEF ManagerInv, Joined
  <2>3. ASSUME NEW c \in Consumers, ReadSection(c) \/ AppendToNil(c) \/ LateError(c)
        PROVE  KilledOnlyByErrors'
    <3>1. CASE ReadSection(c)
      BY <2>0, <2>1, <3>1 DEF ReadSection, KilledOnlyByErrors
    <3>2. CASE AppendToNil(c)
      BY <2>0, <2>2, <3>2 DEF AppendToNil, KilledOnlyByErrors
    <3>3. CASE LateError(c)
      BY <2>0, <3>3 DEF LateError, KilledOnlyByErrors
    <3> QED BY <2>3, <3>1, <3>2, <3>3
  <2>4. CASE died' = died
    BY <2>0, <2>4 DEF KilledOnlyByErrors
  <2> QED
    BY <2>3, <2>4 DEF Next, ConsumerNext, MainNext, AddBegins, AddLocks, WakeReader, Lock,
       WakeWriter, WriteSection, AddEnds, ConsumerStops, NewAppender, StartFails,
       CloseBegins, CloseEnds, Ended, vars
<1> QED BY <1>1, <1>2, LocksCorrect, PTL DEF Spec
=============================================================================
