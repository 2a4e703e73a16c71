---------------------------- MODULE AppendLocks -----------------------------
(***************************************************************************)
(* The one sync.RWMutex of a database (lib/database) and everybody who     *)
(* takes it while blocks are written: the consumers in safeAppender.Add,   *)
(* and plannedBlockWriter.Run in appendManager.NewAppender and Close, also *)
(* where it closes the appenders because a consumer could not be started,  *)
(* while earlier ones already add.  Later calls of Close do nothing.       *)
(*                                                                         *)
(* An Add appends under the read lock.  To flush its block or to commit it *)
(* gives the read lock back and takes the write lock, so that no appender  *)
(* of the database appends meanwhile.  What the samples go through is the  *)
(* subject of module Appender.                                             *)
(*                                                                         *)
(* The mutex is external and modelled as the Go runtime builds it: a count *)
(* of readers, a pending writer that makes new readers sleep, and the      *)
(* number of readers that writer still has to wait for.                    *)
(***************************************************************************)
EXTENDS Integers, FiniteSets

CONSTANTS NumConsumers,   \* config.Parallelism()
          MaxAdds         \* bound on the samples of a consumer

ASSUME ConsumerAssumption == NumConsumers \in Nat \ {0}
ASSUME BoundAssumption == MaxAdds \in Nat

Consumers == 1 .. NumConsumers
Main == 0
Threads == Consumers \cup {Main}
Nobody == -1

VARIABLES
    w,             \* the thread that holds the inner mutex of writers
    pending,       \* readerCount is lowered by rwmutexMaxReaders
    readerCount,   \* without that
    readerWait,
    readerSem,     \* readers released and not yet awake
    at,            \* where each thread is
    goal,          \* why a consumer holds, or will take, the lock
    adds,          \* samples each consumer has added
    created,       \* appenders made by Run
    startFailed,   \* Run returned before every consumer was started
    closed,        \* the appenders are stopped
    emptied,       \* those whose close() went well: their appender is nil
    corrupt,       \* a write-locked mutex was unlocked for reading
    died           \* what killed the process, if anything did

mutex == <<w, pending, readerCount, readerWait, readerSem>>
manager == <<created, startFailed, closed, emptied>>
vars == <<mutex, manager, at, goal, adds, corrupt, died>>

Places == {"off", "idle", "checked", "asleepR", "reading", "lock", "asleepW",
           "writing", "unlock", "stopped"}

TypeOK ==
    /\ w \in Threads \cup {Nobody}
    /\ pending \in BOOLEAN
    /\ readerCount \in Int /\ readerWait \in Int
    /\ readerSem \in Nat
    /\ at \in [Threads -> Places]
    /\ goal \in [Consumers -> {"add", "flush", "commit", "fail"}]
    /\ adds \in [Consumers -> 0 .. MaxAdds]
    /\ created \in 0 .. NumConsumers
    /\ startFailed \in BOOLEAN /\ closed \in BOOLEAN /\ emptied \subseteq Consumers
    /\ corrupt \in BOOLEAN
    /\ died \in {"no", "unlock", "nil appender"}

Init ==
    /\ w = Nobody /\ pending = FALSE
    /\ readerCount = 0 /\ readerWait = 0 /\ readerSem = 0
    /\ at = [t \in Threads |-> IF t = Main THEN "lock" ELSE "off"]
    /\ goal = [c \in Consumers |-> "add"]
    /\ adds = [c \in Consumers |-> 0]
    /\ created = 0 /\ startFailed = FALSE /\ closed = FALSE /\ emptied = {}
    /\ corrupt = FALSE /\ died = "no"

-----------------------------------------------------------------------------
(* sync.RWMutex                                                            *)

Moves(t, from, to) == at[t] = from /\ at' = [at EXCEPT ![t] = to]

RLock(c, from) ==
    /\ readerCount' = readerCount + 1
    /\ Moves(c, from, IF pending THEN "asleepR" ELSE "reading")
    /\ UNCHANGED <<w, pending, readerWait, readerSem>>

(* A writer wakes every reader that was waiting when it unlocks.           *)
WakeReader(c) ==
    /\ readerSem > 0
    /\ Moves(c, "asleepR", "reading")
    /\ readerSem' = readerSem - 1
    /\ UNCHANGED <<w, pending, readerCount, readerWait, manager, goal, adds, corrupt, died>>

(* The runtime dies of an RUnlock when there is nobody to unlock.          *)
RUnlockFatal == readerCount = 0

RUnlock ==
    /\ readerCount' = readerCount - 1
    /\ readerWait' = IF pending THEN readerWait - 1 ELSE readerWait
    /\ UNCHANGED <<w, pending, readerSem>>

(* The writer goes on without waiting for the readers before it.           *)
Lock_bug(t) ==
    /\ died = "no" /\ w = Nobody
    /\ w' = t /\ pending' = TRUE
    /\ Moves(t, "lock", "writing")
    /\ UNCHANGED <<readerCount, readerWait, readerSem, manager, goal, adds, corrupt, died>>

Lock(t) ==
    /\ died = "no" /\ w = Nobody
    /\ w' = t /\ pending' = TRUE
    /\ readerWait' = readerWait + readerCount
    /\ Moves(t, "lock", IF readerCount # 0 /\ readerWait' # 0 THEN "asleepW" ELSE "writing")
    /\ UNCHANGED <<readerCount, readerSem, manager, goal, adds, corrupt, died>>

(* The RUnlock that takes readerWait to 0 wakes the writer.                *)
WakeWriter(t) ==
    /\ w = t /\ readerWait = 0
    /\ Moves(t, "asleepW", "writing")
    /\ UNCHANGED <<mutex, manager, goal, adds, corrupt, died>>

Unlock ==
    /\ w' = Nobody /\ pending' = FALSE
    /\ readerSem' = readerSem + (IF readerCount > 0 THEN readerCount ELSE 0)
    /\ UNCHANGED <<readerCount, readerWait>>

-----------------------------------------------------------------------------
(* safeAppender.Add.  The definitions whose name ends in _bug are no part  *)
(* of the model: each is the definition after it with a plausible slip,    *)
(* which a property must find.                                             *)

(* Whether the appender is stopped is looked at before the lock is taken.  *)
AddBegins(c) ==
    /\ adds[c] < MaxAdds
    /\ Moves(c, "idle", IF closed THEN "stopped" ELSE "checked")
    /\ adds' = [adds EXCEPT ![c] = adds[c] + 1]
    /\ UNCHANGED <<mutex, manager, goal, corrupt, died>>

AddLocks(c) ==
    /\ RLock(c, "checked")
    /\ UNCHANGED <<manager, goal, adds, corrupt, died>>

(* Under the read lock: the sample is beyond the window and nothing is     *)
(* done (flush); it is appended, and that is all (add); the count is full  *)
(* (commit); append() fails (fail).  Then the RUnlock.                     *)
ReadSection(c) ==
    /\ at[c] = "reading"
    /\ IF RUnlockFatal
       THEN died' = "unlock" /\ UNCHANGED <<mutex, at, goal>>
       ELSE /\ RUnlock
            /\ UNCHANGED died
            /\ \/ c \notin emptied /\ Moves(c, "reading", "idle") /\ UNCHANGED goal
               \/ c \notin emptied /\ Moves(c, "reading", "stopped") /\ UNCHANGED goal
               \/ /\ \E g \in {"flush", "commit"} :
                        /\ g = "commit" => c \notin emptied
                        /\ goal' = [goal EXCEPT ![c] = g]
                  /\ Moves(c, "reading", "lock")
    /\ UNCHANGED <<manager, adds, corrupt>>

(* append() of an appender that was closed after the look at stopped.      *)
AppendToNil(c) ==
    /\ at[c] = "reading" /\ c \in emptied
    /\ died' = "nil appender"
    /\ UNCHANGED <<mutex, manager, at, goal, adds, corrupt>>

(* Under the write lock: flush() and the append after it, or Commit, each  *)
(* of which may fail.  flush() of a closed appender always does; Commit    *)
(* then is not reached, for close() has reset the count.                   *)
WriteSection(c) ==
    /\ Moves(c, "writing", "unlock")
    /\ \E g \in {"add", "fail"} :
          /\ closed /\ goal[c] = "flush" => g = "fail"
          /\ c \in emptied /\ goal[c] = "commit" => g = "add"
          /\ goal' = [goal EXCEPT ![c] = g]
    /\ UNCHANGED <<mutex, manager, adds, corrupt, died>>

(* append() fails after flush(): the deferred RUnlock runs before the      *)
(* deferred Unlock, on the mutex this consumer holds for writing.          *)
LateError(c) ==
    /\ at[c] = "writing" /\ goal[c] = "flush" /\ ~closed
    /\ corrupt' = TRUE
    /\ IF RUnlockFatal
       THEN died' = "unlock" /\ UNCHANGED <<mutex, at, goal>>
       ELSE /\ Moves(c, "writing", "unlock")
            /\ RUnlock
            /\ goal' = [goal EXCEPT ![c] = "fail"]
            /\ UNCHANGED died
    /\ UNCHANGED <<manager, adds>>

(* The error after the flush is returned with the lock held.               *)
AddEnds_bug(c) ==
    /\ Moves(c, "unlock", IF goal[c] = "fail" THEN "stopped" ELSE "idle")
    /\ IF goal[c] = "fail" THEN UNCHANGED mutex ELSE Unlock
    /\ UNCHANGED <<manager, goal, adds, corrupt, died>>

AddEnds(c) ==
    /\ Moves(c, "unlock", IF goal[c] = "fail" THEN "stopped" ELSE "idle")
    /\ Unlock
    /\ UNCHANGED <<manager, goal, adds, corrupt, died>>

(* The consumer is done, or its context is cancelled, between two Adds.    *)
ConsumerStops(c) ==
    /\ Moves(c, "idle", "stopped")
    /\ UNCHANGED <<mutex, manager, goal, adds, corrupt, died>>

-----------------------------------------------------------------------------
(* plannedBlockWriter.Run: NewAppender for every consumer, each of which   *)
(* may run before the next appender is made; cg.Wait; Close                *)

Joined == created = NumConsumers /\ \A c \in Consumers : at[c] = "stopped"

NewAppender ==
    /\ at[Main] = "writing" /\ created < NumConsumers /\ ~startFailed
    /\ created' = created + 1
    /\ at' = [at EXCEPT ![Main] = IF created' = NumConsumers THEN "off" ELSE "lock",
                        ![created'] = "idle"]
    /\ Unlock
    /\ UNCHANGED <<startFailed, closed, emptied, goal, adds, corrupt, died>>

(* newBlockWriter fails, or, the appender made, Create does.  Run returns, *)
(* and its deferred db.Close closes what appenders there are.              *)
StartFails ==
    /\ at[Main] = "writing" /\ created < NumConsumers /\ ~startFailed
    /\ startFailed' = TRUE
    /\ Moves(Main, "writing", "lock")
    /\ Unlock
    /\ UNCHANGED <<created, closed, emptied, goal, adds, corrupt, died>>

(* Run does not wait for the consumers it has started.                     *)
CloseBegins_bug ==
    /\ created = NumConsumers
    /\ Moves(Main, "off", "lock")
    /\ UNCHANGED <<mutex, manager, goal, adds, corrupt, died>>

CloseBegins ==
    /\ Joined
    /\ Moves(Main, "off", "lock")
    /\ UNCHANGED <<mutex, manager, goal, adds, corrupt, died>>

CloseEnds ==
    /\ created = NumConsumers \/ startFailed
    /\ closed' = TRUE /\ emptied' \in SUBSET Consumers
    /\ Moves(Main, "writing", "stopped")
    /\ Unlock
    /\ UNCHANGED <<created, startFailed, goal, adds, corrupt, died>>

Ended == (died # "no" \/ at[Main] = "stopped") /\ UNCHANGED vars

-----------------------------------------------------------------------------
ConsumerNext(c) ==
    /\ died = "no"
    /\ \/ AddBegins(c) \/ AddLocks(c) \/ WakeReader(c) \/ ReadSection(c) \/ AppendToNil(c)
       \/ Lock(c) \/ WakeWriter(c) \/ WriteSection(c) \/ LateError(c) \/ AddEnds(c)
       \/ ConsumerStops(c)

MainNext ==
    /\ died = "no"
    /\ \/ Lock(Main) \/ WakeWriter(Main)
       \/ NewAppender \/ StartFails \/ CloseBegins \/ CloseEnds

Next == (\E c \in Consumers : ConsumerNext(c)) \/ MainNext \/ Ended

Spec == Init /\ [][Next]_vars

(* A goroutine that can go on does.  sync.Mutex hands a lock that is       *)
(* wanted to every waiter in the end (its starvation mode), which is       *)
(* strong fairness of the Lock.                                            *)
Fairness ==
    /\ \A c \in Consumers : WF_vars(ConsumerNext(c)) /\ SF_vars(Lock(c))
    /\ WF_vars(MainNext) /\ SF_vars(Lock(Main))

FairSpec == Spec /\ Fairness

-----------------------------------------------------------------------------
(* Properties                                                              *)
Reading == {t \in Threads : at[t] = "reading"}
Asleep == {t \in Threads : at[t] = "asleepR"}
Writing == {t \in Threads : at[t] \in {"writing", "unlock"}}

(* As long as no append() failed right after a flush (see LateError):      *)
(* whoever flushes, commits, makes an appender or closes them is alone: no *)
(* append of any appender runs meanwhile.                                  *)
WriterIsAlone ==
    ~corrupt =>
        \A t \in Writing : Reading = {} /\ Writing = {t}

(* The mutex counts the readers it has, awake or asleep, so that no        *)
(* RUnlock is fatal and no reader is left asleep; a pending writer waits   *)
(* for those that were there before it.                                    *)
ReadersAreCounted ==
    ~corrupt =>
        /\ readerCount = Cardinality(Reading \cup Asleep)
        /\ pending => readerWait = Cardinality(Reading) + readerSem
        /\ ~pending => readerWait = 0 /\ readerSem = Cardinality(Asleep)
        /\ readerSem <= Cardinality(Asleep)

(* Who holds the lock of the writers, and when.                            *)
HolderInv ==
    /\ pending <=> w # Nobody
    /\ \A t \in Threads : at[t] \in {"asleepW", "writing", "unlock"} => w = t
    /\ w # Nobody => at[w] \in {"asleepW", "writing", "unlock"}
    /\ ~corrupt /\ w # Nobody /\ at[w] # "asleepW" => readerWait = 0

(* The appenders are closed once, after the last consumer has stopped or   *)
(* after a start that failed, and never while Run still makes some.        *)
ManagerInv ==
    /\ \A c \in Consumers : at[c] = "off" <=> c > created
    /\ at[Main] \in {"off", "lock", "asleepW", "writing", "stopped"}
    /\ at[Main] = "off" => created = NumConsumers
    /\ closed <=> at[Main] = "stopped"
    /\ closed => created = NumConsumers \/ startFailed
    /\ emptied # {} => closed
    /\ created = NumConsumers /\ ~startFailed /\ at[Main] # "off" => Joined

(* Until an unlock too many has corrupted the counter, the read-write lock *)
(* excludes as it should, whichever way its holders leave; the appenders   *)
(* are closed when they should be.                                         *)
LocksInv == TypeOK /\ WriterIsAlone /\ ReadersAreCounted /\ HolderInv /\ ManagerInv

(* Two things only can kill the process: an RUnlock of what is not locked, *)
(* after an append() that failed right after a flush; and an append to an  *)
(* appender that is closed already, after a start that failed.             *)
KilledOnlyByErrors ==
    /\ died = "unlock" => corrupt
    /\ died = "nil appender" => startFailed

(* No Add waits for ever: every consumer that was started leaves its last  *)
(* one and stops, also one that still adds when a failed start closes the  *)
(* appenders, and the appenders do get closed, unless the mutex was spoilt *)
(* or the process killed by such an error.                                 *)
AppendersClosed ==
    <>(\/ at[Main] = "stopped" /\ \A c \in Consumers : at[c] \in {"off", "stopped"}
       \/ corrupt \/ died # "no")
=============================================================================
