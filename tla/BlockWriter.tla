---------------------------- MODULE BlockWriter -----------------------------
(***************************************************************************)
(* plannedBlockWriter.Run of lib/block/planner.go and the goroutines it    *)
(* starts: one planProducer with the helper of its wait(), Parallelism     *)
(* planConsumers and the watcher of the Canceller.                         *)
(*                                                                         *)
(* The unbuffered inputChan is the joint action Send.  The channel is      *)
(* closed exactly when the producer has returned (defer close(p.output)).  *)
(* What an Execute does is one step that succeeds or fails; what an        *)
(* appender does under Add and close is the subject of module Appender.    *)
(***************************************************************************)
EXTENDS Naturals, FiniteSets

CONSTANTS NumBlocks,     \* len(planner.Plan(...))
          PlanLen,       \* PlanLen[b]: len(plan) of block b
          NumCPU,        \* runtime.NumCPU()
          parallelism    \* the argument of NewPlannerConfig

ASSUME PlanAssumption ==
    /\ NumBlocks \in Nat
    /\ PlanLen \in [1 .. NumBlocks -> Nat]

(* On a machine of 256 processors, or 512, ..., MaxParallelism would be 0, *)
(* no consumer would be started, and an empty plan would be published.     *)
ASSUME ParallelismAssumption ==
    /\ NumCPU \in Nat /\ NumCPU % 256 # 0
    /\ parallelism \in 0 .. 255

MaxParallelism == NumCPU % 256   \* uint8

(* NewPlannerConfig                                                        *)
Parallelism ==
    IF parallelism = 0 THEN 1
    ELSE IF parallelism <= MaxParallelism THEN parallelism
    ELSE MaxParallelism

Consumers == 1 .. Parallelism

EntriesOf(b) == {b} \X (1 .. PlanLen[b])
Entries == UNION {EntriesOf(b) : b \in 1 .. NumBlocks}
NoEntry == <<0, 0>>
EarlierBlocks(e) == {f \in Entries : f[1] < e[1]}
Precedes(e, f) == e[1] < f[1] \/ (e[1] = f[1] /\ e[2] < f[2])

VARIABLES
    run,         \* where Run is
    result,      \* what Run returned: "none", "ok", "error"
    spawned,     \* loop variable i: consumers started so far
    published,   \* blocks moved to the output directory: "none", "some", "all"
    cg,          \* WaitGroup cg: consumers that have not called Done
    wg,          \* WaitGroup wg: planned entries not executed
    ctxDone,     \* ctx is cancelled
    cancelled,   \* the Canceller s is cancelled
    watcher,     \* the goroutine that waits for s.C()
    producer,    \* where the producer is
    blk, pos,    \* the block and the entry the producer is at
    helper,      \* the goroutine that wait() starts
    consumer,    \* where each consumer is
    cur,         \* the last entry each consumer received
    appender,    \* the appender of each consumer
    done,        \* entries whose Execute returned nil
    failed       \* entries whose Execute returned an error

mainVars == <<run, result, spawned, published>>
syncVars == <<cg, wg, ctxDone, cancelled, watcher>>
producerVars == <<producer, blk, pos, helper>>
consumerVars == <<consumer, cur, appender, done, failed>>
vars == <<mainVars, syncVars, producerVars, consumerVars>>

TypeOK ==
    /\ run \in {"start", "spawn", "cgwait", "close", "compact", "move", "abort", "done"}
    /\ result \in {"none", "ok", "error"}
    /\ spawned \in 0 .. Parallelism
    /\ published \in {"none", "some", "all"}
    /\ cg \in Nat
    /\ wg \in Nat
    /\ ctxDone \in BOOLEAN
    /\ cancelled \in BOOLEAN
    /\ watcher \in {"none", "waiting", "done"}
    /\ producer \in {"off", "add", "send", "wait", "exit"}
    /\ blk \in 1 .. NumBlocks + 1
    /\ pos \in Nat \ {0}
    /\ helper \in {"none", "waiting", "closed"}
    /\ consumer \in [Consumers -> {"none", "idle", "exec", "cancelling", "stopped"}]
    /\ cur \in [Consumers -> Entries \cup {NoEntry}]
    /\ appender \in [Consumers -> {"none", "open", "closed"}]
    /\ done \subseteq Entries
    /\ failed \subseteq Entries

Init ==
    /\ run = "start" /\ result = "none" /\ spawned = 0 /\ published = "none"
    /\ cg = 0 /\ wg = 0
    /\ ctxDone = FALSE /\ cancelled = FALSE /\ watcher = "none"
    /\ producer = "off" /\ blk = 1 /\ pos = 1 /\ helper = "none"
    /\ consumer = [c \in Consumers |-> "none"]
    /\ cur = [c \in Consumers |-> NoEntry]
    /\ appender = [c \in Consumers |-> "none"]
    /\ done = {} /\ failed = {}

-----------------------------------------------------------------------------
(* planProducer.Run and planProducer.wait.  The definitions whose name     *)
(* ends in _bug, here and below, are no part of the model: each is the     *)
(* definition after it with a plausible slip, which a property must find.  *)

ProducerAdd ==
    /\ producer = "add"
    /\ blk <= NumBlocks
    /\ wg' = wg + PlanLen[blk]
    /\ pos' = 1
    /\ producer' = "send"
    /\ UNCHANGED <<mainVars, cg, ctxDone, cancelled, watcher, blk, helper, consumerVars>>

(* case p.output <- e, received by a consumer that is in its select        *)
Send(c) ==
    /\ producer = "send"
    /\ pos <= PlanLen[blk]
    /\ consumer[c] = "idle"
    /\ consumer' = [consumer EXCEPT ![c] = "exec"]
    /\ cur' = [cur EXCEPT ![c] = <<blk, pos>>]
    /\ pos' = pos + 1
    /\ UNCHANGED <<mainVars, syncVars, producer, blk, helper, appender, done, failed>>

(* No wait() between the blocks.                                           *)
ProducerWait_bug ==
    /\ producer = "send"
    /\ pos > PlanLen[blk]
    /\ producer' = "add"
    /\ blk' = blk + 1
    /\ UNCHANGED <<mainVars, syncVars, pos, helper, consumerVars>>

ProducerWait ==
    /\ producer = "send"
    /\ pos > PlanLen[blk]
    /\ producer' = "wait"
    /\ helper' = "waiting"
    /\ UNCHANGED <<mainVars, syncVars, blk, pos, consumerVars>>

(* p.wg.Wait() of the helper returns and it closes c                       *)
HelperDone ==
    /\ helper = "waiting"
    /\ wg = 0
    /\ helper' = "closed"
    /\ UNCHANGED <<mainVars, syncVars, producer, blk, pos, consumerVars>>

(* The block is planned once more.                                         *)
ProducerProceed_bug ==
    /\ producer = "wait"
    /\ helper = "closed"
    /\ producer' = "add"
    /\ helper' = "none"
    /\ UNCHANGED <<mainVars, syncVars, blk, pos, consumerVars>>

ProducerProceed ==
    /\ producer = "wait"
    /\ helper = "closed"
    /\ producer' = "add"
    /\ blk' = blk + 1
    /\ helper' = "none"
    /\ UNCHANGED <<mainVars, syncVars, pos, consumerVars>>

ProducerCancelled ==
    /\ ctxDone
    /\ \/ producer = "send" /\ pos <= PlanLen[blk]
       \/ producer = "wait"
    /\ producer' = "exit"
    /\ UNCHANGED <<mainVars, syncVars, blk, pos, helper, consumerVars>>

ProducerFinish ==
    /\ producer = "add"
    /\ blk > NumBlocks
    /\ producer' = "exit"
    /\ UNCHANGED <<mainVars, syncVars, blk, pos, helper, consumerVars>>

-----------------------------------------------------------------------------
(* planConsumer.Run                                                        *)

(* canceller.Cancel: the first call closes the channel of C().             *)
Cancel == cancelled' = TRUE

(* case <-ctx.Done(), or the receive of a closed and drained channel       *)
ConsumerStop(c) ==
    /\ consumer[c] = "idle"
    /\ ctxDone \/ producer = "exit"
    /\ consumer' = [consumer EXCEPT ![c] = "stopped"]
    /\ cg' = cg - 1
    /\ UNCHANGED <<mainVars, wg, ctxDone, cancelled, watcher, producerVars,
                   cur, appender, done, failed>>

ExecuteOk(c) ==
    /\ consumer[c] = "exec"
    /\ consumer' = [consumer EXCEPT ![c] = "idle"]
    /\ done' = done \cup {cur[c]}
    /\ wg' = wg - 1
    /\ UNCHANGED <<mainVars, cg, ctxDone, cancelled, watcher, producerVars,
                   cur, appender, failed>>

(* wg.Done() whatever Execute returns.                                     *)
ExecuteFail_bug(c) ==
    /\ consumer[c] = "exec"
    /\ consumer' = [consumer EXCEPT ![c] = "cancelling"]
    /\ failed' = failed \cup {cur[c]}
    /\ cancelled' = TRUE
    /\ wg' = wg - 1
    /\ UNCHANGED <<mainVars, cg, ctxDone, watcher, producerVars,
                   cur, appender, done>>

(* The entry is executed again.                                            *)
ExecuteFail_retry_bug(c) ==
    /\ consumer[c] = "exec"
    /\ failed' = failed \cup {cur[c]}
    /\ UNCHANGED <<mainVars, syncVars, producerVars, consumer, cur, appender, done>>

(* The error is logged and p.s.Cancel() called; wg keeps the entry.        *)
ExecuteFail(c) ==
    /\ consumer[c] = "exec"
    /\ consumer' = [consumer EXCEPT ![c] = "cancelling"]
    /\ failed' = failed \cup {cur[c]}
    /\ Cancel
    /\ UNCHANGED <<mainVars, cg, wg, ctxDone, watcher, producerVars,
                   cur, appender, done>>

ConsumerFailed(c) ==
    /\ consumer[c] = "cancelling"
    /\ consumer' = [consumer EXCEPT ![c] = "stopped"]
    /\ cg' = cg - 1
    /\ UNCHANGED <<mainVars, wg, ctxDone, cancelled, watcher, producerVars,
                   cur, appender, done, failed>>

-----------------------------------------------------------------------------
(* The watcher: case <-s.C(), then cancel()                                *)

WatcherFires ==
    /\ watcher = "waiting"
    /\ cancelled
    /\ watcher' = "done"
    /\ ctxDone' = TRUE
    /\ UNCHANGED <<mainVars, cg, wg, cancelled, producerVars, consumerVars>>

-----------------------------------------------------------------------------
(* plannedBlockWriter.Run                                                  *)

Return(r) == run' = "done" /\ result' = r

(* NewTempDirectory may fail; else the producer is started.                *)
Open ==
    /\ run = "start"
    /\ \/ /\ Return("error")
          /\ UNCHANGED producer
       \/ /\ run' = "spawn"
          /\ producer' = "add"
          /\ UNCHANGED result
    /\ UNCHANGED <<spawned, published, syncVars, blk, pos, helper, consumerVars>>

Spawn ==
    /\ run = "spawn"
    /\ spawned < Parallelism
    /\ spawned' = spawned + 1
    /\ cg' = cg + 1
    /\ appender' = [appender EXCEPT ![spawned + 1] = "open"]
    /\ consumer' = [consumer EXCEPT ![spawned + 1] = "idle"]
    /\ UNCHANGED <<run, result, published, wg, ctxDone, cancelled, watcher,
                   producerVars, cur, done, failed>>

(* The error path forgets cancel().                                        *)
SpawnFail_bug ==
    /\ run = "spawn"
    /\ spawned < Parallelism
    /\ cg' = cg + 1
    /\ run' = "abort"
    /\ UNCHANGED <<result, spawned, published, wg, ctxDone, cancelled, watcher,
                   producerVars, consumerVars>>

(* cg.Add(1), then NewAppender or executorCreator.Create fails: cancel().  *)
SpawnFail ==
    /\ run = "spawn"
    /\ spawned < Parallelism
    /\ cg' = cg + 1
    /\ \E a \in {"none", "open"} :
          appender' = [appender EXCEPT ![spawned + 1] = a]
    /\ ctxDone' = TRUE
    /\ run' = "abort"
    /\ UNCHANGED <<result, spawned, published, wg, cancelled, watcher,
                   producerVars, consumer, cur, done, failed>>

SpawnDone ==
    /\ run = "spawn"
    /\ spawned = Parallelism
    /\ watcher' = "waiting"
    /\ run' = "cgwait"
    /\ UNCHANGED <<result, spawned, published, cg, wg, ctxDone, cancelled,
                   producerVars, consumerVars>>

(* Run waits for the entries, not for the consumers.                       *)
CgWait_bug ==
    /\ run = "cgwait"
    /\ wg = 0
    /\ ctxDone' = TRUE
    /\ run' = "close"
    /\ UNCHANGED <<result, spawned, published, cg, wg, cancelled, watcher,
                   producerVars, consumerVars>>

CgWait ==
    /\ run = "cgwait"
    /\ cg = 0
    /\ ctxDone' = TRUE
    /\ run' = "close"
    /\ UNCHANGED <<result, spawned, published, cg, wg, cancelled, watcher,
                   producerVars, consumerVars>>

(* appendManager.Close marks every appender stopped, whatever fails.       *)
StopAppenders ==
    appender' = [c \in Consumers |->
                    IF appender[c] = "open" THEN "closed" ELSE appender[c]]

CloseAppenders ==
    /\ run = "close"
    /\ StopAppenders
    /\ \/ run' = "compact" /\ UNCHANGED result
       \/ Return("error")
    /\ UNCHANGED <<spawned, published, syncVars, producerVars,
                   consumer, cur, done, failed>>

Compact ==
    /\ run = "compact"
    /\ \/ run' = "move" /\ UNCHANGED result
       \/ Return("error")
    /\ UNCHANGED <<spawned, published, syncVars, producerVars, consumerVars>>

(* MoveBlocks renames the blocks one by one and stops at the first error.  *)
MoveBlocks ==
    /\ run = "move"
    /\ \/ published' = "all" /\ Return("ok")
       \/ published' \in {"none", "some", "all"} /\ Return("error")
    /\ UNCHANGED <<spawned, syncVars, producerVars, consumerVars>>

(* The deferred db.Close() after a failed start closes the appenders of    *)
(* consumers that may still be running.                                    *)
Abort ==
    /\ run = "abort"
    /\ StopAppenders
    /\ Return("error")
    /\ UNCHANGED <<spawned, published, syncVars, producerVars,
                   consumer, cur, done, failed>>

-----------------------------------------------------------------------------
ProducerNext ==
    \/ ProducerAdd
    \/ \E c \in Consumers : Send(c)
    \/ ProducerWait
    \/ ProducerProceed
    \/ ProducerCancelled
    \/ ProducerFinish

ConsumerNext(c) ==
    ConsumerStop(c) \/ ExecuteOk(c) \/ ExecuteFail(c) \/ ConsumerFailed(c)

MainNext ==
    \/ Open \/ Spawn \/ SpawnFail \/ SpawnDone \/ CgWait
    \/ CloseAppenders \/ Compact \/ MoveBlocks \/ Abort

(* The process exits when Run has returned; goroutines left over need not  *)
(* get to run again.                                                       *)
Returned == run = "done" /\ UNCHANGED vars

Next ==
    \/ ProducerNext
    \/ HelperDone
    \/ \E c \in Consumers : ConsumerNext(c)
    \/ WatcherFires
    \/ MainNext
    \/ Returned

Spec == Init /\ [][Next]_vars

(* The Go scheduler runs every goroutine that can run, and an Execute      *)
(* returns: queries have a time limit and retries are bounded.             *)
Fairness ==
    /\ WF_vars(ProducerNext)
    /\ WF_vars(HelperDone)
    /\ \A c \in Consumers : WF_vars(ConsumerNext(c))
    /\ WF_vars(WatcherFires)
    /\ WF_vars(MainNext)

FairSpec == Spec /\ Fairness

-----------------------------------------------------------------------------
(* Properties                                                              *)

Added == {e \in Entries : e[1] < blk \/ (e[1] = blk /\ producer \notin {"off", "add"})}
Executing == {c \in Consumers : consumer[c] = "exec"}
StartFailed == run \in {"abort", "done"} /\ spawned < Parallelism

(* wg counts the planned entries without a successful Execute, so it never *)
(* goes negative (a panic) and wait() returns exactly when the block is    *)
(* written: Add before the sends, Done only after a success.               *)
WgCountsOpenEntries == wg = Cardinality(Added \ done)

(* A consumer works on an entry of a block only when every entry of the    *)
(* earlier blocks is written: the wait() between the blocks of Run.        *)
BlockBarrier ==
    \A c \in Executing : EarlierBlocks(cur[c]) \subseteq done

(* No two consumers ever receive the same entry.                           *)
NoSharedEntry ==
    \A c, d \in Consumers : c # d /\ cur[c] # NoEntry => cur[c] # cur[d]

(* Unless the start failed, nobody is adding samples once the appenders    *)
(* are closed: cg.Wait() precedes appendManager.Close().                   *)
NoAddAfterClose ==
    \A c \in Executing : appender[c] = "open" \/ StartFailed

(* When blocks reach the output directory and no Execute failed, they hold *)
(* the whole plan: the producer closes the channel after the last barrier, *)
(* and ctx is cancelled early only after a failure.                        *)
CompletePublish ==
    published # "none" /\ failed = {} => done = Entries

(* Every consumer receives entries in the order of the plan, so within an  *)
(* appender the chunks of a series never go back in time.                  *)
InPlanOrder ==
    [][\A c \in Consumers : cur'[c] # cur[c] => Precedes(cur[c], cur'[c])]_vars

(* The invariant behind the properties above: which entries were sent,     *)
(* what the wait groups count, why the barrier holds, and which goroutines *)
(* are alive in which phase of Run.                                        *)
Sent ==
    {e \in Added : e[1] < blk \/ e[2] < pos}

Live == {c \in Consumers : consumer[c] \in {"idle", "exec", "cancelling"}}

(* Run went past cg.Wait().                                                *)
Joined == run \in {"close", "compact", "move"} \/ (run = "done" /\ spawned = Parallelism)

EntryInv ==
    /\ done \cup failed \subseteq Sent
    /\ done \cap failed = {}
    /\ \A c \in Consumers : cur[c] # NoEntry => cur[c] \in Sent
    /\ \A c \in Executing : cur[c] \in Sent \ (done \cup failed)

WaitGroupInv ==
    /\ WgCountsOpenEntries
    /\ cg >= Cardinality(Live)
    /\ ~StartFailed => cg = Cardinality(Live)

BarrierInv ==
    /\ \A e \in Entries : e[1] < blk => e \in done
    /\ producer \in {"send", "wait"} => blk <= NumBlocks
    /\ producer \in {"off", "add", "send"} => helper = "none"
    /\ helper = "closed" => Added \subseteq done

CancelInv ==
    /\ cancelled <=> failed # {}
    /\ ctxDone => cancelled \/ StartFailed \/ Joined
    /\ producer = "exit" => ctxDone \/ blk > NumBlocks
    /\ \A c \in Consumers :
          /\ consumer[c] = "cancelling" => failed # {}
          /\ consumer[c] = "stopped" => producer = "exit" \/ ctxDone \/ failed # {}
    /\ Joined => failed # {} \/ done = Entries

PhaseInv ==
    /\ run = "start" => spawned = 0 /\ producer = "off"
    /\ run \in {"cgwait", "close", "compact", "move"} => spawned = Parallelism
    /\ run = "abort" => spawned < Parallelism
    /\ \A c \in Consumers : consumer[c] = "none" <=> c > spawned
    /\ run \in {"start", "spawn", "cgwait"} =>
          \A c \in Consumers : consumer[c] # "none" => appender[c] = "open"
    /\ Joined => \A c \in Consumers : consumer[c] = "stopped"
    /\ published # "none" => Joined /\ run = "done"

PipelineInv ==
    EntryInv /\ NoSharedEntry /\ WaitGroupInv /\ BarrierInv /\ CancelInv /\ PhaseInv

(* The inductive invariant.  Its parts say whom each wait group counts,    *)
(* that an entry is in one hand at a time and is written before the block  *)
(* after its own is begun, and which phase of Run goes with which state of *)
(* its goroutines.                                                         *)
WriterInv == TypeOK /\ PipelineInv

(* Run returns on every path, a failed consumer, a failed start and an     *)
(* empty plan included, and so do, in the end, the producer and every      *)
(* consumer that was started: nobody is left waiting on the channel, the   *)
(* wait groups or the context.                                             *)
EverybodyStops ==
    <>[](/\ run = "done"
         /\ producer \in {"off", "exit"}
         /\ \A c \in Consumers : consumer[c] \in {"none", "stopped"})

-----------------------------------------------------------------------------
(* The pipeline implements PlannedWrite.                                   *)
outcome ==
    CASE published = "all"                            -> "published"
      [] published = "some"                           -> "partial"
      [] published = "none" /\ run \in {"abort", "done"} -> "error"
      [] OTHER                                        -> "running"

Job == INSTANCE PlannedWrite
           WITH NumBlocks <- NumBlocks, PlanLen <- PlanLen,
                done <- done, failed <- failed, outcome <- outcome

(* Every step of the goroutines is a step of the abstract job or none.     *)
ImplementsPlannedWrite == Job!Spec
=============================================================================
