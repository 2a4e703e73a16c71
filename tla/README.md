# promutil in TLA+

This directory holds a model of [promutil](https://github.com/kadaan/promutil),
the command that generates, migrates, backfills and compacts Prometheus data and
serves a page on which alerting rules can be tried out. The modules are
translated from the Go source; TLC checks them on small instances, and TLAPS
proves the safety of all of them for instances of every size. The repository
has no tests: its documents are `README.md`, the usage strings of the flags and
`exampleMetricConfig.yml`.

1. [The system](#1-the-system): parts, state, operations, what is hard
2. [The modules](#2-the-modules) and how they correspond to the code
3. [The runs](#3-the-runs): what each checks, its bounds, the fairness assumed
4. [The proofs](#4-the-proofs)
5. [What the model says about the code](#5-what-the-model-says-about-the-code)
6. [What is not modelled](#6-what-is-not-modelled)
7. [Plan](#7-plan)

To check a model: `tlc -config MCBlockWriter.cfg MCBlockWriter.tla`; to check
the proofs about it: `tlapm BlockWriterProof.tla` (the modules whose name ends in
`Proof` hold the proofs). Modules that are proved about together are extended by one
proof module, so their specifications have names that do not meet: `AppenderSpec`,
`StateSpec`, `ChartSpec`.

---------------------------------------------------------------------------

## 1. The system

Two families of commands share the code.

**Commands that write blocks** (`generate`, `migrate`, `backfill`). Each makes a
`plannedBlockWriter` with its own way to plan (what entries a chunk of time
becomes) and to execute (how the samples of an entry are made).

    Run --NewTempDirectory--> <output>-<ULID>/
     |   --Plan--> blocks of chunks of entries
     |--go--> producer ==inputChan==> consumers 1..Parallelism
     |           |                        | Execute: make samples,
     |           +-- wg: one block at     |          Add each to the
     |               a time               v          consumer's appender
     |                              safeAppender  --flush--> tmp/<ULID>/
     |--cg.Wait, Close--------------> MoveBlocks tmp/<ULID>/ -> tmp/
     |--Compact---------------------> tsdb on tmp/
     +--MoveBlocks------------------> <output>/

**The web server** (`web`). A request to try an alerting rule evaluates the rule
twice over a range. Its queries go through a pool of queriers to a remote
Prometheus, are cached, and the answer is reduced for the chart.

    request -> evaluateAlertRule -> rules.AlertingRule.Eval
                     |                    |
                     |              InstantQueryFunc (cache, seriesIndex)
                     |                    |
                     +-> RangeQueryFunc -> query ==inputChan==> queriers -> HTTP
                     |                       ^--outputChan--------|
                     +-> DownsampleMatrix (LTTB)

| Component | Source | State it keeps | Operations |
|---|---|---|---|
| planner | `lib/block/planner.go` | loop variables in three units of time | `Plan`, `planBlock`, `evalTimestamp` |
| producer, consumers, block writer | `lib/block/planner.go` | two wait groups, a channel, a context, a `Canceller` | `planProducer.Run`, `wait`, `planConsumer.Run`, `plannedBlockWriter.Run` |
| canceller | `lib/common/canceller.go` | a flag, a channel, a `sync.Once` | `Cancel`, `C`, `Cancelled` |
| appender | `lib/database/appender.go` | window, counter, block writer and appender of the tsdb | `Add`, `append`, `flush`, `close` |
| append manager, mutex | `lib/database/appender.go`, `database.go` | the appenders; one `sync.RWMutex` per database | `NewAppender`, `Close` |
| temporary directories, publication | `lib/database/database.go` | directories on disk | `NewTempDirectory`, `deleteOldTempDirectories`, `MoveBlocks`, `Compact` |
| database facade | `lib/database/database.go` | two lazily made managers, the tsdb | `AppendManager`, `QueryManager`, `Compact`, `Close` |
| querier, iterators | `lib/database/querier.go` | `stopped`; three parallel slices per iterator | `QueryRangeRule`, `Next`, `Close` |
| generator | `lib/generator/generator.go` | Index, Last, Timestamp of every instance of a metric | `Generate`, `Execute` |
| migrator | `lib/migrator/migrator.go` | none of its own | `Generate`, `Execute` with retries |
| backfiller | `lib/backfiller/backfiller.go` | the rules left after filtering | `Run`, `Generate`, `Execute` |
| compactor | `lib/compactor/compactor.go` | none | `Run` |
| querier pool | `lib/remote/queryable.go` | channel, context, wait group of the queriers | `NewQueryable`, `query`, `run`, `execute`, `Close` |
| query cache | `lib/remote/queryable.go` | cached matrices, a place per series | `RangeQueryFunc`, `InstantQueryFunc` |
| alert tester | `lib/web/alertTester.go` | two rules, a set of important times, the list of alerts | `evaluateAlertRule`, HTTP handler |
| downsampler | `lib/downsample` | indexes of its buckets | `Downsample` |
| web server | `lib/web/server.go`, `web.go`, `template.go` | HTTP server, pool, router | `Start`, `Stop`, `Run` |
| commands, profiler | `lib/command`, `cmd` | two lists of closers | cobra commands, `presetRequiredFlags`, `startProfiler`, `Close` |
| configuration | `config` | the destination of each flag and whether it was set | `Set`, `String`, loading of files |

How they interact, and where it gets hard:

* **The barrier between blocks.** Every consumer owns an appender whose window
  moves forward, so all entries of a block must be executed before the next
  block is handed out. `wg.Add(len(plan))`, `wg.Done()` after a successful
  Execute and a helper goroutine that turns `wg.Wait()` into a channel do this.
  A failed Execute leaves `wg` above zero for good: everybody has to end by the
  context instead, and the plan is published as far as it got.
* **One read-write mutex** for all appenders of a database. `Add` gives up its
  read lock to take the write lock when it must flush or commit, and takes care
  to give back the right one on each of its error paths.
* **Shared state of a series.** The chunks of one metric are executed by several
  consumers, and all of them read and write its Index, Last and Timestamp.
* **Crashes.** Blocks are moved one by one, first into the temporary directory
  and then to the output directory; a later run removes what earlier runs left.
* **A pool that can stop.** A query hands chunks to the pool without looking at
  its context; a querier hands results to a channel that the query closes;
  cancellation, retries and the end of the server may come at any time.
* **Two passes over the same times.** What the page shows comes from a second
  evaluation at the times the first found important; answers come from a cache
  with a pointer per series that only moves forward.
* **A plan and what becomes of it.** Plan counts in three units of time, and each
  chunk of it is executed on its own: a grid of samples that restarts with every
  chunk, or a read from a server that may fail, be retried, or answer with more
  than it was asked for.
* **A command from its flags to its exit.** Flags are set twice, the second time
  from their own rendering, with errors ignored; profiles and files are to be
  closed however the task ends; an interrupt is seen at some moments and lost at
  others.

What makes each component correct, in words (the names are those of the
properties in the modules):

| Component | Correct when |
|---|---|
| planner | chunks are disjoint and ascending (`ChunksInOrder`), in range and in one block (`PlanInv`), and all of the range is planned but for remainders that can be named (`RangeIsPlanned`) |
| generator, migrator on a plan | a migration loses nothing, and adds each sample once unless the server returns it past the end of a read (`MigratedOnceUnlessLate`), in a generation only NaN leaves gaps within a chunk (`OnlyNaNLeavesGaps`), and the job ends (`JobEnds`) |
| block writer | no consumer works on a block before the earlier ones are written (`BlockBarrier`), entries are received once and in plan order (`InPlanOrder`), nobody adds to a closed appender (`NoAddAfterClose`), what is published without a failure is all of the plan (`ImplementsPlannedWrite`), nobody is left waiting (`EverybodyStops`) |
| appender | memory is bounded (`MemoryBounded`), a block does not hold samples of two windows, apart from the one that moved it (`AddInv`), a sample that was taken is not lost without an error (`LossOnlyBetweenFlushes` says what is true instead) |
| mutex | a flush, commit or close is alone (`LocksInv`), nobody waits for ever (`AppendersClosed`), no unlock of what is not locked and no append to a closed appender (`KilledOnlyByErrors` says when they happen) |
| series state | Index counts, Last is the previous value (`SequentialIfAlone` in `StateInv`; the rest of it is what remains with several consumers) |
| publication | the output has finished work only (`OutputIsFinishedWork`), a run that succeeds has published everything (`DoneMeansPublished`), nothing is lost before the next run (`NothingLostBeforeNextRun`), no block is in two places and no directory is left for ever (`DirectoryInv`) |
| querier pool | no send on a closed channel (`NoSendOnClosed`), all chunks or an error (`CompleteUnlessCancelled`), every query ends (`QueriesEnd`), `Stop` ends (`StopEnds`) |
| query cache | an answer is that of a lookup at that time, chunks together are the range (both in `ReplayInv`) |
| alert tester | the second pass shows what the first one saw (`ReplayIsFaithful`), every firing alert is shown (`NoFiringMissed`), once (`ReplayInv`) |
| backfiller | every sample of the matrix is added once (`CompleteEntry`), with its own labels, in turns (`IteratorInv`), and `Run` returns (`RunReturns`) |
| downsampler | indexes stay in range and points in order (`ChartInv`), a lone peak is kept (`LonePeakKept`) |
| commands, web server | the task gets what the nearest source says of a flag (`FlagsFollowPrecedence`), profiles are finished however it ends (`CommandInv`), an interrupt that is received ends the process (`InterruptEnds`) |

---------------------------------------------------------------------------

## 2. The modules

One module per component or protocol; a comment at its head names the code, and
the variables and actions have the source's names where there is one. Constants
are parameters of the code or name a bound of the model. Definitions whose name
ends in `_bug` are not part of a model: each precedes the definition it distorts
the way a slip in the code would (a missing wait, a wrong bound), and is there so
that one can see that a property is violated when it takes the place of the
original.

| Module | Models | Actions and the code they stand for |
|---|---|---|
| `PlannedWrite` | abstract: what a caller of `plannedBlockWriter.Run` may rely on | `Complete`, `Fail`, `Publish`, `GiveUp` |
| `BlockWriter` | `planner.go` 203-446: Run, producer with the helper of `wait()`, consumers, watcher | `Send` is the rendezvous on `inputChan`; `ProducerAdd`, `ProducerWait`, `HelperDone`, `ProducerProceed`, `ProducerCancelled`, `ProducerFinish`; `ExecuteOk`, `ExecuteFail`, `ConsumerFailed`, `ConsumerStop`; `WatcherFires`; `Open`, `Spawn`, `SpawnFail`, `SpawnDone`, `CgWait`, `CloseAppenders`, `Compact`, `MoveBlocks`, `Abort` |
| `Planner` | `planner.go` 140-195 | one action per turn of the loops: `PlanBlock`, `BreakPlan`, `EndPlan`, `PlanChunk`, `EndBlock`, and `DivideByZero` |
| `PlanExecution` | `Execute` of the generator and of the migrator on the chunks of a plan | `Generate` with the `Grid` of a chunk and what of it is `Valued` (not NaN); `Migrate` and `ReadFails` with the retries, `Answers` for what a server may return, `Kept` for the filter; `GenerateFails`, `MigrateFails`, `Written` |
| `Appender` | `safeAppender` of `appender.go` | `AddSample`, `AddSampleFails`, `AddAfterFlush`, `AddAfterFlushFails`, `FlushFails`, `Close`, `CloseFails` |
| `AppendLocks` | the `sync.RWMutex` shared by appenders and manager, and the manager as `database.Close` finds it | the mutex as the runtime builds it (`RLock`, `WakeReader`, `RUnlock`, `RUnlockFatal`, `Lock`, `WakeWriter`, `Unlock`), the paths through `Add` (`AddBegins`, `AddLocks`, `ReadSection`, `AppendToNil`, `WriteSection`, `LateError`, `AddEnds`), `NewAppender`, `StartFails`, `CloseBegins`, `CloseEnds` |
| `GeneratorState` | `Execute` of the generator on one instance of a metric | one action per access to the shared state: `SetTimestamp`, `Evaluate`, `SetLast`, `LoadIndex`, `StoreIndex` |
| `Publish` | directories of one or several runs, with crashes | `Start`, `Refused`, `RemoveOld`, `Flush`, `CloseBegins/Moves/Ends` (into the temporary directory), `Compact`, `PublishBegins/Moves/Ends` (into the output), `Fails`, `Crash` |
| `RemoteQuery` | `query`, its collector and watcher, the queriers, `queryable.Close`, `server.Stop` | `Take` and `Deliver` are the rendezvous on the two channels; `Attempt` is one HTTP request with the retry loop around it |
| `RangeGrid` | how a range becomes chunks and what samples come back | operators only |
| `QueryCache` | `RangeQueryFunc`, `InstantQueryFunc`: the state and steps of the cache, which `AlertReplay` makes its own | `RangeQuery`, `Answer`, `Advance`, `Asked`, `AskedTwice` |
| `AlertReplay` | `evaluateAlertRule`, on top of `QueryCache` | `FetchRange`, `FirstPass`, `StartReplay`, `SecondPass`, `Show`, `LimitExceeded`, `EvalFails` |
| `Backfill` | backfiller, `QueryRangeRule`, iterator, query half of the database | `Open`, `QueryNil`, `Query`, `AddNext` with `Advance`, `Close`, ... |
| `Lttb` | `lttb.Downsample` | one action per turn of the loop over the buckets |
| `Command` | `lib/command`, `web.Run`, start and stop of the server, the kinds of flag values in `config` | `ParseArg`, `PresetRequiredFlags`; `StartProfile`, `StartProfileFails`, `CloseMethod`, `CloseFile`; `BatchReturns`, `StartServer`, `MainGoesOn`, `Interrupt`, `QueryableClosed`, `Shutdown` |
| `BlockWriterProof`, `PublishProof`, `RemoteQueryProof`, `BackfillProof`, `CommandProof` | theorems and their proofs | |
| `PlanProof`, `DatabaseProof`, `AlertTesterProof` | the same for `Planner`, `PlanExecution` and `GeneratorState`; `Appender` and `AppendLocks`; `AlertReplay`, `QueryCache` and `Lttb` | |
| `MC*` | instances for TLC | |

How they fit together. `BlockWriter` establishes when chunks may be executed at
the same time and that no appender is closed under its consumer, unless a start
failed; `Appender` takes one consumer's calls as sequential on these grounds,
`AppendLocks` composes several of them on the mutex and with the Close that
follows a failed start, `GeneratorState` lets chunks of one block overlap and
those of different blocks not, `Backfill` lets the writer return early only after
a failed start. `PlanExecution` extends `Planner` and runs what was planned:
Plan returns before the first chunk is executed. `Publish` takes what `Appender`
flushes as pieces and follows them through the directories. `AlertReplay` extends
`QueryCache`, so that every query of the two passes goes through the cache, and
`QueryCache` extends `RangeGrid`; `RemoteQuery` is how an entry of that cache
comes about. `Command` runs the others as a task that returns, fails or panics;
of the web server it has the end of the process, of which `RemoteQuery` has the
part that waits for queries. `BlockWriter` implements `PlannedWrite` (`INSTANCE
PlannedWrite WITH`, the mapping is at the end of `BlockWriter`).

What is abstracted. Samples are their timestamps or numbers, blocks are sets of
numbered pieces, series are model values. External code is modelled from how the
source uses it and is marked so in the map: the tsdb, promql and the rule
evaluation of Prometheus, HTTP, and Go's mutex. Every external call that returns
an error may fail at any time.

Data races are choices: `Canceller.Cancelled` reads a flag without a lock, so a
querier that looks at it may see the old or the new value (`Check`); the accesses
of the generator to its shared state interleave freely.

---------------------------------------------------------------------------

## 3. The runs

TLC finishes every run without an error, except `publish_retention`, which is
meant to be violated. The times are for two workers. In each run the first
invariant is a conjunction of named parts (for instance `WriterInv == TypeOK /\
PipelineInv`), so that it can be checked, and proved, as one.

**pipeline** (`MCBlockWriter`, 28 000 states, 6 s). Three blocks of 2, 0 and 3
entries, `--parallelism 4` on 259 processors, which gives three consumers. A block
without entries is included because its barrier is passed at once, and a block as
large as the number of consumers because then all of them are between Execute and
the barrier. `WriterInv` is the inductive invariant of the proofs. `BlockBarrier`,
`NoAddAfterClose`, `InPlanOrder` and the refinement `ImplementsPlannedWrite` are
proved for all sizes as well; `EverybodyStops` (liveness) is checked here only.

**plan** (`MCPlanner`, 223 000 states, 1.7 min). Every range within 26 s, blocks of
8 s, six intervals, with units scaled to 10 ms and 10 ns; then the chunks of each
plan executed by `generate` or by `migrate`. The expression may give NaN, which the
generator passes over, at two times next to each other (`NaNTimes`). The server of
the migration has a sample every seven milliseconds, a third of them stale; it may
fail, with up to two retries, and answer with all that is older than the read, and
with two samples that are later (`LateTimes`), one of them stale. The scaling
keeps what matters: a second is no multiple of a step counted in nanoseconds, one
interval is not a whole number of seconds, one is below a millisecond, and one is
zero. A range may begin and end in the middle of a block and covers up to four
blocks. The late sample is one that a chunk after the one that is read may cover, so
that it is added twice, or none, so that it is added unplanned.
All safety properties of this run are proved; `JobEnds` (liveness) is checked here
only.

**appender** (`MCAppender`, 132 000 states, 4 s). All sequences of four calls of
`Add` with timestamps over four windows of length two, at most two samples in
memory, any error in any call. Four calls are enough for a flush, a sample that
is not counted, a further flush, and the commit between them.

**locks** (`MCAppendLocks`, 28 000 states, 3 s). Three consumers, up to two
samples each, one mutex: the fewest threads with a writer that holds the lock,
another one that waits and a reader behind it, while `NewAppender` still makes
appenders, or `Close` comes early because a start failed. `AppendersClosed` asks that
every consumer leaves its last `Add` and stops, and not only that `Close` returns:
after a failed start consumers still add when it does.

**series** (`MCGeneratorState`, 762 000 states, 15 s). One or two consumers,
three blocks of two chunks of one sample. Two blocks are needed to see that Last
comes from the block before, a third to see that it comes from no earlier one.

**publish** (`MCPublish`, 852 000 states, 17 s) and **publish_retention**. Two
runs, one after the other or concurrent, three pieces each, a clock that may or
may not advance between them (two temporary directories of the same
millisecond), "data" or "data/" as the output, a retention of one piece, an error
or a crash at every step. Two runs are the least that can disturb each other; a
directory left over by a first run meets one that is being written by a second.
The invariants are proved for any number of them.

**queriers** (`MCRemoteQuery`, 502 000 states, 3 min). Two queriers, a query of
up to two chunks and one of one chunk, one retry instead of five. So a chunk can
wait for a querier, fail while another one of its query is in flight, be skipped,
or be retried while the query is cancelled or the server stops.

**replay** (`MCAlertReplay`, 355 000 states, 35 s). Two series, all data on five
times, chunks of two, intervals of one (divides a chunk), two (is a chunk) and
three (does not divide it), an empty range, hold durations of none, one and two,
limit none or one. Every lookup of both passes goes through the cache with its
places; a template may ask twice. With two series the limit can be exceeded and an
alert can end while another goes on. Five times allow pending, firing, resolved,
and active again. `ReplayInv` is the inductive invariant of the proofs; of the
properties of this run `Termination` alone is not proved.

**backfill** (`MCBackfill`, 71 000 states, 7 s). Two consumers, two entries,
matrices of up to three series with one or two points: a series runs out first,
in the middle or last of the three parallel slices; a database that opens or does
not, every failure, and a Close while consumers run. `IteratorInv` and
`CompleteEntry` are proved for all matrices.

**chart** (`MCLttb`, 389 000 states, 5 s). All series of up to eight points with
values 0, 2 or NaN, reduced to every number of points from 0 to 8; where the
floating-point product may be rounded below a whole number, both outcomes. Both
properties are proved for series of any length.

**command** (`MCCommand`, 60 000 states, 3 s). A flag of each kind (a plain value,
a required file, a URL, a time, filters, matchers), given up to twice on the command
line with texts that are accepted or refused, in the environment and in the file;
no profile, the heap profile, or all three, with any failure; a task that
returns, fails or panics, or the web server with requests and interrupts at any
moment. `InterruptEnds` (liveness) is checked here only.

### Fairness

Weak fairness is assumed of every goroutine, and of nothing else: Go's scheduler
preempts, so a goroutine that can go on does. A step that waits for an outside
party is fair for the reason given at its module: an attempt of a querier ends
because Prometheus answers or the connection breaks; a query of the backfill ends
by the timeout of the promql engine (ten minutes), a read of the migrator by that
of its client (two minutes). Errors, crashes, cancelled requests, new requests and
the operator's signal are never fair. `AppendLocks` assumes strong fairness of
taking the inner mutex, which is what the starvation mode of `sync.Mutex`
guarantees. `AlertReplay` is sequential; its fairness covers the steps of the
handler but not the failure of a query. `Command` is fair to the main goroutine
(`Main`), and neither to interrupts nor to requests, which may never end.

The liveness properties: `EverybodyStops`, `JobEnds`, `AppendersClosed`,
`QueriesEnd`, `StopEnds`, `Termination`, `RunReturns`, `InterruptEnds`. Three of
them name the case in which the code does not terminate: a block shorter than four
milliseconds (`NarrowBlock` in `JobEnds`), a mutex spoilt by `LateError` (`corrupt`
in `AppendersClosed`), and a query that hands a chunk to a stopped pool (`Blocked`
in `QueriesEnd`).

`CHECK_DEADLOCK FALSE` is given where the modelled part ends for good: the test of
a rule is over (replay), or a mutex that was spoilt leaves a consumer asleep
(locks).

---------------------------------------------------------------------------

## 4. The proofs

TLAPS checks every step; nothing is assumed but the named assumptions on the
constants, which TLC evaluates in the runs.

**`BlockWriterProof`**, from `PlanAssumption` (the plan is any finite sequence of
blocks of any finite length) and `ParallelismAssumption` (any
`--parallelism`, on a machine whose number of processors is not a multiple of 256:
there `MaxParallelism`, a `uint8`, is 0, no consumer is started, and an empty plan
is published; `ParallelismPositive` shows that there is a consumer otherwise).
No property of interest is inductive: that a consumer never works ahead of its
block needs that `wg` counts exactly the planned entries not yet written, which
needs that no entry is in two hands, which needs that entries are handed out in
order. `WriterInv` is the conjunction that is inductive:

* `EntryInv`, `NoSharedEntry`: what producer, consumers, `done` and `failed` say
  of an entry; handed out at most once, in order;
* `WaitGroupInv`: `wg` and `cg` as cardinalities;
* `BarrierInv`: while the producer is in a block, earlier blocks are done;
* `CancelInv`: who may be gone when the context is cancelled;
* `PhaseInv`: which phase of Run goes with which state of the goroutines.

The proof has one lemma per part (`TypeStep`, `EntryStep`, `WaitGroupStep`,
`BarrierStep`, `CancelStep`, `PhaseStep`) with a step per action that disturbs it.
The arithmetic of the wait groups rests on lemmas about finite sets
(`PlanIsFinite`, `CountedSets`, `WgZero`, `CgZero`). `Invariance` combines them.

| Theorem | For every plan and every number of consumers |
|---|---|
| `Invariance` | `WriterInv` is an invariant |
| `TypeCorrect` | types; the wait groups are never negative |
| `WgCorrect` | `wg` counts the planned entries that are not written |
| `EntriesNotShared` | no entry is received twice |
| `BarrierCorrect` | `BlockBarrier` |
| `AppendersCorrect` | `NoAddAfterClose` |
| `PublishCorrect` | without a failed entry, what is published is the whole plan |
| `OrderCorrect` | `InPlanOrder`, an action property |
| `Implementation` | `BlockWriter` implements `PlannedWrite`: its initial states are initial there, and each step is a step there or changes nothing (`ImplementationStep`) |

**`DatabaseProof`, about `Appender`**, from `TimestampAssumption` and `LimitAssumption` (any
timestamps, any number of calls, any positive limit and window). The counter of
samples is reset by a flush before the sample that caused it is appended, so it is
one behind what is in memory; the inductive invariant `AddInv` says by how
much (`MemoryInv`), what is still in the window (`WindowInv`), and
which samples the forgotten count can cost (`LossInv`). Theorems: `Invariance`,
`MemoryCorrect`, `WindowCorrect`, `LossCorrect`.

**`DatabaseProof`, about `AppendLocks`**, for any number of consumers and samples. `LocksInv` is
inductive: who holds the inner mutex and may have the write lock (`HolderInv`);
the counter of the runtime against the readers there are, awake or asleep, with
those a pending writer still waits for (`ReadersAreCounted`), as long as no
`LateError` has spoilt it; that a writer is alone (`WriterIsAlone`); and what the
manager has made and closed (`ManagerInv`), without which a Close might come while
`Run` makes appenders. Each lock operation changes the cardinality of one set of
threads by one, so the proof rests on lemmas about adding to and removing from a
finite set. Theorems: `LocksCorrect`, `KilledCorrect`.

**`PlanProof`**, for any units, block size, range and interval.
`ExecInv` is `PlanInv` (chunks within the range and one block, apart from each
other, the loops within their bounds) with `ProgressInv` (the executed chunks have
accounted for their samples, added or passed over as NaN, and only late samples come
in besides or twice), for any `NaNTimes` and `LateTimes`. The hard part is arithmetic: Go's truncating
remainder, which is negative at the epoch, moves the aligned start by less than a
step of milliseconds counted in nanoseconds, and the start is then never before the
block or the range, and after it by less than an interval (lemmas on
`evalTimestamp` and `StartWithAlignment`). That nothing else of the range is left
out needs a second invariant, `CoverInv`, over both loops: what lies before the block
at hand is covered, within it what lies before the next chunk is planned, and the
next chunk is one of the four quarters or all four are planned, so that a block that
ends has at most four milliseconds left. Theorems: `ExecCorrect`, `RangeCorrect`,
`OrderCorrect` (an action property), `MigrationCorrect`, `GenerationCorrect`, and
`MigrationExact`: with a server that keeps to the end of a read (`LateTimes = {}`) a
migration copies each sample of the planned chunks once, and nothing else.

**`PublishProof`**, for any number of runs and pieces, any clock and retention.
`DirectoryInv` is inductive with, among its parts, `RunInv` (runs start in order,
remove earlier directories only, and have everything that is still to be moved on
their list), `OwnPieces` and `PieceInOneBlock` (with which a rename, and a block made
of several that overlap, lose and copy nothing), and `WorkIsOnDisk` (what is made and
has not expired is on disk, or a younger run has been there). Theorems:
`DirectoryCorrect`, `OutputCorrect`, `NothingLost`, `PublishedWhenDone`.

**`PlanProof`, about `GeneratorState`**, for any plan and any set of consumers.
`StateInv` says which chunks are handed out and how far each is evaluated
(`ChunkInv`), of which block Last can be (`LastInv`), how many increments of Index
are under way (`CountInv`), and, where one consumer is alone, the exact values
at each of its steps (`AloneInv`). Theorem: `StateCorrect`.

**`RemoteQueryProof`**, for any pool, number of requests and chunks, and retries.
`RemoteInv` says that a chunk is in one hand (`JobInv`), that the wait group of a
query counts the chunks in somebody's hands, so that the query is past its wait only
when all are handled (`QueryInv`), why a chunk may be dropped (`DropInv`), and whom the
wait group of the pool counts (`PoolInv`). Theorems: `Invariance`, `SendCorrect`,
`QueriesComplete`.

**`BackfillProof`**, for any consumers, entries and matrices. `IteratorInv` needs
`ExecuteInv`, whose `Turns` relates the three parallel slices of the iterator to what
was added: they speak of the same series, those with points left, each as often
added as its index says, and exactly the series before the place are a turn ahead.
The cases are those of `Next`: a series that goes on, the last one of a turn, and one
that is cut out in the middle or at the end. Theorems: `IteratorCorrect`,
`EntryCorrect` (an action property).

**`AlertTesterProof`, about `AlertReplay` and `QueryCache`**, from `GridAssumption` and
`ReplayAssumption`: any series with any samples, any range and interval,
hold duration and limit. `ReplayInv` has, apart from the types:

* what the cache holds: `CopiesAtSeamsOnly` and `ChunksAreSeamless`. The matrix is
  flattened from a sequence per time, and that it is sorted, has each time at most
  twice, and twice at a seam only, is an induction over the times (`FlattenInduction`,
  `SampleMore`);
* where the passes and the searches are (`WhereItIs`, `SearchedUpTo`): the place of a
  series only moves forward, so a search finds a time because no earlier search went
  beyond it (`Lookup`, `SearchStep`); that both answers of a template are those of a
  lookup (`FirstAnswerIsLookup`) follows, it is not inductive by itself;
* what was evaluated (`EvaluatedSoFar`, `EvaluatesWholeRange`), the grid of the
  interval and then the end of the range;
* the episodes of an alert in the first pass (`EpisodesInv`, `CurrentEpisodes`): a
  series is there at every evaluated time of an episode and not when it is resolved,
  an episode fires as soon as it has been held and no sooner, the episodes of a series
  are apart, and every sample is in one;
* what the second pass has made of the times that are past (`ShownInv`,
  `FiringSoFar`, `FaithfulSoFar`): its alert is the episode as it was at that time
  (`SoFar`). The core is that it sees an episode at the times at which something
  happens to it and at those of other series between them, and comes to the same
  state (`FaithfulAt`); when an alert was dropped while pending, it may have been
  active, and have fired, earlier than in the first pass, but fires and is resolved
  nevertheless (`FiringGoesOn`, `FiringResolved`).

Theorems: `ReplayInvHolds`, `ReplayFaithful`, `FiringNeverMissed`.

**`AlertTesterProof`, about `Lttb`**, from `InputAssumption`: any points, with or
without NaN, and any target. `TurnsInv` is inductive: `BucketsInTurn` says of which
bucket each turn is and that the last point taken lies before it, `PeakKeptSoFar`
that the buckets that are done have given up their lone peak. Its arithmetic is that
`k * (n - 2) / (target - 2)` increases with `k`, by more than the error of rounding
(`QuotientStep`, `Buckets`); its geometry, that with the other points at zero only the
triangle of the peak has an area (`PeakTaken`), for which the mean of the next bucket
lies beyond the last point taken (`MiddleAverages`, an induction over the sum). Theorems:
`ChartInvHolds`, `LonePeakIsKept`.

**`CommandProof`**, for any flags, texts and profiles. `RunInv` has a part for
the flag (`ParsedSoFar`: what the parser has collected so far; with the precedence of
the sources), one for the profiler (`ProfilesHaveClosers`: what runs has a method
closer and an open file, what is open has a file closer, and what was asked for is
finished, has a closer or is yet to be started, but for a heap profile that could not
be written), and the types of the rest. The filters that are repeated and joined need
that a sequence of texts, flattened, is a text again (`FlattenSeqType`). Theorems:
`CommandInvHolds`, `PrecedenceHolds`.

Induction over data. The library's induction theorems have an operator as a
parameter, which the provers do not instantiate; but an induction over the members of
a set needs none. `LeastNat` (from the well-foundedness of `<`) and `NatInd` give it for
sets of numbers, and with it what the folds of the community modules compute:
`SumUnfolds` for sums over a finite set, `FlattenInduction` for sequences that are
joined, element by element.

Only model-checked: all liveness, since TLAPS does not reason about fairness or
ENABLED (`EverybodyStops`, `JobEnds`, `AppendersClosed`, `QueriesEnd`, `StopEnds`,
`Termination`, `RunReturns`, `InterruptEnds`). Every safety property of the passing runs
is the statement of a theorem.

---------------------------------------------------------------------------

## 5. What the model says about the code

One run shows a disagreement between the program and its documentation.

* **publish_retention / `EverythingIsPublished`**: `Compact` opens the new blocks
  with a retention of 90 days (`database.go:23`, `:234`); the tsdb deletes what is
  further back than that from the newest block, before the blocks are moved to the
  output directory, and no error is returned. `README.md:205` says "Migrate the
  specified data from a remote prometheus to a local prometheus TSDB". All the
  other properties of publication hold with what may have expired set apart
  (`Expired`).

The following was met while modelling. No document says otherwise, so the
properties state what is true and name the exception.

| Where | What the code does | Where it shows |
|---|---|---|
| `planner.go:20` | a number of processors is cut to 8 bits: with 256 of them any positive `--parallelism` becomes 0 and an empty plan is published | `ParallelismAssumption` |
| `planner.go:435` | a plan that failed in the middle is closed, compacted and published, and Run returns nil | `PlannedWrite!Publish` |
| `planner.go:154`, `:155` | the end of a block is cut to whole seconds, so the last 999 ms of each block are never planned; where the aligned start of a block lies past its end, that block and all later ones are dropped, and if it is the first, nothing is planned | `InTail`, `DroppedFrom` in `RangeIsPlanned` |
| `planner.go:169` | a quarter of a block is rounded down: up to four milliseconds are left out; below four milliseconds the loop does not end | `InTail`, `NarrowBlock` in `JobEnds` |
| `planner.go:151` | `--sample-interval` may be negative: the loop that adds it until a time is reached need not end | `InputAssumption` leaves it out |
| `planner.go:188` | a step in milliseconds is used as nanoseconds, and divides by zero for an interval below a millisecond, zero too | `DivideByZero` |
| `appender.go:133` | the sample appended after a flush is not counted, and is lost if the next call flushes or closes | `LossOnlyBetweenFlushes` |
| `appender.go:134` | an error there gives back a read lock while the write lock is held: the process dies | `LateError`, `KilledOnlyByErrors` |
| `planner.go:405` | when a consumer cannot be started, Run closes the appenders while earlier consumers may be in `Add`: an append to a closed appender ends the process | `AppendToNil`, `KilledOnlyByErrors` |
| `generator.go:230` | where the value is NaN no sample is added, so that an expression may leave gaps of any length (`exampleMetricConfig.yml:39` means to) | `OnlyNaNLeavesGaps` |
| `generator.go:228` | Index, Last and Timestamp are shared by concurrent chunks | `SequentialIfAlone` and the rest of `StateInv` |
| `database.go:63` | with "data/" the directory must exist before the first run, and leftovers are never found | `RefusedOnlyAtFirst`, `NoLeftovers` in `DirectoryInv` |
| `database.go:73` | a second run removes the temporary directory of a first that is still active | the exception in `DoneMeansPublished` |
| `database.go:243` | an error of `tsdb.Open` is overwritten: the database is nil, and the first query, or Compact, panics | `QueryNil` in `Backfill` |
| `server.go:108` | the minute for `Shutdown` begins before the pool is closed, which it does not bound: what is left of it may be nothing, and Stop then panics with requests under way that would end | `ShutdownTimesOut`, `Shutdown` in `Command` |
| `server.go:113` | Stop closes the pool before it waits for requests; a query that wants to hand over a chunk then blocks, and after a minute Stop panics | `Blocked` in `QueriesEnd`, `ShutdownTimesOut` |
| `queryable.go:269` | a request is sent six times and reported as five attempts | `Retried` |
| `queryable.go:377` | chunks start 30 minutes apart whatever the interval: from the second chunk on, samples may be off the grid of the first | `ChunksAreSeamless` (where the interval divides a chunk) |
| `queryable.go:378` | both chunks contain the sample at their seam | `CopiesAtSeamsOnly` in `ReplayInv` |
| `alertTester.go:443` | the second pass does not see that an alert was dropped while pending, and joins it to a later one | `forgotten` in `ReplayIsFaithful` |
| `migrator.go:127` | samples from before the chunk are filtered, those from after it are not: what a server returns past the end of a read is added although it is not planned, or twice | `Late` in `ProgressInv`, `MigratedOnceUnlessLate` |
| `migrator.go:110` | a read is sent six times before it fails, and the error says five | `ReadFails` |
| `command.go:54`, `:194` | the usage of `--config` says `.promutil.config`, while viper looks for `.promutil` with an extension it knows | not in a property |
| `command.go:217` | every flag that was set is set again from its own rendering, errors ignored: filters are repeated and joined by a comma, and a time may be rounded to "3 hours ago" | `FlagsFollowPrecedence` |
| `command.go:217` | a refused text of an environment variable hides the one in the configuration file, without an error | `Good` in `FlagsFollowPrecedence` |
| `web.go:34` | the channel has no buffer: an interrupt between `signal.Notify` and the receive is dropped | `MainGoesOn`, `Interrupt` |
| `server.go:96` | a `ListenAndServe` that fails is only logged: the command waits for an interrupt without a server | `StartServer` |
| `errors.go:22` | `NewMulti` keeps the last error only | not in a property |
| `lttb.go:30` | with three points to keep, or NaN among the values, the first point is repeated; the last point but one is never chosen; one point to keep gives two | `InOrder` in `ChartInv`, `LonePeakKept` |

---------------------------------------------------------------------------

## 6. What is not modelled

* **How texts are parsed**: times, addresses, matchers, rule files and metric
  configurations. `Command` has which text counts and whether it is accepted; the
  models of the tasks start from the values: any interval that is not negative, any
  range that passes `TimeRange`, any `--parallelism`, any rules.
* **Requests of the page**: routes, templates, the parsing of a request and the JSON
  of its answer keep no state. `parseAlertsTestingBody` accepts a step below a
  millisecond, by which `evaluateAlertRule` then divides; this is the one hazard
  without a property, because the models start behind the parsing.
* **The expression language of the generator** and the specification it is given;
  an instance of a metric is one state.
* **The joining of errors** in `database.Close` and `profiler.Close`: only whether
  there is an error is kept.
* **Formatting, logging, version, embedded files and their generators**: text only.
* **The tsdb, promql, Prometheus, cobra, viper and Go's runtime** appear only as the
  choices they leave to the code.

Text and numbers of samples are abstract throughout, except in `Lttb`, where
values are compared.

---------------------------------------------------------------------------

## 7. Bounds and what could be added

Every run is small in the number of its actors and complete in their order. The
constants that are bounds of the models only, not parameters of the code, are:
`MaxAdds` (`AppendLocks`), `MaxCalls` and `Timestamps` (`Appender`), `MaxPieces`,
`MaxTime` and `NumRuns` (`Publish`),
`MaxSeries` and `MaxPoints` (`Backfill`), `Times` and `Intervals` (`Planner`),
`SampleTimes`, `LateTimes` and `NaNTimes` (`PlanExecution`), `MaxChunks` (`RemoteQuery`), `MaxTime`, `Ends`,
`Intervals`, `HoldDurations` and `Limits` (`QueryCache`, `AlertReplay`), `Words`, `Args`,
`Texts` and `Requests` (`Command`), and `MaxLen` and `Numbers` (`Lttb`). The theorems hold for
all values of these, so that a bound decides only what TLC looks at.

What would be worth adding: a composition of `Appender` with `Publish`, from a
sample to the output; the expression language as a relation between Index, Last and the value of a sample.
