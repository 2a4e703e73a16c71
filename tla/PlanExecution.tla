--------------------------- MODULE PlanExecution ----------------------------
(***************************************************************************)
(* What the commands generate and migrate make of a plan: planExecutor of  *)
(* lib/generator/generator.go evaluates an expression on a grid of its own *)
(* in every chunk, and planExecutor of lib/migrator/migrator.go reads a    *)
(* chunk from a remote server, with retries.  Plan has returned before the *)
(* first chunk is executed.  How consumers share the chunks is the subject *)
(* of BlockWriter: here one consumer takes them in the order of the plan.  *)
(*                                                                         *)
(* One time series stands for all of them; samples are their timestamps.   *)
(***************************************************************************)
EXTENDS Planner, FiniteSets

CONSTANTS SampleTimes,             \* the samples of the remote server, ms
          StaleTimes,              \* those that are stale markers
          LateTimes,               \* those it may add to a read that ends before
          NaNTimes,                \* where the expression may give NaN, ms
          maxQueryRetryAttempts    \* of migrator.go: 5

ASSUME SourceAssumption ==
    /\ SampleTimes \subseteq Nat /\ StaleTimes \subseteq SampleTimes
    /\ LateTimes \subseteq SampleTimes /\ NaNTimes \subseteq Nat
    /\ maxQueryRetryAttempts \in Nat

VARIABLES
    task,      \* "generate" or "migrate"
    todo,      \* the chunks of the plan not yet executed
    reads,     \* failed reads of the chunk at hand
    added,     \* the samples given to appender.Add
    repeated,  \* those given to it more than once
    nans,      \* where the expression gave NaN (history)
    job        \* "running", "written", or "failed"

execVars == <<task, todo, reads, added, repeated, nans, job>>
allVars == <<vars, execVars>>

Jobs == {"running", "written", "failed"}

ExecTypeOK ==
    /\ task \in {"generate", "migrate"}
    /\ todo \subseteq chunks
    /\ reads \in 0 .. maxQueryRetryAttempts
    /\ added \subseteq Nat /\ repeated \subseteq added /\ nans \subseteq Nat
    /\ job \in Jobs

ExecInit ==
    /\ Init
    /\ task \in {"generate", "migrate"}
    /\ todo = {} /\ reads = 0 /\ added = {} /\ repeated = {} /\ nans = {}
    /\ job = "running"

(* The loop over sampleTimestamp: from the start of the chunk, whatever    *)
(* the chunk before ended with, and short of its end.                      *)
Grid(c) ==
    {t \in c.start .. c.end : t < c.end /\ (t - c.start) % stepDuration = 0}

(* Definitions whose name ends in _bug are no part of the model: each is   *)
(* the definition after it with a plausible slip a property must find.     *)
(* Here the loop ends where the value is NaN.                              *)
Valued_bug(c, nan) == {t \in Grid(c) : \A u \in nan : t < u}

(* A time at which the value is NaN is passed over.                        *)
Valued(c, nan) == Grid(c) \ nan

(* A read answers with the samples of the chunk, and maybe older or later  *)
(* ones: a server need not keep to the times it is asked for.              *)
Answers(c) ==
    LET within == {t \in SampleTimes : c.start <= t /\ t <= c.end}
        older  == {t \in SampleTimes : t < c.start}
        late   == {t \in LateTimes : t > c.end}
    IN  {within \cup o \cup l : o \in {{}, older}, l \in SUBSET late}

Kept_bug(c, read) == read \ StaleTimes

(* Stale markers and samples from before the chunk are skipped; those from *)
(* after it are not.                                                       *)
Kept(c, read) == {t \in read : t \notin StaleTimes /\ t >= c.start}

AddAll(samples) ==
    /\ repeated' = repeated \cup (added \cap samples)
    /\ added' = added \cup samples

-----------------------------------------------------------------------------
Plan ==
    /\ pc \notin {"done", "panic"}
    /\ Next
    /\ todo' = chunks'
    /\ UNCHANGED <<task, reads, added, repeated, nans, job>>

Executing(c) ==
    /\ pc = "done" /\ job = "running"
    /\ \A d \in todo : c.start <= d.start

Generate(c) ==
    /\ Executing(c)
    /\ task = "generate"
    /\ \E nan \in SUBSET (Grid(c) \cap NaNTimes) :
          AddAll(Valued(c, nan)) /\ nans' = nans \cup nan
    /\ todo' = todo \ {c}
    /\ UNCHANGED <<vars, task, reads, job>>

(* An evaluation or an Add fails at time t: what came before stays added.  *)
GenerateFails(c) ==
    /\ Executing(c)
    /\ task = "generate"
    /\ \E t \in Grid(c), nan \in SUBSET (Grid(c) \cap NaNTimes) :
          /\ AddAll({u \in Valued(c, nan) : u < t})
          /\ nans' = nans \cup {u \in nan : u < t}
    /\ job' = "failed"
    /\ UNCHANGED <<vars, task, todo, reads>>

Migrate(c) ==
    /\ Executing(c)
    /\ task = "migrate"
    /\ \E read \in Answers(c) : AddAll(Kept(c, read))
    /\ todo' = todo \ {c}
    /\ reads' = 0
    /\ UNCHANGED <<vars, task, nans, job>>

(* An Add fails: the samples before it stay added.                         *)
MigrateFails(c) ==
    /\ Executing(c)
    /\ task = "migrate"
    /\ \E read \in Answers(c) : \E t \in Kept(c, read) :
          AddAll({u \in Kept(c, read) : u < t})
    /\ job' = "failed"
    /\ UNCHANGED <<vars, task, todo, reads, nans>>

(* backoff.Retry reads once and then once more per allowed retry.          *)
ReadFails(c) ==
    /\ Executing(c)
    /\ task = "migrate"
    /\ IF reads < maxQueryRetryAttempts
       THEN reads' = reads + 1 /\ job' = job
       ELSE reads' = reads /\ job' = "failed"
    /\ UNCHANGED <<vars, task, todo, added, repeated, nans>>

Written ==
    /\ pc = "done" /\ job = "running"
    /\ todo = {}
    /\ job' = "written"
    /\ UNCHANGED <<vars, task, todo, reads, added, repeated, nans>>

Ended == (pc = "panic" \/ job # "running") /\ UNCHANGED allVars

ExecNext ==
    \/ Plan
    \/ \E c \in todo :
          \/ Generate(c) \/ GenerateFails(c)
          \/ Migrate(c) \/ MigrateFails(c) \/ ReadFails(c)
    \/ Written
    \/ Ended

(* Time does not stop: a read ends with an answer or, after its timeout of *)
(* two minutes, with an error.                                             *)
ExecSpec == ExecInit /\ [][ExecNext]_allVars /\ WF_allVars(ExecNext)

-----------------------------------------------------------------------------
(* Properties                                                              *)

(* The times a chunk has to account for when it is executed.               *)
Output(c) ==
    IF task = "generate" THEN Grid(c)
    ELSE {t \in SampleTimes \ StaleTimes : c.start <= t /\ t <= c.end}

(* What a read of the chunk may bring besides.                             *)
Late(c) ==
    IF task = "generate" THEN {}
    ELSE {t \in LateTimes \ StaleTimes : t > c.end}

(* The times that are accounted for, added or passed over as NaN but never *)
(* both, are those of the chunks no longer to do, and what is added beyond *)
(* these, or added twice, is what the server returned past the end of such *)
(* a chunk; a chunk that fails adds nothing of another.                    *)
ProgressInv ==
    /\ pc # "done" => todo = chunks /\ added = {} /\ nans = {} /\ job = "running"
    /\ nans \subseteq NaNTimes \ added
    /\ task = "migrate" => nans = {}
    /\ repeated \subseteq UNION {Late(c) : c \in chunks}
    /\ added \cup nans \subseteq UNION {Output(c) \cup Late(c) : c \in chunks}
    /\ job # "failed" =>
         /\ UNION {Output(c) : c \in chunks \ todo} \subseteq added \cup nans
         /\ added \cup nans \subseteq UNION {Output(c) \cup Late(c) : c \in chunks \ todo}
    /\ job = "written" => todo = {}

(* The state of planner and execution.                                     *)
ExecInv == ExecTypeOK /\ PlanInv /\ ProgressInv

(* A written migration has lost nothing: every sample of a planned chunk   *)
(* was added, however often a read failed.  Nothing from before the chunk  *)
(* that was asked for comes in, whatever the server returns; but what it   *)
(* returns past the end is added, planned or not, and then again by the    *)
(* chunk it belongs to.  Only such samples are ever added twice.           *)
MigratedOnceUnlessLate ==
    task = "migrate" =>
        /\ repeated \subseteq LateTimes
        /\ added \subseteq SampleTimes \ StaleTimes
        /\ \A t \in added :
             Planned(t) \/ (t \in LateTimes /\ \E c \in chunks : c.end < t)
        /\ job = "written" =>
             \A t \in SampleTimes \ StaleTimes : Planned(t) => t \in added

(* Only NaN leaves gaps: samples and times at which the expression gave    *)
(* NaN together are never more than an interval and a millisecond apart    *)
(* within a planned block, although each chunk starts a grid of its own    *)
(* and leaves out its end; no sample is written twice, none where the      *)
(* value is NaN.                                                           *)
OnlyNaNLeavesGaps ==
    task = "generate" =>
        /\ repeated = {} /\ added \cap nans = {}
        /\ job = "written" => \A c \in chunks : \A t \in c.start .. c.end :
             c.start < c.end =>
                \E u \in added \cup nans : t - stepDuration <= u /\ u <= t

(* Plan returns, unless it meets a block of less than four milliseconds,   *)
(* and the job ends.                                                       *)
JobEnds == <>(NarrowBlock \/ pc = "panic" \/ job # "running")
=============================================================================
