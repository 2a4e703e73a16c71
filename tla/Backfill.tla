------------------------------ MODULE Backfill ------------------------------
(***************************************************************************)
(* The backfill command (lib/backfiller/backfiller.go) with the query half *)
(* of the database it reads (lib/database/database.go, querier.go): the    *)
(* rules that are left after filtering, QueryManager and openDatabase, the *)
(* executors that evaluate a rule over a chunk and walk the matrix it      *)
(* gives, and the deferred Close, which may come while they still run.     *)
(*                                                                         *)
(* The block writer is BlockWriter: here it only hands out entries and     *)
(* returns, early when its start failed.  Appender.Add is a step that      *)
(* succeeds or fails.                                                      *)
(***************************************************************************)
EXTENDS Integers, Sequences, FiniteSets, SequencesExt

CONSTANTS Consumers,   \* consumers of the block writer
          Chunks,      \* chunks of the plan
          Rules,       \* recording rules of the rule files
          MaxSeries,   \* bound: series of a matrix
          MaxPoints    \* bound: points of a series

ASSUME BoundAssumption == MaxSeries \in Nat /\ MaxPoints \in Nat \ {0}

(* A matrix is given by the number of points of each series.  promql gives *)
(* no series without points.                                               *)
Matrices == UNION {[1 .. n -> 1 .. MaxPoints] : n \in 0 .. MaxSeries}

VARIABLES
    recordingRules,    \* the rules left after filtering
    main,              \* where Run is
    opened,            \* what openDatabase came to: "no", "nil", or "open"
    stopped,           \* queryManager.stopped
    todo,              \* entries <<chunk, rule>> not handed out yet
    at,                \* where each consumer is in Execute
    readers,           \* consumers holding mtx.RLock
    matrix,            \* the matrix each consumer's query gave
    series, seriesIndex, seriesLabels, currentSeries,   \* its iterator
    added              \* what it added: the series read, its point, the labels

iterator == <<series, seriesIndex, seriesLabels, currentSeries>>
vars == <<recordingRules, main, opened, stopped, todo, at, readers, matrix,
          iterator, added>>

Ids == 1 .. MaxSeries
Points == 0 .. MaxPoints

TypeOK ==
    /\ recordingRules \subseteq Rules
    /\ main \in {"open", "write", "lock", "returned", "refused", "panic"}
    /\ opened \in {"no", "nil", "open"}
    /\ stopped \in BOOLEAN
    /\ todo \subseteq Chunks \X Rules
    /\ at \in [Consumers -> {"idle", "check", "rlock", "query", "next", "stopped"}]
    /\ readers \subseteq Consumers
    /\ matrix \in [Consumers -> Matrices]
    /\ series \in [Consumers -> Seq(Ids)]
    /\ seriesIndex \in [Consumers -> Seq(Points)]
    /\ seriesLabels \in [Consumers -> Seq(Ids)]
    /\ currentSeries \in [Consumers -> Nat]
    /\ added \in [Consumers -> Seq([series : Ids, point : Points, labels : Ids])]
    /\ \A c \in Consumers :
          /\ Len(seriesIndex[c]) = Len(series[c]) /\ Len(seriesLabels[c]) = Len(series[c])
          /\ currentSeries[c] <= Len(series[c])

(* shouldIncludeRecordingRule keeps a rule when a filter matches its group *)
(* and one its name: any subset, and none without a filter of either kind. *)
Init ==
    /\ recordingRules \in SUBSET Rules
    /\ main = "open" /\ opened = "no" /\ stopped = FALSE
    /\ todo = {}
    /\ at = [c \in Consumers |-> "idle"]
    /\ readers = {}
    /\ matrix = [c \in Consumers |-> <<>>]
    /\ series = [c \in Consumers |-> <<>>]
    /\ seriesIndex = [c \in Consumers |-> <<>>]
    /\ seriesLabels = [c \in Consumers |-> <<>>]
    /\ currentSeries = [c \in Consumers |-> 0]
    /\ added = [c \in Consumers |-> <<>>]

-----------------------------------------------------------------------------
(* Run                                                                     *)
NoRulesLeft ==
    /\ main = "open"
    /\ recordingRules = {}
    /\ main' = "refused"
    /\ UNCHANGED <<recordingRules, opened, stopped, todo, at, readers, matrix, iterator, added>>

(* QueryManager: openDatabase sets dbError to nil after a failed open too, *)
(* so Run gets a manager in either case.  planGenerator.Generate makes an  *)
(* entry of every chunk and rule.                                          *)
Open ==
    /\ main = "open"
    /\ recordingRules # {}
    /\ opened' \in {"open", "nil"}
    /\ todo' = Chunks \X recordingRules
    /\ main' = "write"
    /\ UNCHANGED <<recordingRules, stopped, at, readers, matrix, iterator, added>>

(* writer.Run returns when every consumer has stopped.  The deferred Close *)
(* asks for the lock.                                                      *)
WriterReturns ==
    /\ main = "write"
    /\ \A c \in Consumers : at[c] = "stopped"
    /\ main' = "lock"
    /\ UNCHANGED <<recordingRules, opened, stopped, todo, at, readers, matrix, iterator, added>>

(* The start of a consumer failed: those started before go on.             *)
StartFails ==
    /\ main = "write"
    /\ main' = "lock"
    /\ UNCHANGED <<recordingRules, opened, stopped, todo, at, readers, matrix, iterator, added>>

(* queryManager.Close, called by database.Close; Run returns.  The tsdb    *)
(* stays open.                                                             *)
Close ==
    /\ main = "lock"
    /\ readers = {}
    /\ main' = "returned"
    /\ stopped' = TRUE
    /\ UNCHANGED <<recordingRules, opened, todo, at, readers, matrix, iterator, added>>

-----------------------------------------------------------------------------
(* A consumer: planExecutor.Execute                                        *)
Goes(c, to) == at' = [at EXCEPT ![c] = to]

Take(c) ==
    /\ at[c] = "idle"
    /\ \E entry \in todo : todo' = todo \ {entry}
    /\ Goes(c, "check")
    /\ added' = [added EXCEPT ![c] = <<>>]
    /\ UNCHANGED <<recordingRules, main, opened, stopped, readers, matrix, iterator>>

(* No more entries, or the context is cancelled: another consumer failed,  *)
(* or the start of the writer did.                                         *)
Cancelled == main \in {"lock", "returned"} \/ \E c \in Consumers : at[c] = "stopped"

Stop(c) ==
    /\ at[c] = "idle"
    /\ main # "open"
    /\ todo = {} \/ Cancelled
    /\ Goes(c, "stopped")
    /\ UNCHANGED <<recordingRules, main, opened, stopped, todo, readers, matrix, iterator, added>>

(* QueryRangeRule reads stopped before it takes the lock.                  *)
CheckStopped(c) ==
    /\ at[c] = "check"
    /\ Goes(c, IF stopped THEN "stopped" ELSE "rlock")
    /\ UNCHANGED <<recordingRules, main, opened, stopped, todo, readers, matrix, iterator, added>>

(* mtx.RLock: not while Close waits for the lock.                          *)
RLock(c) ==
    /\ at[c] = "rlock"
    /\ main # "lock"
    /\ readers' = readers \cup {c}
    /\ Goes(c, "query")
    /\ UNCHANGED <<recordingRules, main, opened, stopped, todo, matrix, iterator, added>>

(* Definitions whose name ends in _bug are no part of the model: each is   *)
(* the definition after it with a plausible slip a property must find.     *)
(* The error that openDatabase lost is an empty matrix.                    *)
QueryNil_bug(c) ==
    /\ at[c] = "query"
    /\ opened = "nil"
    /\ readers' = readers \ {c}
    /\ Goes(c, "idle")
    /\ UNCHANGED <<recordingRules, main, opened, stopped, todo, matrix, iterator, added>>

(* Exec asks a nil database for a querier: the process is gone.            *)
QueryNil(c) ==
    /\ at[c] = "query"
    /\ opened = "nil"
    /\ main' = "panic"
    /\ UNCHANGED <<recordingRules, opened, stopped, todo, at, readers, matrix, iterator, added>>

(* newRecordingRuleSampleIterator                                          *)
Query(c) ==
    /\ at[c] = "query"
    /\ opened = "open"
    /\ \E m \in Matrices :
          /\ matrix' = [matrix EXCEPT ![c] = m]
          /\ series' = [series EXCEPT ![c] = [i \in 1 .. Len(m) |-> i]]
          /\ seriesLabels' = [seriesLabels EXCEPT ![c] = [i \in 1 .. Len(m) |-> i]]
          /\ seriesIndex' = [seriesIndex EXCEPT ![c] = [i \in 1 .. Len(m) |-> 0]]
    /\ currentSeries' = [currentSeries EXCEPT ![c] = 0]
    /\ readers' = readers \ {c}
    /\ Goes(c, "next")
    /\ UNCHANGED <<recordingRules, main, opened, stopped, todo, added>>

(* A query that fails is made again, without a limit.                      *)
QueryFails_bug(c) ==
    /\ at[c] = "query"
    /\ opened = "open"
    /\ readers' = readers \ {c}
    /\ Goes(c, "rlock")
    /\ UNCHANGED <<recordingRules, main, opened, stopped, todo, matrix, iterator, added>>

(* No query is made of the rule, or its execution fails or is cancelled.   *)
QueryFails(c) ==
    /\ at[c] = "query"
    /\ opened = "open"
    /\ readers' = readers \ {c}
    /\ Goes(c, "stopped")
    /\ UNCHANGED <<recordingRules, main, opened, stopped, todo, matrix, iterator, added>>

(* The series Next reads: currentSeries, or 0 when that is past the end.   *)
Place(c) == IF currentSeries[c] >= Len(series[c]) THEN 1 ELSE currentSeries[c] + 1

IsLastPoint(c) == seriesIndex[c][Place(c)] + 1 >= matrix[c][series[c][Place(c)]]

(* The place moves on although a series was taken out from under it.       *)
Advance_skip_bug(c) ==
    LET p == Place(c)
    IN  IF IsLastPoint(c)
        THEN /\ series' = [series EXCEPT ![c] = RemoveAt(@, p)]
             /\ seriesIndex' = [seriesIndex EXCEPT ![c] = RemoveAt(@, p)]
             /\ seriesLabels' = [seriesLabels EXCEPT ![c] = RemoveAt(@, p)]
             /\ currentSeries' = [currentSeries EXCEPT ![c] = IF p < Len(series[c]) THEN p ELSE 0]
        ELSE /\ seriesIndex' = [seriesIndex EXCEPT ![c][p] = @ + 1]
             /\ currentSeries' = [currentSeries EXCEPT ![c] = p]
             /\ UNCHANGED <<series, seriesLabels>>

(* An exhausted series leaves all three slices.                            *)
Advance(c) ==
    LET p == Place(c)
    IN  IF IsLastPoint(c)
        THEN /\ series' = [series EXCEPT ![c] = RemoveAt(@, p)]
             /\ seriesIndex' = [seriesIndex EXCEPT ![c] = RemoveAt(@, p)]
             /\ seriesLabels' = [seriesLabels EXCEPT ![c] = RemoveAt(@, p)]
             /\ currentSeries' = [currentSeries EXCEPT ![c] = p - 1]
        ELSE /\ seriesIndex' = [seriesIndex EXCEPT ![c][p] = @ + 1]
             /\ currentSeries' = [currentSeries EXCEPT ![c] = p]
             /\ UNCHANGED <<series, seriesLabels>>

(* Next returns a sample, and Add takes it.                                *)
AddNext(c) ==
    /\ at[c] = "next"
    /\ series[c] # <<>>
    /\ added' = [added EXCEPT ![c] = Append(@,
                    [series |-> series[c][Place(c)],
                     point  |-> seriesIndex[c][Place(c)] + 1,
                     labels |-> seriesLabels[c][Place(c)]])]
    /\ Advance(c)
    /\ UNCHANGED <<recordingRules, main, opened, stopped, todo, at, readers, matrix>>

AddFails(c) ==
    /\ at[c] = "next"
    /\ series[c] # <<>>
    /\ Goes(c, "stopped")
    /\ Advance(c)
    /\ UNCHANGED <<recordingRules, main, opened, stopped, todo, readers, matrix, added>>

(* Next has no more; Execute returns nil.                                  *)
Executed(c) ==
    /\ at[c] = "next"
    /\ series[c] = <<>>
    /\ Goes(c, "idle")
    /\ UNCHANGED <<recordingRules, main, opened, stopped, todo, readers, matrix, iterator, added>>

Consume(c) ==
    /\ main # "panic"
    /\ \/ Take(c) \/ Stop(c) \/ CheckStopped(c) \/ RLock(c)
       \/ QueryNil(c) \/ Query(c) \/ QueryFails(c)
       \/ AddNext(c) \/ AddFails(c) \/ Executed(c)

Run == NoRulesLeft \/ Open \/ WriterReturns \/ Close

Ended ==
    /\ main \in {"refused", "panic"} \/ \A c \in Consumers : at[c] = "stopped"
    /\ main # "write" /\ main # "lock"
    /\ UNCHANGED vars

Next == Run \/ StartFails \/ (\E c \in Consumers : Consume(c)) \/ Ended

Spec == Init /\ [][Next]_vars

(* The Go scheduler runs every goroutine that can run; a query ends, at    *)
(* the latest by the engine's timeout of ten minutes.                      *)
FairSpec ==
    /\ Spec
    /\ WF_vars(Run)
    /\ \A c \in Consumers : WF_vars(Consume(c))

-----------------------------------------------------------------------------
(* Properties                                                              *)
Count(c, s) == Cardinality({i \in 1 .. Len(added[c]) : added[c][i].series = s})

(* What Next returns has the labels of the series it was read from, and    *)
(* the points of a series come in ascending order, however the series run  *)
(* out and are cut from the three slices.                                  *)
SamplesOfTheirSeries ==
    \A c \in Consumers : \A j \in 1 .. Len(added[c]) :
        /\ added[c][j].labels = added[c][j].series
        /\ added[c][j].point =
              Cardinality({i \in 1 .. j : added[c][i].series = added[c][j].series})

(* The iterator takes turns: a series that is not exhausted is at most one *)
(* point behind any other, so that an appender, whose window moves with    *)
(* the samples, does not go through the chunk once per series.             *)
RoundRobin ==
    \A c \in Consumers : at[c] = "next" =>
        \A s, u \in 1 .. Len(matrix[c]) :
            Count(c, s) < matrix[c][s] => Count(c, s) >= Count(c, u) - 1

(* Between two calls of Next: the three slices speak of the same series,   *)
(* those with points left, and exactly the series before the place are a   *)
(* turn ahead.                                                             *)
Turns(c) ==
    LET open == 1 .. Len(series[c])
        all == 1 .. Len(matrix[c])
    IN  /\ seriesLabels[c] = series[c]
        /\ \A p, q \in open : p # q => series[c][p] # series[c][q]
        /\ \A p \in open :
              /\ series[c][p] \in all
              /\ seriesIndex[c][p] = Count(c, series[c][p])
              /\ seriesIndex[c][p] < matrix[c][series[c][p]]
        /\ \A s \in all : (\A p \in open : series[c][p] # s) => Count(c, s) = matrix[c][s]
        /\ \E k \in Points :
              /\ \A p \in open : seriesIndex[c][p] = IF p < Place(c) THEN k + 1 ELSE k
              /\ \A s \in all : Count(c, s) <= k + 1

ExecuteInv ==
    /\ main = "open" => todo = {} /\ \A c \in Consumers : at[c] = "idle"
    /\ \A c \in Consumers :
          /\ at[c] = "next" => opened = "open" /\ Turns(c)
          /\ at[c] \in {"check", "rlock", "query"} => added[c] = <<>>

(* The state of the iterator: what it has given away and what is next.     *)
IteratorInv == TypeOK /\ SamplesOfTheirSeries /\ RoundRobin /\ ExecuteInv

(* An Execute that returns nil asked a database that was opened, and added *)
(* every point of the matrix.                                              *)
CompleteEntry ==
    [][\A c \in Consumers : at[c] # "idle" /\ at'[c] = "idle" =>
          /\ opened = "open"
          /\ \A s \in 1 .. Len(matrix[c]) : Count(c, s) = matrix[c][s]]_vars

(* Run returns, whatever fails: Close gets the lock.                       *)
RunReturns == <>(main \in {"returned", "refused", "panic"})
=============================================================================
