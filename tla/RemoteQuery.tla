----------------------------- MODULE RemoteQuery ----------------------------
(***************************************************************************)
(* The pool of queriers of lib/remote/queryable.go, the queries that share *)
(* it, and Stop of lib/web/server.go, which closes the pool.               *)
(*                                                                         *)
(* queryFuncProvider.query splits its range into chunks and hands each to  *)
(* a querier over the pool's unbuffered inputChan (the joint action Take). *)
(* The querier asks Prometheus, with retries, and sends the result over    *)
(* the query's own unbuffered outputChan to its collector goroutine (the   *)
(* joint action Deliver).  A failed chunk cancels the query's Canceller,   *)
(* on which its watcher cancels the context of the chunks in flight.       *)
(*                                                                         *)
(* The Prometheus server and the HTTP clients are external: an attempt     *)
(* succeeds or fails, a request comes and its context is cancelled at any  *)
(* moment.  The cache before the chunks and the sort after them are no     *)
(* part of this module.                                                    *)
(***************************************************************************)
EXTENDS Naturals, FiniteSets

CONSTANTS Queriers,    \* the goroutines of NewQueryable
          Requests,    \* the calls of query
          MaxChunks,   \* bounds on the chunks of each query
          attempts     \* 5, the retries of execute

ASSUME PoolAssumption == IsFiniteSet(Queriers) /\ Queriers # {}
ASSUME BoundAssumption == MaxChunks \in [Requests -> Nat] /\ attempts \in Nat

VARIABLES
    server,      \* Stop: "up", "closing" the pool, "draining" HTTP, ...
    cg,          \* WaitGroup of the pool: queriers that have not called Done
    querier,     \* where each querier is, or the result it is sending
    job,         \* the plan it received: <<request, chunk>>
    tries,       \* QueryRange calls made for that plan
    ctx,         \* the context of the request is cancelled
    caller,      \* where query is
    chunks,      \* into how many chunks its range is split
    sent,        \* chunks handed over
    wg,          \* WaitGroup of the query
    err,         \* its variable err is set
    cancelled,   \* its Canceller is cancelled
    pcancel,     \* cancel() of pCtx was called
    watcher,     \* the goroutine that waits for ctx and the Canceller
    inbox,       \* what the collector has received and not handled
    merged,      \* chunks in metricSeriesMap
    dropped      \* chunks that failed or were skipped

poolVars == <<cg, querier, job, tries>>
callVars == <<ctx, caller, chunks, sent>>
cancelVars == <<cancelled, pcancel, watcher>>
collectorVars == <<inbox, merged, dropped, err>>
vars == <<server, poolVars, callVars, wg, cancelVars, collectorVars>>

InFlight(r) == caller[r] \in {"add", "send", "wait"}

NoJob == <<>>
NoResult == <<>>
Chunk == Nat \ {0}
Results == {"series", "failed", "notMatrix", "skipped"}

TypeOK ==
    /\ server \in {"up", "closing", "draining", "down", "panicked"}
    /\ cg \in Nat
    /\ querier \in [Queriers -> {"idle", "got", "ready", "stopped"} \cup Results]
    /\ job \in [Queriers -> (Requests \X Chunk) \cup {NoJob}]
    /\ tries \in [Queriers -> 0 .. attempts + 1]
    /\ ctx \in [Requests -> BOOLEAN]
    /\ caller \in [Requests -> {"off", "add", "send", "wait", "ok", "error"}]
    /\ chunks \in [Requests -> Nat]
    /\ sent \in [Requests -> Nat]
    /\ wg \in [Requests -> Nat]
    /\ err \in [Requests -> BOOLEAN]
    /\ cancelled \in [Requests -> BOOLEAN]
    /\ pcancel \in [Requests -> BOOLEAN]
    /\ watcher \in [Requests -> {"none", "waiting", "done"}]
    /\ inbox \in [Requests -> (Results \X Chunk) \cup {NoResult}]
    /\ merged \in [Requests -> SUBSET Chunk]
    /\ dropped \in [Requests -> SUBSET Chunk]

Init ==
    /\ server = "up"
    /\ cg = Cardinality(Queriers)
    /\ querier = [q \in Queriers |-> "idle"]
    /\ job = [q \in Queriers |-> NoJob]
    /\ tries = [q \in Queriers |-> 0]
    /\ ctx = [r \in Requests |-> FALSE]
    /\ caller = [r \in Requests |-> "off"]
    /\ chunks = [r \in Requests |-> 0]
    /\ sent = [r \in Requests |-> 0]
    /\ wg = [r \in Requests |-> 0]
    /\ err = [r \in Requests |-> FALSE]
    /\ cancelled = [r \in Requests |-> FALSE]
    /\ pcancel = [r \in Requests |-> FALSE]
    /\ watcher = [r \in Requests |-> "none"]
    /\ inbox = [r \in Requests |-> NoResult]
    /\ merged = [r \in Requests |-> {}]
    /\ dropped = [r \in Requests |-> {}]

-----------------------------------------------------------------------------
(* The clients of the server                                               *)

(* A handler calls query; a range that ends before it starts has no chunk. *)
(* A handler of several rules may do so while Shutdown waits for it.       *)
Begin(r) ==
    /\ server \in {"up", "closing", "draining"}
    /\ caller[r] = "off"
    /\ caller' = [caller EXCEPT ![r] = "add"]
    /\ \E n \in 0 .. MaxChunks[r] : chunks' = [chunks EXCEPT ![r] = n]
    /\ UNCHANGED <<server, poolVars, ctx, sent, wg, cancelVars, collectorVars>>

(* The client goes away, or the handler has answered.                      *)
CtxCancel(r) ==
    /\ caller[r] # "off"
    /\ ~ctx[r]
    /\ ctx' = [ctx EXCEPT ![r] = TRUE]
    /\ UNCHANGED <<server, poolVars, caller, chunks, sent, wg, cancelVars, collectorVars>>

-----------------------------------------------------------------------------
(* queryFuncProvider.query.  The definitions whose name ends in _bug, here *)
(* and below, are no part of the model: each is the definition after it    *)
(* with a plausible slip, which a property must find.                      *)

AddChunk(r) ==
    /\ caller[r] = "add"
    /\ sent[r] < chunks[r]
    /\ wg' = [wg EXCEPT ![r] = wg[r] + 1]
    /\ caller' = [caller EXCEPT ![r] = "send"]
    /\ UNCHANGED <<server, poolVars, ctx, chunks, sent, cancelVars, collectorVars>>

(* q.inputChan <- plan, received by a querier that is in its select.       *)
Take(q, r) ==
    /\ caller[r] = "send"
    /\ querier[q] = "idle"
    /\ caller' = [caller EXCEPT ![r] = "add"]
    /\ sent' = [sent EXCEPT ![r] = sent[r] + 1]
    /\ querier' = [querier EXCEPT ![q] = "got"]
    /\ job' = [job EXCEPT ![q] = <<r, sent[r] + 1>>]
    /\ tries' = [tries EXCEPT ![q] = 0]
    /\ UNCHANGED <<server, cg, ctx, chunks, wg, cancelVars, collectorVars>>

AllSent(r) ==
    /\ caller[r] = "add"
    /\ sent[r] = chunks[r]
    /\ watcher' = [watcher EXCEPT ![r] = "waiting"]
    /\ caller' = [caller EXCEPT ![r] = "wait"]
    /\ UNCHANGED <<server, poolVars, ctx, chunks, sent, wg, cancelled, pcancel, collectorVars>>

(* query returns as soon as it is cancelled.                               *)
Return_bug(r) ==
    /\ caller[r] = "wait"
    /\ wg[r] = 0 \/ cancelled[r]
    /\ pcancel' = [pcancel EXCEPT ![r] = TRUE]
    /\ caller' = [caller EXCEPT ![r] = IF err[r] THEN "error" ELSE "ok"]
    /\ UNCHANGED <<server, poolVars, ctx, chunks, sent, wg, cancelled, watcher, collectorVars>>

(* wg.Wait(), cancel(), the check of err, and the deferred close(outputChan) *)
Return(r) ==
    /\ caller[r] = "wait"
    /\ wg[r] = 0
    /\ pcancel' = [pcancel EXCEPT ![r] = TRUE]
    /\ caller' = [caller EXCEPT ![r] = IF err[r] THEN "error" ELSE "ok"]
    /\ UNCHANGED <<server, poolVars, ctx, chunks, sent, wg, cancelled, watcher, collectorVars>>

(* The watcher: case <-ctx.Done(), or case <-canceller.C().  It is only    *)
(* started when every chunk is handed over, and may outlive the query.     *)
WatcherFires(r) ==
    /\ watcher[r] = "waiting"
    /\ ctx[r] \/ cancelled[r]
    /\ watcher' = [watcher EXCEPT ![r] = "done"]
    /\ pcancel' = [pcancel EXCEPT ![r] = TRUE]
    /\ cancelled' = [cancelled EXCEPT ![r] = ctx[r] \/ cancelled[r]]
    /\ UNCHANGED <<server, poolVars, callVars, wg, collectorVars>>

(* A skipped chunk is not counted down.                                    *)
Collect_bug(r) ==
    /\ inbox[r] # NoResult
    /\ inbox' = [inbox EXCEPT ![r] = NoResult]
    /\ wg' = [wg EXCEPT ![r] = IF inbox[r][1] = "skipped" THEN wg[r] ELSE wg[r] - 1]
    /\ LET Has(res) == inbox[r][1] \in res
           Also(f, res) == [f EXCEPT ![r] = IF Has(res) THEN f[r] \cup {inbox[r][2]} ELSE f[r]]
           Failure(f) == [f EXCEPT ![r] = f[r] \/ Has({"failed", "notMatrix"})]
       IN  /\ merged' = Also(merged, {"series"})
           /\ dropped' = Also(dropped, Results \ {"series"})
           /\ err' = Failure(err)
           /\ cancelled' = Failure(cancelled)
    /\ UNCHANGED <<server, poolVars, callVars, pcancel, watcher>>

(* The collector loops on a skipped chunk.                                 *)
Collect_loop_bug(r) ==
    /\ inbox[r] # NoResult
    /\ IF inbox[r][1] = "skipped" THEN UNCHANGED vars ELSE Collect_bug(r)

(* The collector handles a result and counts the chunk down.               *)
Collect(r) ==
    /\ inbox[r] # NoResult
    /\ inbox' = [inbox EXCEPT ![r] = NoResult]
    /\ wg' = [wg EXCEPT ![r] = wg[r] - 1]
    /\ LET Has(res) == inbox[r][1] \in res
           Also(f, res) == [f EXCEPT ![r] = IF Has(res) THEN f[r] \cup {inbox[r][2]} ELSE f[r]]
           Failure(f) == [f EXCEPT ![r] = f[r] \/ Has({"failed", "notMatrix"})]
       IN  /\ merged' = Also(merged, {"series"})
           /\ dropped' = Also(dropped, Results \ {"series"})
           /\ err' = Failure(err)
           /\ cancelled' = Failure(cancelled)
    /\ UNCHANGED <<server, poolVars, callVars, pcancel, watcher>>

-----------------------------------------------------------------------------
(* querier.run and querier.execute                                         *)

Request(q) == job[q][1]
PCtxDone(r) == ctx[r] \/ pcancel[r]

Becomes(q, state) == querier' = [querier EXCEPT ![q] = state]

(* The pool's context is looked at before the Canceller of the plan is.    *)
Check_bug(q) ==
    /\ querier[q] = "got"
    /\ \/ (cancelled[Request(q)] \/ server # "up") /\ Becomes(q, "skipped")
       \/ Becomes(q, "ready")
    /\ UNCHANGED <<server, cg, job, tries, callVars, wg, cancelVars, collectorVars>>

(* p.canceller.Cancelled() reads a bool that the collector writes without  *)
(* synchronisation, so it may still see FALSE.                             *)
Check(q) ==
    /\ querier[q] = "got"
    /\ \/ cancelled[Request(q)] /\ Becomes(q, "skipped")
       \/ Becomes(q, "ready")
    /\ UNCHANGED <<server, cg, job, tries, callVars, wg, cancelVars, collectorVars>>

(* After a failed attempt: again, unless attempts retries were made or the *)
(* back-off has used up its time.                                          *)
Retried(q, n) ==
    \/ n <= attempts /\ Becomes(q, "ready")
    \/ Becomes(q, "failed")

(* One call of QueryRange and its answer, which may come at any later time *)
(* and does not depend on what happens meanwhile; with a context that is   *)
(* cancelled the call fails.                                               *)
Attempt(q) ==
    /\ querier[q] = "ready"
    /\ tries' = [tries EXCEPT ![q] = tries[q] + 1]
    /\ \/ ~PCtxDone(Request(q)) /\ Becomes(q, "series")
       \/ ~PCtxDone(Request(q)) /\ Becomes(q, "notMatrix")
       \/ Retried(q, tries[q] + 1)
    /\ UNCHANGED <<server, cg, job, callVars, wg, cancelVars, collectorVars>>

(* p.output <- result, received by the collector that has nothing to do.   *)
Deliver(q) ==
    /\ querier[q] \in Results
    /\ inbox[Request(q)] = NoResult
    /\ inbox' = [inbox EXCEPT ![Request(q)] = <<querier[q], job[q][2]>>]
    /\ job' = [job EXCEPT ![q] = NoJob]
    /\ tries' = [tries EXCEPT ![q] = 0]
    /\ Becomes(q, "idle")
    /\ UNCHANGED <<server, cg, callVars, wg, cancelVars, merged, dropped, err>>

(* A break leaves the select and not the loop.                             *)
QuerierStop_bug(q) ==
    /\ querier[q] = "idle"
    /\ server # "up"
    /\ UNCHANGED vars

(* case <-q.ctx.Done(); inputChan is never closed.                         *)
QuerierStop(q) ==
    /\ querier[q] = "idle"
    /\ server # "up"
    /\ cg' = cg - 1
    /\ Becomes(q, "stopped")
    /\ UNCHANGED <<server, job, tries, callVars, wg, cancelVars, collectorVars>>

-----------------------------------------------------------------------------
(* server.Stop: queryable.Close(), then httpServer.Shutdown                *)

Moves(from, to) == server = from /\ server' = to

Blocked(r) == caller[r] = "send" /\ \A q \in Queriers : querier[q] = "stopped"

Stop ==
    /\ Moves("up", "closing")
    /\ UNCHANGED <<poolVars, callVars, wg, cancelVars, collectorVars>>

CloseReturns ==
    /\ cg = 0
    /\ Moves("closing", "draining")
    /\ UNCHANGED <<poolVars, callVars, wg, cancelVars, collectorVars>>

(* Shutdown returns when no request is active.  The minute of its context  *)
(* began before Close and may be over with any request under way: then     *)
(* Stop panics.                                                            *)
ShutdownReturns ==
    /\ \A r \in Requests : ~InFlight(r)
    /\ Moves("draining", "down")
    /\ UNCHANGED <<poolVars, callVars, wg, cancelVars, collectorVars>>

ShutdownTimesOut ==
    /\ \E r \in Requests : InFlight(r)
    /\ Moves("draining", "panicked")
    /\ UNCHANGED <<poolVars, callVars, wg, cancelVars, collectorVars>>

Exited == server \in {"down", "panicked"} /\ UNCHANGED vars

-----------------------------------------------------------------------------
CallerNext(r) == AddChunk(r) \/ (\E q \in Queriers : Take(q, r)) \/ AllSent(r) \/ Return(r)

QuerierNext(q) ==
    Check(q) \/ Attempt(q) \/ Deliver(q) \/ QuerierStop(q)

ServerNext == CloseReturns \/ ShutdownReturns \/ ShutdownTimesOut

Next ==
    \/ \E r \in Requests :
          Begin(r) \/ CtxCancel(r) \/ CallerNext(r) \/ WatcherFires(r) \/ Collect(r)
    \/ \E q \in Queriers : QuerierNext(q)
    \/ Stop
    \/ ServerNext
    \/ Exited

Spec == Init /\ [][Next]_vars

(* The Go scheduler runs every goroutine that can run, and an attempt ends:*)
(* Prometheus answers or the connection breaks.  Nothing makes clients     *)
(* come or go, or the operator stop the server.                            *)
Fairness ==
    /\ \A r \in Requests :
          WF_vars(CallerNext(r)) /\ WF_vars(WatcherFires(r)) /\ WF_vars(Collect(r))
    /\ \A q \in Queriers : WF_vars(QuerierNext(q))
    /\ WF_vars(ServerNext)

FairSpec == Spec /\ Fairness

-----------------------------------------------------------------------------
(* Properties                                                              *)

Working(q) == job[q] # NoJob

(* Chunks for which wg.Done() has not been called.                         *)
Open(r) == (1 .. sent[r]) \ (merged[r] \cup dropped[r])

(* Nobody is about to send to an outputChan that is closed (a panic): a    *)
(* querier with a plan, or a collector with a result, has its query wait.  *)
NoSendOnClosed ==
    /\ \A q \in Queriers : Working(q) => InFlight(Request(q))
    /\ \A r \in Requests : inbox[r] # NoResult => InFlight(r)

(* A query that returns without an error returns every chunk, unless the   *)
(* request itself was cancelled: what happens to other queries of the pool *)
(* and the end of the pool do not make it lose data.                       *)
CompleteUnlessCancelled ==
    \A r \in Requests : caller[r] = "ok" /\ ~ctx[r] => merged[r] = 1 .. chunks[r]

(* The wait group of a query counts the chunks whose result is not handled *)
(* and the one being sent, so Done never makes it negative (a panic).      *)
WgCountsOpenChunks ==
    \A r \in Requests :
        wg[r] = Cardinality(Open(r)) + (IF caller[r] = "send" THEN 1 ELSE 0)

(* When Close has returned no querier is left that could use the client.   *)
CloseJoinsQueriers ==
    server \in {"draining", "down"} => \A q \in Queriers : querier[q] = "stopped"

(* The invariant behind them: a chunk that was handed over is either with  *)
(* one querier, or with the collector, or handled ...                      *)
JobInv ==
    /\ \A q \in Queriers :
          /\ ~Working(q) <=> querier[q] \in {"idle", "stopped"}
          /\ Working(q) =>
                /\ job[q][2] \in Open(Request(q))
                /\ inbox[Request(q)] # NoResult => inbox[Request(q)][2] # job[q][2]
                /\ \A p \in Queriers : job[p] = job[q] => p = q
          /\ querier[q] \in {"got", "ready"} => tries[q] <= attempts
    /\ \A r \in Requests : inbox[r] # NoResult => inbox[r][2] \in Open(r)

(* ... a query is past its wg.Wait() only when all its chunks are handled, *)
QueryInv ==
    /\ WgCountsOpenChunks
    /\ \A r \in Requests :
          /\ sent[r] <= chunks[r]
          /\ merged[r] \cap dropped[r] = {}
          /\ caller[r] = "off" => sent[r] = 0
          /\ caller[r] = "send" => sent[r] < chunks[r]
          /\ caller[r] \in {"wait", "ok", "error"} => sent[r] = chunks[r]
          /\ caller[r] \in {"ok", "error"} => Open(r) = {}
          /\ merged[r] \cup dropped[r] \subseteq 1 .. sent[r]

(* a chunk is dropped only after a failure or a cancelled request,         *)
DropInv ==
    /\ \A r \in Requests :
          /\ cancelled[r] => err[r] \/ ctx[r]
          /\ dropped[r] # {} => err[r] \/ ctx[r]
          /\ inbox[r] # NoResult /\ inbox[r][1] = "skipped" => cancelled[r]
          /\ caller[r] = "ok" => ~err[r]
    /\ \A q \in Queriers : querier[q] = "skipped" => cancelled[Request(q)]

(* and the pool's wait group counts the queriers that are not stopped.     *)
PoolInv ==
    /\ cg = Cardinality({q \in Queriers : querier[q] # "stopped"})
    /\ server = "up" => \A q \in Queriers : querier[q] # "stopped"
    /\ CloseJoinsQueriers

(* The invariant of the pool: a job is in one hand, and the wait group of  *)
(* a query counts a chunk until its result is handled, that of the pool a  *)
(* querier until it has stopped.                                           *)
RemoteInv == TypeOK /\ JobInv /\ QueryInv /\ DropInv /\ PoolInv

(* Every query returns, whatever becomes of its chunks and also when the   *)
(* pool is closed under it, unless it wants to hand over a chunk when all  *)
(* queriers have stopped: then it is blocked for good.                     *)
QueriesEnd == \A r \in Requests : InFlight(r) ~> (~InFlight(r) \/ Blocked(r))

(* Stop comes to an end, one way or the other.                             *)
StopEnds == server = "closing" ~> server \in {"down", "panicked"}
=============================================================================
