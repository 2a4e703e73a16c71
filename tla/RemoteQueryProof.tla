-------------------------- MODULE RemoteQueryProof --------------------------
(***************************************************************************)
(* Proofs about RemoteQuery, for every pool, every number of queries and   *)
(* chunks and every bound on the retries.  RemoteInv is inductive; the     *)
(* lemmas take its conjuncts one by one, and within each the actions that  *)
(* change a variable of it.                                                *)
(***************************************************************************)
EXTENDS RemoteQuery, FiniteSetTheorems, TLAPS

LEMMA JobPairs ==
    /\ \A w \in Requests \X Chunk :
          w = <<w[1], w[2]>> /\ w[1] \in Requests /\ w[2] \in Chunk /\ w # NoJob
    /\ \A w \in Results \X Chunk :
          w = <<w[1], w[2]>> /\ w[1] \in Results /\ w[2] \in Chunk /\ w # NoResult
BY DEF NoJob, NoResult

(* A querier that works knows its request and its chunk, and so does a     *)
(* collector that holds a result.                                          *)
LEMMA Holders ==
    ASSUME TypeOK
    PROVE  /\ \A q \in Queriers : Working(q) =>
                 /\ Request(q) \in Requests /\ job[q][2] \in Chunk
                 /\ job[q] = <<Request(q), job[q][2]>>
           /\ \A r \in Requests : inbox[r] # NoResult =>
                 inbox[r][1] \in Results /\ inbox[r][2] \in Chunk
BY JobPairs DEF TypeOK, Working, Request

(* The sets that the two wait groups count are finite.                     *)
LEMMA OpenFinite ==
    ASSUME TypeOK, NEW r \in Requests
    PROVE  IsFiniteSet(Open(r)) /\ Cardinality(Open(r)) \in Nat
<1>1. sent[r] \in Nat
  BY DEF TypeOK
<1>2. IsFiniteSet(1 .. sent[r])
  BY <1>1, FS_Interval
<1>3. Open(r) \subseteq 1 .. sent[r]
  BY DEF Open
<1> QED BY <1>2, <1>3, FS_Subset, FS_CardinalityType

Running == {q \in Queriers : querier[q] # "stopped"}

LEMMA RunningFinite == IsFiniteSet(Running) /\ Cardinality(Running) \in Nat
BY PoolAssumption, FS_Subset, FS_CardinalityType DEF Running

LEMMA InitInv == Init => RemoteInv
<1> SUFFICES ASSUME Init PROVE RemoteInv
  OBVIOUS
<1>1. \A r \in Requests : Open(r) = {}
  BY DEF Init, Open
<1>2. Running = Queriers
  BY DEF Init, Running
<1>3. Cardinality(Queriers) \in Nat
  BY PoolAssumption, FS_CardinalityType
<1>4. TypeOK
  <2>1. cg \in Nat /\ server = "up"
    BY <1>3 DEF Init
  <2>2. /\ querier \in [Queriers -> {"idle", "got", "ready", "stopped"} \cup Results]
        /\ job \in [Queriers -> (Requests \X Chunk) \cup {NoJob}]
        /\ inbox \in [Requests -> (Results \X Chunk) \cup {NoResult}]
        /\ caller \in [Requests -> {"off", "add", "send", "wait", "ok", "error"}]
        /\ watcher \in [Requests -> {"none", "waiting", "done"}]
    BY DEF Init
  <2>3. /\ tries \in [Queriers -> 0 .. attempts + 1]
        /\ chunks \in [Requests -> Nat] /\ sent \in [Requests -> Nat]
        /\ wg \in [Requests -> Nat]
    BY BoundAssumption DEF Init
  <2>4. /\ ctx \in [Requests -> BOOLEAN] /\ err \in [Requests -> BOOLEAN]
        /\ cancelled \in [Requests -> BOOLEAN] /\ pcancel \in [Requests -> BOOLEAN]
        /\ merged \in [Requests -> SUBSET Chunk]
        /\ dropped \in [Requests -> SUBSET Chunk]
    BY DEF Init
  <2> QED BY <2>1, <2>2, <2>3, <2>4 DEF TypeOK
<1>5. JobInv /\ DropInv
  BY DEF Init, JobInv, DropInv, Working
<1>6. QueryInv
  <2>1. Cardinality({}) = 0
    BY FS_EmptySet
  <2>2. \A r \in Requests : wg[r] = 0 /\ caller[r] # "send" /\ Cardinality(Open(r)) = 0
    BY <1>1, <2>1 DEF Init
  <2>3. WgCountsOpenChunks
    BY <2>2 DEF WgCountsOpenChunks
  <2> QED BY <1>1, <2>3 DEF Init, QueryInv
<1>7. PoolInv
  BY <1>2 DEF Init, PoolInv, CloseJoinsQueriers, Running
<1> QED BY <1>4, <1>5, <1>6, <1>7 DEF RemoteInv

-----------------------------------------------------------------------------
(* A chunk that is with a querier or with the collector is counted by the  *)
(* wait group of its query, and a querier that runs by that of the pool.   *)
LEMMA WgPositive ==
    ASSUME TypeOK, WgCountsOpenChunks, NEW r \in Requests, NEW c \in Open(r)
    PROVE  wg[r] \in Nat \ {0}
<1>1. Cardinality(Open(r)) # 0
  BY OpenFinite, FS_EmptySet
<1> QED BY <1>1, OpenFinite DEF TypeOK, WgCountsOpenChunks

LEMMA CgPositive ==
    ASSUME TypeOK, PoolInv, NEW q \in Queriers, querier[q] # "stopped"
    PROVE  cg \in Nat \ {0}
<1>1. Cardinality(Running) # 0
  BY RunningFinite, FS_EmptySet DEF Running
<1> QED BY <1>1, RunningFinite DEF PoolInv, Running

LEMMA TypeStep == RemoteInv /\ Next => TypeOK'
<1> SUFFICES ASSUME RemoteInv, Next PROVE TypeOK'
  OBVIOUS
<1> USE DEF RemoteInv
<1>1. ASSUME NEW r \in Requests, Begin(r) PROVE TypeOK'
  <2>1. \A n \in 0 .. MaxChunks[r] : n \in Nat
    BY BoundAssumption
  <2> QED BY <1>1, <2>1 DEF Begin, TypeOK, poolVars, cancelVars, collectorVars
<1>2. ASSUME NEW r \in Requests, CtxCancel(r) PROVE TypeOK'
  BY <1>2 DEF CtxCancel, TypeOK, poolVars, cancelVars, collectorVars
<1>3. ASSUME NEW r \in Requests, AddChunk(r) PROVE TypeOK'
  BY <1>3 DEF AddChunk, TypeOK, poolVars, cancelVars, collectorVars
<1>4. ASSUME NEW r \in Requests, NEW q \in Queriers, Take(q, r) PROVE TypeOK'
  <2>1. <<r, sent[r] + 1>> \in Requests \X Chunk /\ 0 \in 0 .. attempts + 1
    BY BoundAssumption DEF TypeOK, Chunk
  <2> QED BY <1>4, <2>1 DEF Take, TypeOK, cancelVars, collectorVars
<1>5. ASSUME NEW r \in Requests, AllSent(r) PROVE TypeOK'
  BY <1>5 DEF AllSent, TypeOK, poolVars, collectorVars
<1>6. ASSUME NEW r \in Requests, Return(r) PROVE TypeOK'
  BY <1>6 DEF Return, TypeOK, poolVars, collectorVars
<1>7. ASSUME NEW r \in Requests, WatcherFires(r) PROVE TypeOK'
  <2>1. (ctx[r] \/ cancelled[r]) \in BOOLEAN
    OBVIOUS
  <2> QED BY <1>7, <2>1 DEF WatcherFires, TypeOK, poolVars, callVars, collectorVars
<1>8. ASSUME NEW r \in Requests, Collect(r) PROVE TypeOK'
  <2>1. wg[r] - 1 \in Nat
    BY <1>8, WgPositive DEF Collect, JobInv, QueryInv
  <2>2. inbox[r][2] \in Chunk
    BY <1>8, Holders DEF Collect
  <2>3. merged' \in [Requests -> SUBSET Chunk] /\ dropped' \in [Requests -> SUBSET Chunk]
    <3> DEFINE chunk == inbox[r][2]
    <3>1. PICK kept \in {merged[r], merged[r] \cup {chunk}} :
             merged' = [merged EXCEPT ![r] = kept]
      BY <1>8 DEF Collect
    <3>2. PICK lost \in {dropped[r], dropped[r] \cup {chunk}} :
             dropped' = [dropped EXCEPT ![r] = lost]
      BY <1>8 DEF Collect
    <3>3. chunk \in Chunk
      BY <2>2
    <3> HIDE DEF chunk
    <3> QED BY <3>1, <3>2, <3>3 DEF TypeOK
  <2>4. err' \in [Requests -> BOOLEAN] /\ cancelled' \in [Requests -> BOOLEAN]
    BY <1>8, Zenon DEF Collect, TypeOK
  <2>5. wg' \in [Requests -> Nat]
    BY <1>8, <2>1 DEF Collect, TypeOK
  <2>6. inbox' \in [Requests -> (Results \X Chunk) \cup {NoResult}]
    BY <1>8 DEF Collect, TypeOK
  <2> QED BY <1>8, <2>3, <2>4, <2>5, <2>6 DEF Collect, TypeOK, poolVars, callVars
<1>9. ASSUME NEW q \in Queriers, Check(q) PROVE TypeOK'
  BY <1>9 DEF Check, Becomes, Results, TypeOK, callVars, cancelVars, collectorVars
<1>10. ASSUME NEW q \in Queriers, Attempt(q) PROVE TypeOK'
  <2>1. tries[q] + 1 \in 0 .. attempts + 1
    BY <1>10, BoundAssumption DEF Attempt, TypeOK, JobInv
  <2>2. tries' \in [Queriers -> 0 .. attempts + 1]
    BY <1>10, <2>1 DEF Attempt, TypeOK
  <2>3. querier' \in [Queriers -> {"idle", "got", "ready", "stopped"} \cup Results]
    BY <1>10 DEF Attempt, Retried, Becomes, Results, TypeOK
  <2> QED BY <1>10, <2>2, <2>3 DEF Attempt, TypeOK, callVars, cancelVars, collectorVars
<1>11. ASSUME NEW q \in Queriers, Deliver(q) PROVE TypeOK'
  <2>1. Working(q)
    BY <1>11 DEF Deliver, JobInv, Results
  <2>2. Request(q) \in Requests /\ <<querier[q], job[q][2]>> \in Results \X Chunk
    BY <1>11, <2>1, Holders DEF Deliver
  <2>3. inbox' \in [Requests -> (Results \X Chunk) \cup {NoResult}]
    BY <1>11, <2>2 DEF Deliver, TypeOK
  <2>4. tries' \in [Queriers -> 0 .. attempts + 1]
    BY <1>11, BoundAssumption DEF Deliver, TypeOK
  <2>5. job' \in [Queriers -> (Requests \X Chunk) \cup {NoJob}]
        /\ querier' \in [Queriers -> {"idle", "got", "ready", "stopped"} \cup Results]
    BY <1>11 DEF Deliver, Becomes, TypeOK
  <2> QED BY <1>11, <2>3, <2>4, <2>5 DEF Deliver, TypeOK, callVars, cancelVars
<1>12. ASSUME NEW q \in Queriers, QuerierStop(q) PROVE TypeOK'
  <2>1. cg - 1 \in Nat
    BY <1>12, CgPositive DEF QuerierStop
  <2> QED BY <1>12, <2>1
          DEF QuerierStop, Becomes, TypeOK, callVars, cancelVars, collectorVars
<1>13. ASSUME Stop \/ ServerNext PROVE TypeOK'
  BY <1>13 DEF Stop, ServerNext, CloseReturns, ShutdownReturns, ShutdownTimesOut, Moves,
               TypeOK, poolVars, callVars, cancelVars, collectorVars
<1>14. ASSUME Exited PROVE TypeOK'
  BY <1>14 DEF Exited, TypeOK, vars, poolVars, callVars, cancelVars, collectorVars
<1> QED BY <1>1, <1>2, <1>3, <1>4, <1>5, <1>6, <1>7, <1>8, <1>9, <1>10, <1>11, <1>12,
           <1>13, <1>14 DEF Next, CallerNext, QuerierNext

-----------------------------------------------------------------------------
(* JobInv: a chunk that was handed over is in one hand.                    *)
LEMMA JobStep == RemoteInv /\ Next => JobInv'
<1> SUFFICES ASSUME RemoteInv, Next PROVE JobInv'
  OBVIOUS
<1> USE DEF RemoteInv
<1>1. ASSUME UNCHANGED <<querier, job, tries, inbox, sent, merged, dropped>>
      PROVE  JobInv'
  BY <1>1, SMT DEF JobInv, Working, Request, Open
<1>2. ASSUME NEW r \in Requests, NEW q \in Queriers, Take(q, r) PROVE JobInv'
  <2> DEFINE new == <<r, sent[r] + 1>>
  <2>1. sent[r] + 1 \in Chunk /\ new \in Requests \X Chunk
    BY DEF TypeOK, Chunk
  <2>2. /\ querier' = [querier EXCEPT ![q] = "got"]
        /\ job' = [job EXCEPT ![q] = new]
        /\ sent' = [sent EXCEPT ![r] = sent[r] + 1]
        /\ tries' = [tries EXCEPT ![q] = 0]
        /\ UNCHANGED <<inbox, merged, dropped>>
    BY <1>2 DEF Take, collectorVars
  <2>3. \A x \in Requests : Open(x) \subseteq Open(x)'
    BY <2>2 DEF Open, TypeOK
  <2>4. sent[r] + 1 \in Open(r)' /\ sent[r] + 1 \notin Open(r)
    BY <2>1, <2>2 DEF Open, QueryInv, TypeOK, Chunk
  <2>5. \A p \in Queriers : job[p] # new
    BY <2>1, <2>4, JobPairs DEF JobInv, Working, Request
  <2>6. \A p \in Queriers \ {q} :
           job'[p] = job[p] /\ querier'[p] = querier[p] /\ tries'[p] = tries[p]
    BY <2>2 DEF TypeOK
  <2>7. job'[q] = new /\ querier'[q] = "got" /\ new # NoJob
    BY <2>1, <2>2, JobPairs DEF TypeOK
  <2>8. inbox[r] # NoResult => inbox[r][2] # sent[r] + 1
    BY <2>4 DEF JobInv
  <2>9. \A p \in Queriers : Working(p) => Request(p) \in Requests
    BY Holders
  <2>10. new[1] = r /\ new[2] = sent[r] + 1
    OBVIOUS
  <2>11. \A p \in Queriers \ {q} : Working(p) =>
            /\ job[p][2] \in 1 .. sent'[job[p][1]]
            /\ job[p][2] \notin merged[job[p][1]] \cup dropped[job[p][1]]
            /\ inbox[job[p][1]] # NoResult => inbox[job[p][1]][2] # job[p][2]
    BY <2>2, <2>3, <2>9 DEF JobInv, Request, Open
  <2>12. \A p, o \in Queriers : job'[p] # NoJob /\ job'[o] = job'[p] => o = p
    BY <2>5, <2>6, <2>7 DEF JobInv, Working
  <2>13. \A p \in Queriers :
            /\ job'[p] = NoJob <=> querier'[p] \in {"idle", "stopped"}
            /\ querier'[p] \in {"got", "ready"} => tries'[p] <= attempts
    BY <1>2, <2>2, <2>6, <2>7, BoundAssumption DEF JobInv, Working, TypeOK
  <2>14. \A x \in Requests : inbox[x] # NoResult => inbox[x][2] \in Open(x)'
    BY <2>3 DEF JobInv
  <2>15. sent[r] + 1 \in 1 .. sent'[r] /\ sent[r] + 1 \notin merged[r] \cup dropped[r]
    BY <2>2, <2>4 DEF Open
  <2>16. \A p \in Queriers : job'[p] # NoJob =>
            /\ job'[p][2] \in 1 .. sent'[job'[p][1]]
            /\ job'[p][2] \notin merged[job'[p][1]] \cup dropped[job'[p][1]]
            /\ inbox[job'[p][1]] # NoResult => inbox[job'[p][1]][2] # job'[p][2]
    BY <2>6, <2>7, <2>8, <2>10, <2>11, <2>15 DEF Working
  <2> HIDE DEF new
  <2> QED BY <2>2, <2>12, <2>13, <2>14, <2>16 DEF JobInv, Working, Request, Open
<1>3. ASSUME NEW r \in Requests, Collect(r) PROVE JobInv'
  <2> DEFINE c == inbox[r][2]
  <2>1. /\ inbox' = [inbox EXCEPT ![r] = NoResult]
        /\ UNCHANGED <<querier, job, tries, sent>>
    BY <1>3 DEF Collect, poolVars, callVars
  <2>2. Open(r)' = Open(r) \ {c}
    BY <1>3, Holders DEF Collect, Open, TypeOK, callVars, Results
  <2>3. \A x \in Requests \ {r} : Open(x)' = Open(x) /\ inbox'[x] = inbox[x]
    BY <1>3 DEF Collect, Open, TypeOK, callVars
  <2>4. \A q \in Queriers : Working(q) =>
           Request(q) \in Requests /\ (Request(q) = r => job[q][2] # c)
    BY <1>3, Holders DEF Collect, JobInv
  <2>5. inbox'[r] = NoResult
    BY <2>1 DEF TypeOK
  <2>6. \A q \in Queriers : Working(q) => job[q][2] \in Open(Request(q))'
    BY <2>1, <2>2, <2>3, <2>4 DEF JobInv, Request, Open
  <2>7. \A x \in Requests : inbox'[x] # NoResult => inbox'[x][2] \in Open(x)'
    BY <2>3, <2>5 DEF JobInv
  <2> QED BY <2>1, <2>3, <2>4, <2>5, <2>6, <2>7 DEF JobInv, Working, Request
<1>4. ASSUME NEW q \in Queriers, Check(q) PROVE JobInv'
  <2>1. /\ UNCHANGED <<job, tries, inbox, sent, merged, dropped>>
        /\ \A p \in Queriers \ {q} : querier'[p] = querier[p]
        /\ querier[q] = "got" /\ querier'[q] \in {"skipped", "ready"}
    BY <1>4 DEF Check, Becomes, TypeOK, callVars, collectorVars
  <2>2. tries[q] <= attempts
    BY <2>1 DEF JobInv
  <2> QED BY <2>1, <2>2 DEF JobInv, Working, Request, Open
<1>5. ASSUME NEW q \in Queriers, Attempt(q) PROVE JobInv'
  <2>1. /\ UNCHANGED <<job, inbox, sent, merged, dropped>>
        /\ tries' = [tries EXCEPT ![q] = tries[q] + 1]
        /\ \A p \in Queriers \ {q} : querier'[p] = querier[p]
        /\ querier[q] = "ready" /\ querier'[q] \in Results \cup {"ready"}
        /\ querier'[q] = "ready" => tries[q] + 1 <= attempts
    BY <1>5 DEF Attempt, Retried, Becomes, TypeOK, callVars, collectorVars, Results
  <2> QED BY <2>1 DEF JobInv, Working, Request, Open, TypeOK, Results
<1>6. ASSUME NEW q \in Queriers, Deliver(q) PROVE JobInv'
  <2> DEFINE r == Request(q)
             c == job[q][2]
  <2>1. Working(q)
    BY <1>6 DEF Deliver, JobInv, Results
  <2>2. r \in Requests /\ c \in Chunk /\ job[q] = <<r, c>> /\ c \in Open(r)
    BY <2>1, Holders DEF JobInv
  <2>3. /\ inbox' = [inbox EXCEPT ![r] = <<querier[q], c>>]
        /\ job' = [job EXCEPT ![q] = NoJob]
        /\ querier' = [querier EXCEPT ![q] = "idle"]
        /\ tries' = [tries EXCEPT ![q] = 0]
        /\ UNCHANGED <<sent, merged, dropped>>
    BY <1>6 DEF Deliver, Becomes, callVars
  <2>4. \A p \in Queriers \ {q} : Working(p) =>
           /\ Request(p) \in Requests
           /\ job[p] = <<Request(p), job[p][2]>>
           /\ Request(p) = r => job[p][2] # c
    BY <2>1, <2>2, Holders DEF JobInv
  <2>5. \A x \in Requests : Open(x)' = Open(x)
    BY <2>3 DEF Open
  <2>6. \A p \in Queriers \ {q} :
           job'[p] = job[p] /\ querier'[p] = querier[p] /\ tries'[p] = tries[p]
    BY <2>3 DEF TypeOK
  <2>7. job'[q] = NoJob /\ querier'[q] = "idle"
    BY <2>3 DEF TypeOK
  <2>8. inbox'[r] = <<querier[q], c>> /\ \A x \in Requests \ {r} : inbox'[x] = inbox[x]
    BY <2>2, <2>3 DEF TypeOK
  <2> QED BY <2>2, <2>4, <2>5, <2>6, <2>7, <2>8 DEF JobInv, Working, Request
<1>7. ASSUME NEW q \in Queriers, QuerierStop(q) PROVE JobInv'
  BY <1>7 DEF QuerierStop, Becomes, JobInv, Working, Request, Open, TypeOK, callVars,
              collectorVars
<1>8. ASSUME NEW r \in Requests,
             Begin(r) \/ CtxCancel(r) \/ AddChunk(r) \/ AllSent(r) \/ Return(r)
                 \/ WatcherFires(r)
      PROVE  JobInv'
  BY <1>1, <1>8 DEF Begin, CtxCancel, AddChunk, AllSent, Return, WatcherFires, poolVars,
                    callVars, collectorVars
<1>9. ASSUME Stop \/ ServerNext \/ Exited PROVE JobInv'
  BY <1>1, <1>9 DEF Stop, ServerNext, CloseReturns, ShutdownReturns, ShutdownTimesOut,
                    Exited, vars, poolVars, callVars, collectorVars
<1> QED BY <1>2, <1>3, <1>4, <1>5, <1>6, <1>7, <1>8, <1>9
        DEF Next, CallerNext, QuerierNext

-----------------------------------------------------------------------------
(* WgCountsOpenChunks: adding a chunk, handing it over and handling its    *)
(* result keep the count.                                                  *)
LEMMA WgStep == RemoteInv /\ Next => WgCountsOpenChunks'
<1> SUFFICES ASSUME RemoteInv, Next PROVE WgCountsOpenChunks'
  OBVIOUS
<1> USE DEF RemoteInv
<1>1. ASSUME UNCHANGED <<wg, sent, merged, dropped>>,
             \A r \in Requests : caller'[r] = "send" <=> caller[r] = "send"
      PROVE  WgCountsOpenChunks'
  BY <1>1, Zenon DEF QueryInv, WgCountsOpenChunks, Open
<1>2. ASSUME NEW r \in Requests, AddChunk(r) PROVE WgCountsOpenChunks'
  <2>1. \A x \in Requests : Open(x)' = Open(x)
    BY <1>2 DEF AddChunk, Open, collectorVars
  <2>2. Cardinality(Open(r)) \in Nat
    BY OpenFinite
  <2>3. /\ wg'[r] = wg[r] + 1 /\ caller[r] = "add" /\ caller'[r] = "send"
        /\ \A x \in Requests \ {r} : wg'[x] = wg[x] /\ caller'[x] = caller[x]
    BY <1>2 DEF AddChunk, TypeOK
  <2> QED BY <2>1, <2>2, <2>3 DEF QueryInv, WgCountsOpenChunks
<1>3. ASSUME NEW r \in Requests, NEW q \in Queriers, Take(q, r)
      PROVE  WgCountsOpenChunks'
  <2>1. /\ UNCHANGED <<wg, merged, dropped>>
        /\ sent'[r] = sent[r] + 1 /\ caller[r] = "send" /\ caller'[r] = "add"
        /\ \A x \in Requests \ {r} : sent'[x] = sent[x] /\ caller'[x] = caller[x]
    BY <1>3 DEF Take, collectorVars, TypeOK
  <2>2. sent[r] + 1 \notin merged[r] \cup dropped[r] /\ sent[r] \in Nat
    BY DEF QueryInv, TypeOK
  <2>3. Open(r)' = Open(r) \cup {sent[r] + 1} /\ sent[r] + 1 \notin Open(r)
    BY <2>1, <2>2 DEF Open
  <2>4. Cardinality(Open(r)') = Cardinality(Open(r)) + 1
    BY <2>3, OpenFinite, FS_AddElement
  <2>5. \A x \in Requests \ {r} : Open(x)' = Open(x)
    BY <2>1 DEF Open
  <2>6. Cardinality(Open(r)) \in Nat
    BY OpenFinite
  <2> QED BY <2>1, <2>4, <2>5, <2>6 DEF QueryInv, WgCountsOpenChunks
<1>4. ASSUME NEW r \in Requests, Collect(r) PROVE WgCountsOpenChunks'
  <2> DEFINE c == inbox[r][2]
  <2>1. c \in Open(r)
    BY <1>4 DEF Collect, JobInv
  <2>2. Open(r)' = Open(r) \ {c}
    BY <1>4, Holders DEF Collect, Open, TypeOK, callVars, Results
  <2>3. \A x \in Requests \ {r} : Open(x)' = Open(x)
    BY <1>4 DEF Collect, Open, TypeOK, callVars
  <2>4. Cardinality(Open(r)') = Cardinality(Open(r)) - 1
    <3>1. Cardinality(Open(r) \ {c}) = Cardinality(Open(r)) - 1
      <4> HIDE DEF c
      <4> QED BY <2>1, OpenFinite, FS_RemoveElement
    <3> QED BY <2>2, <3>1, Zenon
  <2>5. /\ caller' = caller /\ wg'[r] = wg[r] - 1
        /\ \A x \in Requests \ {r} : wg'[x] = wg[x]
    BY <1>4 DEF Collect, TypeOK, callVars
  <2>6. Cardinality(Open(r)) \in Nat
    BY OpenFinite
  <2> QED BY <2>3, <2>4, <2>5, <2>6 DEF QueryInv, WgCountsOpenChunks
<1>5. ASSUME NEW r \in Requests,
             Begin(r) \/ CtxCancel(r) \/ AllSent(r) \/ Return(r) \/ WatcherFires(r)
      PROVE  WgCountsOpenChunks'
  BY <1>1, <1>5 DEF Begin, CtxCancel, AllSent, Return, WatcherFires, callVars,
                    collectorVars, TypeOK
<1>6. ASSUME NEW q \in Queriers, Check(q) \/ Attempt(q) \/ Deliver(q) \/ QuerierStop(q)
      PROVE  WgCountsOpenChunks'
  BY <1>1, <1>6 DEF Check, Attempt, Deliver, QuerierStop, callVars, collectorVars
<1>7. ASSUME Stop \/ ServerNext \/ Exited PROVE WgCountsOpenChunks'
  BY <1>1, <1>7 DEF Stop, ServerNext, CloseReturns, ShutdownReturns, ShutdownTimesOut,
                    Exited, vars, callVars, collectorVars
<1> QED BY <1>2, <1>3, <1>4, <1>5, <1>6, <1>7 DEF Next, CallerNext, QuerierNext

(* The rest of QueryInv: a query is past wg.Wait() only when every chunk   *)
(* has been handled, because the count is zero then.                       *)
QueryPlace(r) ==
    /\ sent[r] <= chunks[r]
    /\ merged[r] \cap dropped[r] = {}
    /\ caller[r] = "off" => sent[r] = 0
    /\ caller[r] = "send" => sent[r] < chunks[r]
    /\ caller[r] \in {"wait", "ok", "error"} => sent[r] = chunks[r]
    /\ caller[r] \in {"ok", "error"} => Open(r) = {}
    /\ merged[r] \cup dropped[r] \subseteq 1 .. sent[r]

LEMMA PlaceStep ==
    ASSUME RemoteInv, Next, NEW x \in Requests
    PROVE  QueryPlace(x)'
<1> USE DEF RemoteInv
<1>0. QueryPlace(x)
  BY DEF QueryInv, QueryPlace
<1>1. ASSUME sent'[x] = sent[x], chunks'[x] = chunks[x], merged'[x] = merged[x],
             dropped'[x] = dropped[x], caller'[x] = caller[x]
      PROVE  QueryPlace(x)'
  BY <1>0, <1>1 DEF QueryPlace, Open
<1>2. ASSUME NEW r \in Requests, r # x,
             Begin(r) \/ CallerNext(r) \/ Collect(r)
      PROVE  QueryPlace(x)'
  BY <1>1, <1>2 DEF Begin, CallerNext, AddChunk, Take, AllSent, Return, Collect, TypeOK,
                    callVars, collectorVars
<1>3. CASE Begin(x)
  BY <1>0, <1>3, BoundAssumption DEF Begin, QueryPlace, Open, TypeOK, collectorVars
<1>4. CASE AddChunk(x)
  BY <1>0, <1>4 DEF AddChunk, QueryPlace, Open, TypeOK, collectorVars
<1>5. ASSUME NEW q \in Queriers, Take(q, x) PROVE QueryPlace(x)'
  BY <1>0, <1>5 DEF Take, QueryPlace, Open, TypeOK, collectorVars
<1>6. CASE AllSent(x)
  BY <1>0, <1>6 DEF AllSent, QueryPlace, Open, TypeOK, collectorVars
<1>7. CASE Return(x)
  <2>1. Cardinality(Open(x)) = 0
    BY <1>7, OpenFinite DEF Return, QueryInv, WgCountsOpenChunks
  <2>2. Open(x) = {}
    BY <2>1, OpenFinite, FS_EmptySet
  <2> QED BY <1>0, <1>7, <2>2 DEF Return, QueryPlace, Open, TypeOK, collectorVars
<1>8. CASE Collect(x)
  <2>1. inbox[x][2] \in Open(x)
    BY <1>8 DEF Collect, JobInv
  <2>2. /\ merged'[x] \in {merged[x], merged[x] \cup {inbox[x][2]}}
        /\ dropped'[x] \in {dropped[x], dropped[x] \cup {inbox[x][2]}}
        /\ merged'[x] = merged[x] \/ dropped'[x] = dropped[x]
        /\ UNCHANGED <<caller, sent, chunks>>
    BY <1>8 DEF Collect, TypeOK, callVars
  <2> QED BY <1>0, <2>1, <2>2 DEF QueryPlace, Open
<1>9. ASSUME NEW r \in Requests, CtxCancel(r) \/ WatcherFires(r) PROVE QueryPlace(x)'
  BY <1>1, <1>9 DEF CtxCancel, WatcherFires, callVars, collectorVars
<1>10. ASSUME NEW q \in Queriers, QuerierNext(q) PROVE QueryPlace(x)'
  BY <1>1, <1>10 DEF QuerierNext, Check, Attempt, Deliver, QuerierStop, callVars,
                     collectorVars
<1>11. ASSUME Stop \/ ServerNext \/ Exited PROVE QueryPlace(x)'
  BY <1>1, <1>11 DEF Stop, ServerNext, CloseReturns, ShutdownReturns, ShutdownTimesOut,
                     Exited, vars, callVars, collectorVars
<1> QED BY <1>2, <1>3, <1>4, <1>5, <1>6, <1>7, <1>8, <1>9, <1>10, <1>11
        DEF Next, CallerNext

-----------------------------------------------------------------------------
(* DropInv: a chunk is dropped only after a failure or a cancelled request.*)
DropPlace(r) ==
    /\ cancelled[r] => err[r] \/ ctx[r]
    /\ dropped[r] # {} => err[r] \/ ctx[r]
    /\ inbox[r] # NoResult /\ inbox[r][1] = "skipped" => cancelled[r]
    /\ caller[r] = "ok" => ~err[r]

LEMMA DropPlaceStep ==
    ASSUME RemoteInv, Next, NEW x \in Requests
    PROVE  DropPlace(x)' /\ (cancelled[x] => cancelled'[x])
<1> USE DEF RemoteInv
<1> DEFINE Goal == DropPlace(x)' /\ (cancelled[x] => cancelled'[x])
<1>0. DropPlace(x)
  BY DEF DropInv, DropPlace
<1>1. ASSUME UNCHANGED <<cancelled, err, dropped, inbox>>,
             ctx[x] => ctx'[x], caller'[x] = "ok" => caller[x] = "ok"
      PROVE  Goal
  BY <1>0, <1>1 DEF DropPlace
<1>2. ASSUME NEW r \in Requests, r # x,
             CtxCancel(r) \/ Return(r) \/ WatcherFires(r) \/ Collect(r)
      PROVE  Goal
  <2>1. /\ ctx'[x] = ctx[x] /\ caller'[x] = caller[x] /\ err'[x] = err[x]
        /\ cancelled'[x] = cancelled[x] /\ dropped'[x] = dropped[x]
        /\ inbox'[x] = inbox[x]
    BY <1>2 DEF CtxCancel, Return, WatcherFires, Collect, TypeOK, callVars, cancelVars,
                collectorVars
  <2> QED BY <1>0, <2>1 DEF DropPlace
<1>3. CASE CtxCancel(x)
  BY <1>0, <1>3 DEF CtxCancel, DropPlace, TypeOK, cancelVars, collectorVars
<1>4. CASE Return(x)
  BY <1>0, <1>4 DEF Return, DropPlace, TypeOK, collectorVars
<1>5. CASE WatcherFires(x)
  BY <1>0, <1>5 DEF WatcherFires, DropPlace, TypeOK, callVars, collectorVars
<1>6. CASE Collect(x)
  <2>1. inbox[x][1] \in Results
    BY <1>6, Holders DEF Collect
  <2>2. /\ UNCHANGED <<ctx, caller>> /\ inbox'[x] = NoResult
        /\ err'[x] = (err[x] \/ inbox[x][1] \in {"failed", "notMatrix"})
        /\ cancelled'[x] = (cancelled[x] \/ inbox[x][1] \in {"failed", "notMatrix"})
        /\ inbox[x][1] = "series" => dropped'[x] = dropped[x]
    BY <1>6 DEF Collect, TypeOK, callVars
  <2>3. caller[x] # "ok"
    <3>1. inbox[x][2] \in Open(x)
      BY <1>6 DEF Collect, JobInv
    <3> QED BY <3>1 DEF QueryInv
  <2> QED BY <1>0, <1>6, <2>1, <2>2, <2>3 DEF Collect, DropPlace, Results
<1>7. ASSUME NEW r \in Requests,
             Begin(r) \/ AddChunk(r) \/ AllSent(r) \/ \E q \in Queriers : Take(q, r)
      PROVE  Goal
  <2>1. /\ UNCHANGED <<cancelled, err, dropped, inbox, ctx>>
        /\ caller'[x] = "ok" => caller[x] = "ok"
    BY <1>7 DEF Begin, AddChunk, AllSent, Take, TypeOK, cancelVars, collectorVars
  <2> QED BY <1>1, <2>1
<1>8. ASSUME NEW q \in Queriers, Check(q) \/ Attempt(q) \/ QuerierStop(q) PROVE Goal
  BY <1>1, <1>8 DEF Check, Attempt, QuerierStop, callVars, cancelVars, collectorVars
<1>9. ASSUME NEW q \in Queriers, Deliver(q) PROVE Goal
  <2>1. Working(q)
    BY <1>9 DEF Deliver, JobInv, Results
  <2>2. /\ UNCHANGED <<cancelled, err, dropped, ctx, caller>>
        /\ inbox' = [inbox EXCEPT ![Request(q)] = <<querier[q], job[q][2]>>]
    BY <1>9 DEF Deliver, callVars, cancelVars
  <2>3. querier[q] = "skipped" => cancelled[Request(q)]
    BY DEF DropInv
  <2> QED BY <1>0, <2>1, <2>2, <2>3, Holders DEF DropPlace, TypeOK
<1>10. ASSUME Stop \/ ServerNext \/ Exited PROVE Goal
  BY <1>1, <1>10 DEF Stop, ServerNext, CloseReturns, ShutdownReturns, ShutdownTimesOut,
                     Exited, vars, callVars, cancelVars, collectorVars
<1> QED BY <1>2, <1>3, <1>4, <1>5, <1>6, <1>7, <1>8, <1>9, <1>10
        DEF Next, CallerNext, QuerierNext

LEMMA DropStep == RemoteInv /\ Next => DropInv'
<1> SUFFICES ASSUME RemoteInv, Next PROVE DropInv'
  OBVIOUS
<1> USE DEF RemoteInv
<1>1. \A q \in Queriers : querier'[q] = "skipped" => cancelled'[job'[q][1]]
  <2> SUFFICES ASSUME NEW q \in Queriers, querier'[q] = "skipped"
               PROVE  cancelled'[job'[q][1]]
    OBVIOUS
  <2>1. CASE querier[q] = "skipped" /\ job'[q] = job[q]
    <3>1. Request(q) \in Requests /\ cancelled[Request(q)]
      BY <2>1, Holders DEF JobInv, DropInv
    <3> QED BY <2>1, <3>1, DropPlaceStep DEF Request
  <2>2. CASE Check(q)
    BY <2>2 DEF Check, Becomes, TypeOK, cancelVars, Request
  <2>3. (querier[q] = "skipped" /\ job'[q] = job[q]) \/ Check(q)
    BY DEF Next, CallerNext, QuerierNext, ServerNext, Begin, CtxCancel, AddChunk, Take,
           AllSent, Return, WatcherFires, Collect, Check, Attempt, Retried, Deliver,
           QuerierStop, Becomes, Stop, CloseReturns, ShutdownReturns, ShutdownTimesOut,
           Exited, TypeOK, vars, poolVars
  <2> QED BY <2>1, <2>2, <2>3
<1>2. \A r \in Requests : DropPlace(r)'
  BY DropPlaceStep
<1> QED BY <1>1, <1>2 DEF DropInv, DropPlace, Request

(* PoolInv: the wait group of the pool counts the queriers that run.       *)
LEMMA PoolStep == RemoteInv /\ Next => PoolInv'
<1> SUFFICES ASSUME RemoteInv, Next PROVE PoolInv'
  OBVIOUS
<1> USE DEF RemoteInv
<1>0. /\ cg = Cardinality(Running)
      /\ server = "up" => \A q \in Queriers : querier[q] # "stopped"
      /\ CloseJoinsQueriers
  BY DEF PoolInv, Running
<1>1. ASSUME UNCHANGED <<server, cg>>,
             \A q \in Queriers : querier'[q] = "stopped" <=> querier[q] = "stopped"
      PROVE  PoolInv'
  <2>1. Running' = Running
    BY <1>1 DEF Running
  <2> QED BY <1>0, <1>1, <2>1 DEF PoolInv, CloseJoinsQueriers, Running
<1>2. ASSUME NEW q \in Queriers, QuerierStop(q) PROVE PoolInv'
  <2>1. Running' = Running \ {q} /\ q \in Running /\ cg' = cg - 1
    BY <1>2 DEF QuerierStop, Becomes, Running, TypeOK
  <2>2. Cardinality(Running \ {q}) = Cardinality(Running) - 1
    BY <2>1, RunningFinite, FS_RemoveElement
  <2>3. cg' = Cardinality(Running')
    BY <1>0, <2>1, <2>2
  <2>4. server' = server /\ server # "up"
        /\ \A p \in Queriers : querier[p] = "stopped" => querier'[p] = "stopped"
    BY <1>2 DEF QuerierStop, Becomes, TypeOK
  <2> QED BY <1>0, <2>3, <2>4 DEF PoolInv, CloseJoinsQueriers, Running
<1>3. ASSUME Stop \/ ServerNext PROVE PoolInv'
  <2>1. UNCHANGED <<cg, querier>> /\ server' # "up"
        /\ (server' \in {"draining", "down"} => server \in {"draining", "down"} \/ cg = 0)
    BY <1>3 DEF Stop, ServerNext, CloseReturns, ShutdownReturns, ShutdownTimesOut, Moves,
                poolVars
  <2>2. cg = 0 => \A q \in Queriers : querier[q] = "stopped"
    BY CgPositive
  <2> QED BY <1>0, <2>1, <2>2 DEF PoolInv, CloseJoinsQueriers, Running
<1>4. ASSUME NEW r \in Requests,
             Begin(r) \/ CtxCancel(r) \/ CallerNext(r) \/ WatcherFires(r) \/ Collect(r)
      PROVE  PoolInv'
  BY <1>1, <1>4 DEF Begin, CtxCancel, CallerNext, AddChunk, Take, AllSent, Return,
                    WatcherFires, Collect, TypeOK, poolVars
<1>5. ASSUME NEW q \in Queriers, Check(q) \/ Attempt(q) \/ Deliver(q) PROVE PoolInv'
  <2>1. /\ UNCHANGED <<server, cg>>
        /\ \A p \in Queriers \ {q} : querier'[p] = querier[p]
        /\ querier[q] # "stopped" /\ querier'[q] # "stopped"
    BY <1>5 DEF Check, Attempt, Retried, Deliver, Becomes, Results, TypeOK
  <2> QED BY <1>1, <2>1
<1>6. CASE Exited
  BY <1>1, <1>6 DEF Exited, vars, poolVars
<1> QED BY <1>2, <1>3, <1>4, <1>5, <1>6 DEF Next, QuerierNext

-----------------------------------------------------------------------------
(* RemoteInv holds in every state: each chunk that was handed over is in   *)
(* one hand, a query waits until all its chunks are handled and drops none *)
(* without a failure or a cancelled request, and Close joins the queriers. *)
THEOREM Invariance == Spec => []RemoteInv
<1>1. Init => RemoteInv
  BY InitInv
<1>2. RemoteInv /\ [Next]_vars => RemoteInv'
  <2> SUFFICES ASSUME RemoteInv, [Next]_vars PROVE RemoteInv'
    OBVIOUS
  <2>1. CASE Next
    <3>1. \A r \in Requests : QueryPlace(r)'
      BY <2>1, PlaceStep
    <3>2. QueryInv'
      BY <2>1, <3>1, WgStep DEF QueryInv, QueryPlace
    <3> QED BY <2>1, <3>2, TypeStep, JobStep, DropStep, PoolStep DEF RemoteInv
  <2>2. CASE UNCHANGED vars
    BY <2>2 DEF vars, poolVars, callVars, cancelVars, collectorVars, RemoteInv, TypeOK,
                JobInv, QueryInv, WgCountsOpenChunks, DropInv, PoolInv,
                CloseJoinsQueriers, Working, Request, Open
  <2> QED BY <2>1, <2>2
<1> QED BY <1>1, <1>2, PTL DEF Spec

(* Nobody sends to the channel of a query that has returned.               *)
THEOREM SendCorrect == Spec => []NoSendOnClosed
<1>1. RemoteInv => NoSendOnClosed
  <2> SUFFICES ASSUME RemoteInv PROVE NoSendOnClosed
    OBVIOUS
  <2>1. \A r \in Requests : Open(r) # {} => InFlight(r)
    BY DEF RemoteInv, QueryInv, TypeOK, InFlight, Open
  <2>2. \A q \in Queriers : Working(q) =>
           Request(q) \in Requests /\ Open(Request(q)) # {}
    BY Holders DEF RemoteInv, JobInv
  <2>3. \A r \in Requests : inbox[r] # NoResult => Open(r) # {}
    BY DEF RemoteInv, JobInv
  <2> QED BY <2>1, <2>2, <2>3 DEF NoSendOnClosed
<1> QED BY <1>1, Invariance, PTL

(* A query that returns without an error has every chunk, unless the       *)
(* client has gone, whatever failures, retries and the end of the pool do. *)
THEOREM QueriesComplete == Spec => []CompleteUnlessCancelled
<1>1. RemoteInv => CompleteUnlessCancelled
  BY DEF RemoteInv, QueryInv, DropInv, TypeOK, CompleteUnlessCancelled, Open
<1> QED BY <1>1, Invariance, PTL
=============================================================================
