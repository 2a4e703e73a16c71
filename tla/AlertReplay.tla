---------------------------- MODULE AlertReplay -----------------------------
(***************************************************************************)
(* evaluateAlertRule of lib/web/alertTester.go.  It evaluates an alerting  *)
(* rule of Prometheus over a range, at every interval, and notes when      *)
(* alerts became active, fired and were resolved.  Then it evaluates a     *)
(* second rule, the one with labels and annotations, at those times only   *)
(* and makes the list of alerts the page shows out of the second pass.     *)
(*                                                                         *)
(* The queries go through QueryCache.  The rule itself, AlertingRule.Eval, *)
(* is a library: it is modelled by the states it gives its alerts.  One    *)
(* series stands for one set of alert labels.                              *)
(***************************************************************************)
EXTENDS QueryCache

CONSTANTS HoldDurations,     \* rule.For
          Limits,            \* group.Limit, 0 for none
          resolvedRetention  \* of Prometheus, 15 minutes

ASSUME ReplayAssumption ==
    /\ HoldDurations \subseteq Nat
    /\ Limits \subseteq Nat
    /\ resolvedRetention \in Nat

Never == -1   \* the zero time.Time

VARIABLES
    holdDuration, limit,
    pass,               \* "query", "eval", "replay", "done" or "failed"
    ts,                 \* the next time of the first pass
    active,             \* the alerts of the rule, by their labels
    important,          \* importantAlertTimestampSet
    activeAlertsByLabels,
    evaluated,          \* history: the times of the first pass,
    episodes,           \* its alerts as they last were,
    forgotten           \* and whether one was dropped while pending

rule == <<holdDuration, limit>>
cache == <<range, entry, index>>
history == <<evaluated, episodes, forgotten>>
vars == <<rule, cache, pass, ts, active, important, activeAlertsByLabels, history>>

NoAlert == [state |-> "none", activeAt |-> Never, firedAt |-> Never, resolvedAt |-> Never]
Alerts == [state : {"pending", "firing", "inactive"}, activeAt : Times,
           firedAt : Times \cup {Never}, resolvedAt : Times \cup {Never}]

TypeOK ==
    /\ CacheTypeOK
    /\ holdDuration \in HoldDurations /\ limit \in Limits
    /\ pass \in {"query", "eval", "replay", "done", "failed"}
    /\ ts \in Nat
    /\ active \in [Series -> Alerts \cup {NoAlert}]
    /\ important \subseteq Times
    /\ activeAlertsByLabels \in [Series \X Times -> Seq(Alerts)]
    /\ evaluated \subseteq Times
    /\ episodes \subseteq Series \X Alerts
    /\ forgotten \in BOOLEAN

NoneActive == [s \in Series |-> NoAlert]

Init ==
    /\ CacheInit
    /\ holdDuration \in HoldDurations /\ limit \in Limits
    /\ pass = "query"
    /\ ts = 0
    /\ active = NoneActive
    /\ important = {}
    /\ activeAlertsByLabels = [b \in Series \X Times |-> <<>>]
    /\ evaluated = {} /\ episodes = {} /\ forgotten = FALSE

-----------------------------------------------------------------------------
(* AlertingRule.Eval of Prometheus                                         *)

Fires(a, t) ==
    IF a.state = "pending" /\ t - a.activeAt >= holdDuration
    THEN [a EXCEPT !.state = "firing", !.firedAt = t]
    ELSE a

Present(a, t) ==
    Fires(IF a.state \in {"pending", "firing"} THEN a
          ELSE [NoAlert EXCEPT !.state = "pending", !.activeAt = t], t)

Dropped(a, t) ==
    \/ a.state = "pending"
    \/ a.resolvedAt # Never /\ t - a.resolvedAt > resolvedRetention

Absent(a, t) ==
    CASE Dropped(a, t) -> NoAlert
      [] a.state = "firing" -> [a EXCEPT !.state = "inactive", !.resolvedAt = t]
      [] OTHER -> a

Evaluated(t) ==
    [s \in Series |-> IF s \in Answer(pass, t) THEN Present(active[s], t) ELSE Absent(active[s], t)]

OverLimit(t) == limit > 0 /\ Cardinality(Answer(pass, t)) > limit

Visible(alerts) == {s \in Series : alerts[s].state # "none"}

Fails == pass' = "failed" /\ UNCHANGED <<rule, cache, ts, active, important,
                                            activeAlertsByLabels, history>>

(* More alerts than the limit of the group are an error of Eval.           *)
LimitExceeded ==
    /\ \/ pass = "eval" /\ ts <= maxTimestamp /\ OverLimit(ts)
       \/ pass = "replay" /\ important # {} /\ OverLimit(Min(important))
    /\ Fails

(* The range query or a query in an Eval fails, and so does the handler.   *)
EvalFails ==
    /\ \/ pass = "query" /\ maxTimestamp >= 0
       \/ pass = "eval" /\ ts <= maxTimestamp
       \/ pass = "replay" /\ important # {}
    /\ Fails

-----------------------------------------------------------------------------
(* The first pass                                                          *)

FetchRange ==
    /\ pass = "query"
    /\ RangeQuery
    /\ pass' = "eval"
    /\ UNCHANGED <<rule, ts, active, important, activeAlertsByLabels, history>>

(* Definitions whose name ends in _bug are no part of the model: each is   *)
(* the definition after it with a plausible slip a property must find.     *)
(* Here an evaluation at the last time itself is repeated.                 *)
NextIter_end_bug(curr) ==
    IF maxTimestamp - curr < interval THEN maxTimestamp ELSE curr + interval

(* The last step is shortened so that the end of the range is evaluated.   *)
NextIter(curr) ==
    LET diff == maxTimestamp - curr
    IN  IF diff # 0 /\ diff < interval THEN maxTimestamp ELSE curr + interval

(* The time at which it was resolved is forgotten.                         *)
Moments_bug(a) == {a.activeAt, a.firedAt} \ {Never}

Moments(a) == {a.activeAt, a.firedAt, a.resolvedAt} \ {Never}

FirstPass ==
    /\ pass = "eval" /\ ts <= maxTimestamp
    /\ ~OverLimit(ts)
    /\ LET now == Evaluated(ts)
       IN  /\ active' = now
           /\ important' = important \cup UNION {Moments(now[s]) : s \in Visible(now)}
           /\ episodes' = {e \in episodes : \A s \in Visible(now) :
                              e[1] = s => e[2].activeAt # now[s].activeAt}
                          \cup {<<s, now[s]>> : s \in Visible(now)}
           /\ forgotten' = (forgotten \/ \E s \in Series :
                                active[s].state = "pending" /\ s \notin Answer("eval", ts))
    /\ Asked("eval", ts)
    /\ evaluated' = evaluated \cup {ts}
    /\ ts' = NextIter(ts)
    /\ UNCHANGED <<rule, pass, activeAlertsByLabels>>

(* A second rule, with no alerts yet, and the times in their order.        *)
StartReplay ==
    /\ pass = "eval" /\ ts > maxTimestamp
    /\ pass' = "replay"
    /\ active' = NoneActive
    /\ UNCHANGED <<rule, cache, ts, important, activeAlertsByLabels, history>>

-----------------------------------------------------------------------------
(* The second pass                                                         *)

Resolves(old, a) ==
    old.resolvedAt = Never /\ a.resolvedAt # Never /\ old.state = "firing" /\ a.state = "inactive"
Advances(old, a) ==
    old.activeAt = a.activeAt /\ old.state = "pending" /\ a.state = "firing"
SameAlert(old, a) ==
    old.activeAt = a.activeAt /\ old.firedAt = a.firedAt /\ old.state = a.state

(* What one existing alert makes of a new one, if it decides about it.     *)
Decides(old, a) == Resolves(old, a) \/ Advances(old, a) \/ SameAlert(old, a) \/ a.state = "inactive"

Merged(old, a) ==
    CASE Resolves(old, a) -> [old EXCEPT !.resolvedAt = a.resolvedAt]
      [] Advances(old, a) -> a
      [] OTHER -> old

(* The alert of a list stays as it was first seen.                         *)
Merge_keep_bug(list, a) == IF list = <<>> THEN <<a>> ELSE list

(* The first of them that decides; otherwise the alert is appended.        *)
Merge(list, a) ==
    LET deciding == {i \in DOMAIN list : Decides(list[i], a)}
    IN  IF deciding = {} THEN Append(list, a)
        ELSE [list EXCEPT ![Min(deciding)] = Merged(@, a)]

(* Alerts are hashed by their labels and ActiveAt (activeAlertHash).       *)
SecondPass(t) ==
    /\ pass = "replay" /\ important # {} /\ t = Min(important)
    /\ ~OverLimit(t)
    /\ LET now == Evaluated(t)
       IN  /\ active' = now
           /\ activeAlertsByLabels' = [b \in Series \X Times |->
                 IF b[1] \in Visible(now) /\ b[2] = now[b[1]].activeAt
                 THEN Merge(activeAlertsByLabels[b], now[b[1]])
                 ELSE activeAlertsByLabels[b]]
    /\ Asked("replay", t) \/ AskedTwice("replay", t)
    /\ important' = important \ {t}
    /\ UNCHANGED <<rule, pass, ts, history>>

Show ==
    /\ pass = "replay" /\ important = {}
    /\ pass' = "done"
    /\ UNCHANGED <<rule, cache, ts, active, important, activeAlertsByLabels, history>>

(* The handler goes on as long as no query fails.                          *)
Proceeds ==
    \/ FetchRange \/ FirstPass \/ StartReplay
    \/ \E t \in Times : SecondPass(t)
    \/ Show
    \/ LimitExceeded

Next == Proceeds \/ EvalFails

Spec == Init /\ [][Next]_vars
FairSpec == Spec /\ WF_vars(Proceeds)

-----------------------------------------------------------------------------
(* activeAlertList                                                         *)
Shown == UNION {{<<b[1], activeAlertsByLabels[b][i]>> : i \in DOMAIN activeAlertsByLabels[b]} :
                    b \in Series \X Times}

(* The list of the page shows an alert that was resolved as firing, with   *)
(* the time at which it was resolved.                                      *)
AsShown(a) == IF a.state = "inactive" THEN [a EXCEPT !.state = "firing"] ELSE a

(* The first pass looks at every interval from the start of the range and, *)
(* whatever the interval, at the end.                                      *)
EvaluatesWholeRange ==
    pass \in {"replay", "done"} =>
        evaluated = Steps(0, maxTimestamp, interval)
                        \cup (IF maxTimestamp >= 0 THEN {maxTimestamp} ELSE {})

(* An alert, told by its labels and when it became active, is in the list  *)
(* once, however often the second pass sees it.                            *)
ShownOnce == \A b \in Series \X Times : Len(activeAlertsByLabels[b]) <= 1

(* The place in seriesIndex never hides a point: whatever time a pass has  *)
(* still to look at, its answer will be what a search of the whole matrix  *)
(* finds.                                                                  *)
FirstAnswerIsLookup ==
    /\ pass = "eval" => \A t \in ts .. maxTimestamp :
          Answer("eval", t) = {s \in Series : t \in PointSet(s)}
    /\ pass \in {"eval", "replay"} => \A t \in important :
          Answer("replay", t) = {s \in Series : t \in PointSet(s)}

Fetched == pass \in {"eval", "replay", "done"}
NoneShown == activeAlertsByLabels = [b \in Series \X Times |-> <<>>]

(* A function has searched up to a time before those it will be asked for. *)
SearchedUpTo(f, s, t) == index[f][s] = 0 \/ entry[s][index[f][s]] < t

WhereItIs ==
    /\ pass = "query" => ts = 0 /\ important = {} /\ evaluated = {} /\ episodes = {} /\ ~forgotten
    /\ pass \in {"query", "eval"} =>
          NoneShown /\ \A s \in Series : index["replay"][s] = 0
    /\ pass = "query" => active = NoneActive /\ \A s \in Series : index["eval"][s] = 0
    /\ Fetched => entry \in [Series -> Seq(Times)] /\ \A s \in Series : Ascending(entry[s])
    /\ pass = "eval" => \A s \in Series : SearchedUpTo("eval", s, ts)
    /\ pass = "replay" => \A s \in Series, t \in important : SearchedUpTo("replay", s, t)
    /\ pass = "done" => important = {}

(* Before the end of the range, the next time is on the grid or the end.   *)
EvaluatedSoFar ==
    pass = "eval" /\ ts <= maxTimestamp =>
        /\ evaluated = {t \in Steps(0, maxTimestamp, interval) : t < ts}
        /\ ts % interval = 0 \/ ts = maxTimestamp

EvaluatedAll == evaluated = Steps(0, maxTimestamp, interval)
                               \cup (IF maxTimestamp >= 0 THEN {maxTimestamp} ELSE {})

(* What an alert goes through.                                             *)
Lifecycle(a) ==
    /\ a.state = "pending" => a.firedAt = Never /\ a.resolvedAt = Never
    /\ a.state = "firing" => a.activeAt <= a.firedAt /\ a.resolvedAt = Never
    /\ a.state = "inactive" => a.activeAt <= a.firedAt /\ a.firedAt < a.resolvedAt

ActiveInv == \A s \in Series : active[s] # NoAlert => active[s] \in Alerts /\ Lifecycle(active[s])

(* The times at which an alert is pending or firing.                       *)
Covers(a, t) == a.activeAt <= t /\ (a.resolvedAt # Never => t < a.resolvedAt)

(* An episode fires as soon as it has been held; its series is there while *)
(* it lasts, and not when it is resolved; and the next one comes after it. *)
EpisodeInv(s, a) ==
    /\ Lifecycle(a) /\ Moments(a) \subseteq evaluated
    /\ a.firedAt # Never => a.firedAt - a.activeAt >= holdDuration
    /\ a.resolvedAt # Never => a.resolvedAt \notin PointSet(s)
    /\ a.state # "pending" \/ ~forgotten \/ (pass = "eval" /\ a = active[s]) =>
          \A t \in evaluated :
             /\ Covers(a, t) => t \in PointSet(s)
             /\ a.activeAt <= t /\ (a.firedAt # Never => t < a.firedAt) => t - a.activeAt < holdDuration

EpisodesApart ==
    \A e, f \in episodes : e[1] = f[1] /\ e # f =>
        /\ e[2].activeAt # f[2].activeAt
        /\ e[2].activeAt < f[2].activeAt =>
              \/ e[2].resolvedAt # Never /\ e[2].resolvedAt < f[2].activeAt
              \/ forgotten /\ e[2].state = "pending"

AllMoments == UNION {Moments(e[2]) : e \in episodes}

EpisodesInv ==
    Fetched =>
        /\ \A e \in episodes : EpisodeInv(e[1], e[2])
        /\ EpisodesApart
        /\ ~forgotten => \A s \in Series : \A t \in evaluated \cap PointSet(s) :
              \E e \in episodes : e[1] = s /\ Covers(e[2], t)

(* The alerts of the first pass are the last of the episodes.              *)
CurrentEpisodes ==
    pass = "eval" =>
        /\ important = AllMoments
        /\ \A s \in Visible(active) : <<s, active[s]>> \in episodes
        /\ \A e \in episodes : e[2] # active[e[1]] =>
              \/ e[2].resolvedAt # Never
              \/ forgotten /\ e[2].state = "pending"
        /\ \A e \in episodes : e[1] \in Visible(active) =>
              e[2].activeAt <= active[e[1]].activeAt

(* What the second pass has looked at.                                     *)
Past == AllMoments \ important

(* It keeps what it shows in step with its own alerts.                     *)
ShownInv ==
    pass \in {"replay", "done"} =>
        /\ important \subseteq AllMoments
        /\ \A t \in Past, u \in important : t < u
        /\ \A s \in Visible(active) :
              /\ Moments(active[s]) \subseteq Past
              /\ activeAlertsByLabels[<<s, active[s].activeAt>>] = <<AsShown(active[s])>>
        /\ \A b \in Series \X Times :
              activeAlertsByLabels[b] # <<>> => b[2] \in Past /\ Len(activeAlertsByLabels[b]) = 1

(* An alert that fired in the first pass is active in the second, since at *)
(* least as long, from when it was active to when it was resolved; and is  *)
(* shown as resolved thereafter.                                           *)
FiringSoFar ==
    pass \in {"replay", "done"} => \A e \in episodes : e[2].firedAt # Never =>
        LET now == active[e[1]]
        IN  /\ e[2].activeAt \in Past /\ e[2].resolvedAt \notin Past =>
                  /\ now.state \in {"pending", "firing"} /\ now.activeAt <= e[2].activeAt
                  /\ e[2].firedAt \in Past => now.state = "firing" /\ now.firedAt <= e[2].firedAt
            /\ e[2].resolvedAt \in Past =>
                  \E a \in Shown : /\ a[1] = e[1] /\ a[2].firedAt \in 0 .. e[2].firedAt
                                   /\ a[2].resolvedAt = e[2].resolvedAt

(* An episode as it was when the times of past were over.                  *)
SoFar(past, a) ==
    [state |-> IF a.resolvedAt \in past THEN "inactive"
               ELSE IF a.firedAt \in past THEN "firing" ELSE "pending",
     activeAt |-> a.activeAt,
     firedAt |-> IF a.firedAt \in past THEN a.firedAt ELSE Never,
     resolvedAt |-> IF a.resolvedAt \in past THEN a.resolvedAt ELSE Never]

FaithfulSoFar ==
    pass \in {"replay", "done"} /\ ~forgotten =>
        /\ \A e \in episodes : e[2].activeAt \in Past =>
              /\ activeAlertsByLabels[<<e[1], e[2].activeAt>>] = <<AsShown(SoFar(Past, e[2]))>>
              /\ e[2].resolvedAt \notin Past => active[e[1]] = SoFar(Past, e[2])
        /\ \A s \in Series : active[s].state \in {"pending", "firing"} =>
              \E e \in episodes : /\ e[1] = s /\ e[2].activeAt \in Past
                                  /\ e[2].resolvedAt \notin Past
        /\ \A b \in Series \X Times : activeAlertsByLabels[b] # <<>> =>
              \E e \in episodes : e[1] = b[1] /\ e[2].activeAt = b[2]

(* The state of the cache and the two passes, what the cache holds and     *)
(* answers, and what each pass has seen and shown so far.                  *)
ReplayInv ==
    /\ TypeOK
    /\ CopiesAtSeamsOnly /\ ChunksAreSeamless /\ FirstAnswerIsLookup
    /\ EvaluatesWholeRange /\ ShownOnce
    /\ WhereItIs /\ EvaluatedSoFar /\ (pass = "eval" /\ ts > maxTimestamp => EvaluatedAll)
    /\ ActiveInv /\ EpisodesInv /\ CurrentEpisodes /\ ShownInv /\ FiringSoFar /\ FaithfulSoFar

(* The second pass, at a few of the times only, shows what the first saw,  *)
(* unless an alert was dropped while it was pending.                       *)
ReplayIsFaithful ==
    pass = "done" /\ ~forgotten => Shown = {<<e[1], AsShown(e[2])>> : e \in episodes}

(* Whatever fired in the first pass is shown as firing, from then or from  *)
(* an earlier time on, until it was resolved.                              *)
NoFiringMissed ==
    pass = "done" => \A e \in episodes : e[2].firedAt # Never =>
        \E a \in Shown : /\ a[1] = e[1]
                         /\ a[2].firedAt \in 0 .. e[2].firedAt
                         /\ a[2].resolvedAt \in {Never, e[2].resolvedAt}

(* The test comes to an end.                                               *)
Termination == <>(pass \in {"done", "failed"})
=============================================================================
