------------------------------ MODULE Command -------------------------------
(***************************************************************************)
(* One run of a command, from its flags to the exit: lib/command,          *)
(* lib/web/web.go, the start and stop of lib/web/server.go, and the flag   *)
(* values of config/*.go.                                                  *)
(*                                                                         *)
(* One flag is followed from the command line, the environment and the     *)
(* configuration file into the value the task gets.  cobra, pflag and      *)
(* viper are external: viper looks a name up in the flags that were set,   *)
(* in the environment and in the file, in this order.  A text is a         *)
(* sequence of words, <<>> an empty or absent one; Bad is a text that the  *)
(* Set of the flag refuses.                                                *)
(***************************************************************************)
EXTENDS Naturals, Sequences, SequencesExt

CONSTANTS Flags,       \* the flags to look at
          Words,       \* what texts are made of
          Args,        \* what the flag may get on the command line
          Texts,       \* what environment and file may say of it
          Requests     \* sets of profiles that may be asked for

Bad == <<"bad">>
Default == <<"default">>
Profiles == {"trace", "cpu", "memory"}

(* What the builders of config/common.go make of the flags of all commands.*)
FlagKinds ==
    [directory |-> "plain", outputDirectory |-> "plain", sampleInterval |-> "plain",
     parallelism |-> "plain", listenAddress |-> "plain",
     start |-> "time", end |-> "time",
     host |-> "opaque", metricConfigFile |-> "opaque",
     ruleConfigFile |-> "collected", matcher |-> "collected",
     ruleGroupFilter |-> "filters", ruleNameFilter |-> "filters"]

ASSUME CommandAssumption ==
    /\ Flags \subseteq DOMAIN FlagKinds
    /\ {"bad", "default", "rounded"} \subseteq Words
    /\ \A a \in Args : a \in Seq(Seq(Words))
    /\ Texts \subseteq Seq(Words)
    /\ Requests \subseteq SUBSET Profiles

VARIABLES
    flag,               \* one of the flags of the command
    args, env, file,    \* its texts: of the command line, environment, file
    next,               \* the next of args
    value, changed,     \* the destination of the flag, and f.Changed
    phase,              \* "parse", "preset", "profile", "task", "close", "exit"
    task,               \* what RunE runs: "batch" or "web"
    asked,              \* the profiles asked for
    toStart,            \* those startProfiler has still to start
    open, running,      \* profile files, profiles being taken
    methodClosers, fileClosers,   \* of profiler, what is left of them
    finished,           \* profiles that ended up in their file
    server, busy,       \* where web.Run is; whether a request is being served
    outcome             \* "none", "ok", "error", "panic", "killed"

flags == <<flag, args, env, file, next, value, changed>>
profiler == <<asked, toStart, open, running, methodClosers, fileClosers,
              finished>>
web == <<task, server, busy>>
vars == <<flags, profiler, phase, web, outcome>>

Servers == {"none", "started", "notified", "waiting", "closing", "shutdown"}

TypeOK ==
    /\ flag \in Flags
    /\ args \in Args /\ env \in Texts /\ file \in Texts
    /\ next \in 1 .. Len(args) + 1
    /\ value \in Seq(Seq(Words) \ {Bad}) /\ value # <<>>
    /\ changed \in BOOLEAN
    /\ phase \in {"parse", "preset", "profile", "task", "close", "exit"}
    /\ task \in {"batch", "web"} /\ server \in Servers /\ busy \in BOOLEAN
    /\ asked \in Requests
    /\ running \subseteq asked /\ open \subseteq asked /\ finished \subseteq asked
    /\ toStart \in Seq(asked)
    /\ methodClosers \in Seq(asked) /\ fileClosers \in Seq(asked)
    /\ outcome \in {"none", "ok", "error", "panic", "killed"}

(* The profiles that are asked for, in the order of startProfiler.         *)
StartOrder(profiles) ==
    LET Asked(p) == IF p \in profiles THEN <<p>> ELSE <<>>
    IN  Asked("trace") \o Asked("cpu") \o Asked("memory")

Init ==
    /\ flag \in Flags
    /\ args \in Args /\ env \in Texts /\ file \in Texts
    /\ next = 1 /\ value = <<Default>> /\ changed = FALSE
    /\ phase = "parse"
    /\ task \in {"batch", "web"} /\ server = "none" /\ busy = FALSE
    /\ asked \in Requests
    /\ toStart = StartOrder(asked)
    /\ open = {} /\ running = {} /\ finished = {}
    /\ methodClosers = <<>> /\ fileClosers = <<>>
    /\ outcome = "none"

-----------------------------------------------------------------------------
(* Flags                                                                   *)

kind == FlagKinds[flag]

(* The generator is nothing without its metrics.                           *)
required == flag = "metricConfigFile"

(* Filters, rules and matchers collect what they are given one by one, and *)
(* the first of it replaces the default; the other kinds replace.          *)
Collects == kind \in {"filters", "collected"}

SetFlag(text) ==
    /\ value' = IF Collects /\ changed THEN Append(value, text) ELSE <<text>>
    /\ changed' = TRUE

Exit(how) == phase' = "exit" /\ outcome' = how

ParseArg ==
    /\ phase = "parse" /\ next <= Len(args)
    /\ next' = next + 1
    /\ IF args[next] = Bad
       THEN Exit("error") /\ UNCHANGED <<value, changed>>
       ELSE SetFlag(args[next]) /\ UNCHANGED <<phase, outcome>>
    /\ UNCHANGED <<flag, args, env, file, profiler, web>>

Parsed ==
    /\ phase = "parse" /\ next > Len(args)
    /\ phase' = "preset"
    /\ UNCHANGED <<flags, profiler, web, outcome>>

(* What String makes of a value, and Set of that: numbers, durations and   *)
(* addresses are read back; urls, files and matchers are written in a form *)
(* that Set refuses; a time as "3 hours ago", which the date parsers may   *)
(* refuse or read; filters are joined by a comma.                          *)
Rounded(text) == Append(text, "rounded")

Rendered ==
    CASE kind = "plain"   -> {value[1]}
      [] kind = "filters" -> {FlattenSeq(value)}
      [] kind = "time"    -> {Bad, Rounded(value[1])}
      [] OTHER            -> {Bad}

(* viper.GetString: an empty variable counts as absent.                    *)
(* Definitions whose name ends in _bug are no part of the model: each is   *)
(* the definition after it with a plausible slip a property must find.     *)
GetString_bug ==
    IF env # <<>> THEN {env} ELSE IF changed THEN Rendered ELSE {file}

GetString ==
    IF changed THEN Rendered ELSE IF env # <<>> THEN {env} ELSE {file}

(* presetRequiredFlags sets every flag again, ignoring errors.  Then cobra *)
(* refuses a command whose time range is not one, or without a required    *)
(* flag.                                                                   *)
PresetRequiredFlags ==
    /\ phase = "preset"
    /\ \E text \in GetString :
         IF text \in {<<>>, Bad} THEN UNCHANGED <<value, changed>> ELSE SetFlag(text)
    /\ \/ phase' = "profile" /\ outcome' = outcome /\ (required => changed')
       \/ Exit("error")
    /\ UNCHANGED <<flag, args, env, file, next, profiler, web>>

-----------------------------------------------------------------------------
(* Profiler                                                                *)

FileOpened(p) ==
    /\ open' = open \cup {p}
    /\ fileClosers' = Append(fileClosers, p)

(* The heap profile is taken by its closer alone.                          *)
StartProfile ==
    /\ phase = "profile" /\ toStart # <<>>
    /\ FileOpened(Head(toStart))
    /\ running' = running \cup {Head(toStart)}
    /\ methodClosers' = Append(methodClosers, Head(toStart))
    /\ toStart' = Tail(toStart)
    /\ UNCHANGED <<flags, asked, finished, phase, web, outcome>>

StartProfileFails_bug ==
    /\ phase = "profile" /\ toStart # <<>>
    /\ \/ UNCHANGED <<open, fileClosers>>
       \/ Head(toStart) # "memory" /\ FileOpened(Head(toStart))
    /\ Exit("error")
    /\ UNCHANGED <<flags, asked, toStart, running, methodClosers, finished, web>>

(* The file cannot be created, or the profile not started.  RunE has       *)
(* deferred Close before it looks at the error.                            *)
StartProfileFails ==
    /\ phase = "profile" /\ toStart # <<>>
    /\ \/ UNCHANGED <<open, fileClosers>>
       \/ Head(toStart) # "memory" /\ FileOpened(Head(toStart))
    /\ phase' = "close" /\ outcome' = "error"
    /\ UNCHANGED <<flags, asked, toStart, running, methodClosers, finished, web>>

RunTask ==
    /\ phase = "profile" /\ toStart = <<>>
    /\ phase' = "task"
    /\ UNCHANGED <<flags, profiler, web, outcome>>

(* An error of a closer is noted, and the others run all the same.         *)
CloseMethod ==
    /\ phase = "close" /\ methodClosers # <<>>
    /\ LET p == Head(methodClosers) IN
         /\ running' = running \ {p}
         /\ \/ finished' = finished \cup ({p} \cap open)
            \/ p = "memory" /\ finished' = finished
    /\ methodClosers' = Tail(methodClosers)
    /\ UNCHANGED <<flags, asked, toStart, open, fileClosers, phase, web,
                   outcome>>

CloseFile ==
    /\ phase = "close" /\ methodClosers = <<>> /\ fileClosers # <<>>
    /\ open' = open \ {Head(fileClosers)}
    /\ fileClosers' = Tail(fileClosers)
    /\ UNCHANGED <<flags, asked, toStart, running, methodClosers, finished,
                   phase, web, outcome>>

Closed ==
    /\ phase = "close" /\ methodClosers = <<>> /\ fileClosers = <<>>
    /\ phase' = "exit"
    /\ UNCHANGED <<flags, profiler, web, outcome>>

-----------------------------------------------------------------------------
(* Tasks                                                                   *)

Return(how) == phase' = "close" /\ outcome' = how

(* What the other tasks do is the subject of other modules.                *)
BatchReturns ==
    /\ phase = "task" /\ task = "batch"
    /\ Return("ok") \/ Return("error") \/ Return("panic")
    /\ UNCHANGED <<flags, profiler, web>>

(* newServer and createServer may fail.  A ListenAndServe that fails is    *)
(* only logged by its goroutine: web.Run waits for the interrupt with no   *)
(* server.                                                                 *)
StartServer ==
    /\ phase = "task" /\ task = "web" /\ server = "none"
    /\ \/ server' = "started" /\ UNCHANGED <<phase, outcome>>
       \/ server' = server /\ Return("error")
    /\ UNCHANGED <<flags, profiler, task, busy>>

MainGoesOn ==
    /\ phase = "task"
    /\ \/ server = "started" /\ server' = "notified"
       \/ server = "notified" /\ server' = "waiting"
    /\ UNCHANGED <<flags, profiler, phase, task, busy, outcome>>

Request ==
    /\ phase = "task"
    /\ \/ server \in {"started", "notified", "waiting", "closing"} /\ busy' = TRUE
       \/ busy /\ busy' = FALSE
    /\ UNCHANGED <<flags, profiler, phase, task, server, outcome>>

(* signal.Notify drops an interrupt that finds nobody at the channel; one  *)
(* before Notify, or while another task runs, ends the process.            *)
Interrupt ==
    /\ phase # "exit"
    /\ \/ server = "waiting" /\ server' = "closing" /\ UNCHANGED <<phase, outcome>>
       \/ server \in {"none", "started"} /\ Exit("killed") /\ server' = server
    /\ UNCHANGED <<flags, profiler, task, busy>>

(* queryable.Close returns (RemoteQuery).                                  *)
QueryableClosed ==
    /\ server = "closing"
    /\ server' = "shutdown"
    /\ UNCHANGED <<flags, profiler, phase, task, busy, outcome>>

Shutdown_bug ==
    /\ phase = "task" /\ server = "shutdown"
    /\ ~busy /\ Return("ok")
    /\ UNCHANGED <<flags, profiler, web>>

(* Shutdown waits for the requests until the minute is over that began     *)
(* before queryable.Close, and Stop panics if some are left then, or if    *)
(* the listener was closed with an error.  The Stop that web.Run has       *)
(* deferred finds the server stopped, by return and by panic.              *)
Shutdown ==
    /\ phase = "task" /\ server = "shutdown"
    /\ Return("panic") \/ (~busy /\ Return("ok"))
    /\ UNCHANGED <<flags, profiler, web>>

Ended == phase = "exit" /\ UNCHANGED vars

Main ==
    \/ ParseArg \/ Parsed \/ PresetRequiredFlags
    \/ StartProfile \/ StartProfileFails \/ RunTask
    \/ CloseMethod \/ CloseFile \/ Closed
    \/ BatchReturns \/ StartServer \/ MainGoesOn \/ QueryableClosed \/ Shutdown

Next == Main \/ Request \/ Interrupt \/ Ended

Spec == Init /\ [][Next]_vars

(* The main goroutine goes on; nobody has to interrupt it, and no request  *)
(* has to end.                                                             *)
FairSpec == Spec /\ WF_vars(Main)

-----------------------------------------------------------------------------
(* Properties                                                              *)

(* The texts that count: the flag as given, which were all accepted; else  *)
(* the environment, even if its text is refused; else the configuration    *)
(* file.                                                                   *)
Good ==
    LET text == IF env # <<>> THEN env ELSE file
    IN  IF args # <<>> THEN args ELSE IF text \in {<<>>, Bad} THEN <<>> ELSE <<text>>

(* The task gets what the nearest source says, although every flag is set  *)
(* a second time from its own rendering, with errors ignored: filters may  *)
(* be repeated and joined by that, and a time rounded; nothing else may    *)
(* change.  A required flag has been given.                                *)
FlagsFollowPrecedence ==
    phase \in {"profile", "task"} =>
        IF Good = <<>> THEN value = <<Default>> /\ ~required
        ELSE CASE kind = "filters"   -> Range(value) \cup {FlattenSeq(Good)} =
                                          Range(Good) \cup {FlattenSeq(Good)}
               [] kind = "collected" -> value = Good
               [] kind = "time"      -> value[1] \in {Last(Good), Rounded(Last(Good))}
               [] OTHER              -> value = <<Last(Good)>>

(* However the command ends, unless the process is killed: every profile   *)
(* that was started is stopped, every file closed, none of them before the *)
(* profile is in it; and a task that ended without an error has all the    *)
(* profiles asked for.  The heap profile alone may fail to be written,     *)
(* which is only logged.                                                   *)
ProfilesAreFinished ==
    phase = "exit" /\ outcome # "killed" =>
        /\ open = {} /\ running = {}
        /\ outcome = "ok" => asked \ finished \subseteq {"memory"}

(* Once the web server has the interrupt, the process ends, even if there  *)
(* are requests that never do.  That queryable.Close returns, however long *)
(* it takes, is the StopEnds of RemoteQuery; what is left of the minute    *)
(* after it bounds the wait for the requests.                              *)
InterruptEnds == (server = "closing") ~> (phase = "exit")

(* Where the parser is and what it has made of the flag so far.            *)
ParsedSoFar ==
    phase \in {"parse", "preset"} =>
        /\ phase = "preset" => next = Len(args) + 1
        /\ changed <=> next > 1
        /\ \A j \in 1 .. next - 1 : args[j] # Bad
        /\ IF next = 1 THEN value = <<Default>>
           ELSE value = IF Collects THEN SubSeq(args, 1, next - 1) ELSE <<args[next - 1]>>

(* Every profile that runs has a closer and an open file, every open file  *)
(* a closer, and what was asked for is started, closed, or still to be.    *)
ProfilesHaveClosers ==
    /\ phase \in {"parse", "preset"} =>
          open = {} /\ running = {} /\ methodClosers = <<>> /\ Range(toStart) = asked
    /\ phase = "task" => toStart = <<>>
    /\ phase = "close" /\ outcome = "ok" => toStart = <<>>
    /\ phase # "exit" =>
          /\ running \subseteq Range(methodClosers) /\ Range(methodClosers) \subseteq open
          /\ open \subseteq Range(fileClosers)
          /\ asked \subseteq finished \cup Range(methodClosers) \cup Range(toStart) \cup {"memory"}

CommandInv == TypeOK /\ ParsedSoFar /\ ProfilesHaveClosers /\ ProfilesAreFinished
=============================================================================
