------------------------------ MODULE Publish -------------------------------
(***************************************************************************)
(* What the commands generate and migrate do to the file system, run after *)
(* run, with crashes: NewTempDirectory, deleteOldTempDirectories and       *)
(* MoveBlocks of lib/database/database.go, in the order in which           *)
(* plannedBlockWriter.Run calls them.                                      *)
(*                                                                         *)
(* A run removes the temporary directories that earlier runs have left     *)
(* beside the output directory and makes one of its own.  Its appenders    *)
(* write blocks to directories in it; closing them moves the blocks up     *)
(* into it, where they are compacted; then they are moved to the output    *)
(* directory.  MoveBlocks renames one block after the other and stops at   *)
(* the first error; a rename is atomic.                                    *)
(*                                                                         *)
(* A flush of an appender yields a piece, numbered by its place in time,   *)
(* and a block is a set of pieces: the tsdb, which is external, deletes    *)
(* blocks that are too old when Compact opens it, and makes one block of   *)
(* several that overlap.  The directories of the appenders of a run are    *)
(* one here, as they are moved one after the other, under one lock.        *)
(***************************************************************************)
EXTENDS Naturals, FiniteSets

CONSTANTS NumRuns,        \* bound on the runs of the program
          MaxPieces,      \* bound on the flushes of a run
          MaxTime,        \* bound on the clock of the ULIDs, in ms
          Retention       \* DefaultRetention, 90 days, in pieces

ASSUME BoundAssumption == NumRuns \in Nat /\ MaxPieces \in Nat /\ MaxTime \in Nat
ASSUME RetentionAssumption == Retention \in Nat

Runs == 1 .. NumRuns
Pieces == Runs \X (1 .. MaxPieces)
Blocks == (SUBSET Pieces) \ {{}}

VARIABLES
    concurrent,    \* whether a run may start while another is active
    trailingSlash, \* whether the output directory is given as "data/"
    clock,
    at,          \* where each run is
    time,        \* the time in the ULID of its temporary directory
    old,         \* the runs whose directory it still has to remove
    files,       \* the blocks that MoveBlocks still has to move
    tmpExists,   \* its temporary directory exists
    app,         \* blocks in the directories of its appenders
    tmp,         \* blocks in its temporary directory
    made,        \* pieces it has written
    outExists,   \* the output directory exists
    out          \* blocks in the output directory

settings == <<concurrent, trailingSlash>>
vars == <<settings, clock, at, time, old, files, tmpExists, app, tmp, made, outExists, out>>

Active == {"scan", "write", "join", "compact", "publish", "move"}

TypeOK ==
    /\ concurrent \in BOOLEAN /\ trailingSlash \in BOOLEAN
    /\ clock \in 0 .. MaxTime
    /\ at \in [Runs -> {"off", "done", "refused", "error", "crashed"} \cup Active]
    /\ time \in [Runs -> 0 .. MaxTime]
    /\ old \in [Runs -> SUBSET Runs]
    /\ files \in [Runs -> SUBSET Blocks]
    /\ tmpExists \in [Runs -> BOOLEAN]
    /\ app \in [Runs -> SUBSET Blocks]
    /\ tmp \in [Runs -> SUBSET Blocks]
    /\ made \in [Runs -> SUBSET Pieces]
    /\ outExists \in BOOLEAN
    /\ out \subseteq Blocks

Init ==
    /\ concurrent \in BOOLEAN /\ trailingSlash \in BOOLEAN
    /\ clock = 0
    /\ at = [r \in Runs |-> "off"]
    /\ time = [r \in Runs |-> 0]
    /\ old = [r \in Runs |-> {}]
    /\ files = [r \in Runs |-> {}]
    /\ tmpExists = [r \in Runs |-> FALSE]
    /\ app = [r \in Runs |-> {}]
    /\ tmp = [r \in Runs |-> {}]
    /\ made = [r \in Runs |-> {}]
    /\ outExists \in BOOLEAN
    /\ out = {}

-----------------------------------------------------------------------------
Moves(r, from, to) == at[r] = from /\ at' = [at EXCEPT ![r] = to]

Tick ==
    /\ clock < MaxTime
    /\ clock' = clock + 1
    /\ UNCHANGED <<settings, at, time, old, files, tmpExists, app, tmp, made, outExists, out>>

(* The directories deleteOldTempDirectories recognises: beside the output  *)
(* directory, with its name as a prefix and an older ULID.  For "data/" it *)
(* looks in data for names that begin with data-, while the directories    *)
(* are made in data with names that begin with a dash.                     *)
Leftovers(t) ==
    {s \in Runs : tmpExists[s] /\ time[s] < t /\ ~trailingSlash}

MayStart(r) ==
    /\ at[r] = "off"
    /\ \A s \in Runs : s < r => at[s] # "off" /\ (concurrent \/ at[s] \notin Active)

Start(r) ==
    /\ MayStart(r)
    /\ trailingSlash => outExists
    /\ time' = [time EXCEPT ![r] = clock]
    /\ old' = [old EXCEPT ![r] = Leftovers(clock)]
    /\ Moves(r, "off", "scan")
    /\ UNCHANGED <<settings, clock, files, tmpExists, app, tmp, made, outExists, out>>

(* os.ReadDir of the parent, which for "data/" is data itself.             *)
Refused(r) ==
    /\ MayStart(r)
    /\ trailingSlash /\ ~outExists
    /\ Moves(r, "off", "refused")
    /\ UNCHANGED <<settings, clock, time, old, files, tmpExists, app, tmp, made, outExists, out>>

RemoveOld(r) ==
    /\ at[r] = "scan"
    /\ \E s \in old[r] :
          /\ old' = [old EXCEPT ![r] = old[r] \ {s}]
          /\ tmpExists' = [tmpExists EXCEPT ![s] = FALSE]
          /\ app' = [app EXCEPT ![s] = {}]
          /\ tmp' = [tmp EXCEPT ![s] = {}]
    /\ UNCHANGED <<settings, clock, at, time, files, made, outExists, out>>

Scanned(r) ==
    /\ old[r] = {}
    /\ Moves(r, "scan", "write")
    /\ UNCHANGED <<settings, clock, time, old, files, tmpExists, app, tmp, made, outExists, out>>

(* A flush makes the directories it needs.                                 *)
Flush(r) ==
    /\ at[r] = "write"
    /\ \E i \in 1 .. MaxPieces :
          /\ <<r, i>> \notin made[r]
          /\ made' = [made EXCEPT ![r] = made[r] \cup {<<r, i>>}]
          /\ app' = [app EXCEPT ![r] = app[r] \cup {{<<r, i>>}}]
    /\ tmpExists' = [tmpExists EXCEPT ![r] = TRUE]
    /\ UNCHANGED <<settings, clock, at, time, old, files, tmp, outExists, out>>

(* close(): MoveBlocks lists the directory, which is there if it has a     *)
(* block; an appender that never had a sample cannot be flushed.           *)
CloseBegins(r) ==
    /\ app[r] # {}
    /\ files' = [files EXCEPT ![r] = app[r]]
    /\ Moves(r, "write", "join")
    /\ UNCHANGED <<settings, clock, time, old, tmpExists, app, tmp, made, outExists, out>>

CloseMoves(r) ==
    /\ at[r] = "join"
    /\ \E b \in files[r] \cap app[r] :
          /\ files' = [files EXCEPT ![r] = files[r] \ {b}]
          /\ app' = [app EXCEPT ![r] = app[r] \ {b}]
          /\ tmp' = [tmp EXCEPT ![r] = tmp[r] \cup {b}]
    /\ UNCHANGED <<settings, clock, at, time, old, tmpExists, made, outExists, out>>

(* Definitions whose name ends in _bug are no part of the model: each is   *)
(* the definition after it with a plausible slip a property must find.     *)
(* The directory is removed before its blocks are moved.                   *)
CloseEnds_bug(r) ==
    /\ app' = [app EXCEPT ![r] = {}]
    /\ files' = [files EXCEPT ![r] = {}]
    /\ Moves(r, "join", "compact")
    /\ UNCHANGED <<settings, clock, time, old, tmpExists, tmp, made, outExists, out>>

(* The blocks that could not be moved stay behind.                         *)
CloseEnds_early_bug(r) ==
    /\ files' = [files EXCEPT ![r] = {}]
    /\ Moves(r, "join", "compact")
    /\ UNCHANGED <<settings, clock, time, old, tmpExists, app, tmp, made, outExists, out>>

(* os.RemoveAll(sourceDir)                                                 *)
CloseEnds(r) ==
    /\ files[r] = {}
    /\ app' = [app EXCEPT ![r] = {}]
    /\ Moves(r, "join", "compact")
    /\ UNCHANGED <<settings, clock, time, old, files, tmpExists, tmp, made, outExists, out>>

(* tsdb.Open makes the directory if it is gone, and deletes the blocks     *)
(* whose end is further than the retention from the end of the newest one. *)
EndOf(b) == CHOOSE i \in 1 .. MaxPieces :
                (\E p \in b : p[2] = i) /\ (\A p \in b : p[2] <= i)
Kept(blocks) == {b \in blocks : \A d \in blocks : EndOf(d) <= EndOf(b) + Retention}

Compact(r) ==
    /\ Moves(r, "compact", "publish")
    /\ tmpExists' = [tmpExists EXCEPT ![r] = TRUE]
    /\ \E overlapping \in SUBSET Kept(tmp[r]) :
          tmp' = [tmp EXCEPT ![r] = (Kept(tmp[r]) \ overlapping)
                                       \cup ({UNION overlapping} \ {{}})]
    /\ UNCHANGED <<settings, clock, time, old, files, app, made, outExists, out>>

PublishBegins(r) ==
    /\ tmpExists[r]
    /\ outExists' = TRUE
    /\ files' = [files EXCEPT ![r] = tmp[r]]
    /\ Moves(r, "publish", "move")
    /\ UNCHANGED <<settings, clock, time, old, tmpExists, app, tmp, made, out>>

(* The blocks are copied.                                                  *)
PublishMoves_bug(r) ==
    /\ at[r] = "move"
    /\ \E b \in files[r] \cap tmp[r] :
          /\ files' = [files EXCEPT ![r] = files[r] \ {b}]
          /\ out' = out \cup {b}
    /\ UNCHANGED <<settings, clock, at, time, old, tmpExists, app, tmp, made, outExists>>

PublishMoves(r) ==
    /\ at[r] = "move"
    /\ \E b \in files[r] \cap tmp[r] :
          /\ files' = [files EXCEPT ![r] = files[r] \ {b}]
          /\ tmp' = [tmp EXCEPT ![r] = tmp[r] \ {b}]
          /\ out' = out \cup {b}
    /\ UNCHANGED <<settings, clock, at, time, old, tmpExists, app, made, outExists>>

(* The run is done when the first block is moved.                          *)
PublishEnds_bug(r) ==
    /\ Cardinality(files[r]) <= 1
    /\ tmpExists' = [tmpExists EXCEPT ![r] = FALSE]
    /\ tmp' = [tmp EXCEPT ![r] = {}]
    /\ Moves(r, "move", "done")
    /\ UNCHANGED <<settings, clock, time, old, files, app, made, outExists, out>>

PublishEnds(r) ==
    /\ files[r] = {}
    /\ tmpExists' = [tmpExists EXCEPT ![r] = FALSE]
    /\ tmp' = [tmp EXCEPT ![r] = {}]
    /\ Moves(r, "move", "done")
    /\ UNCHANGED <<settings, clock, time, old, files, app, made, outExists, out>>

(* Any of these calls may return an error, of which some must: a directory *)
(* or a block that a younger run has removed is not there to be moved.     *)
Fails(r) ==
    /\ at[r] \in Active
    /\ at' = [at EXCEPT ![r] = "error"]
    /\ UNCHANGED <<settings, clock, time, old, files, tmpExists, app, tmp, made, outExists, out>>

Crash(r) ==
    /\ at[r] \in Active
    /\ at' = [at EXCEPT ![r] = "crashed"]
    /\ UNCHANGED <<settings, clock, time, old, files, tmpExists, app, tmp, made, outExists, out>>

Ended == (\A r \in Runs : at[r] \notin Active \cup {"off"}) /\ UNCHANGED vars

Next ==
    \/ Tick
    \/ \E r \in Runs :
          \/ Start(r) \/ Refused(r) \/ RemoveOld(r) \/ Scanned(r)
          \/ Flush(r) \/ CloseBegins(r) \/ CloseMoves(r) \/ CloseEnds(r)
          \/ Compact(r)
          \/ PublishBegins(r) \/ PublishMoves(r) \/ PublishEnds(r)
          \/ Fails(r) \/ Crash(r)
    \/ Ended

Spec == Init /\ [][Next]_vars

-----------------------------------------------------------------------------
(* Properties                                                              *)
Dirs(r) == app[r] \cup tmp[r]
OfRun(r, blocks) == {p \in UNION blocks : p[1] = r}
OnDisk(r) == OfRun(r, Dirs(r) \cup out)

(* Only a run that got to publish has anything in the output directory: a  *)
(* failure or a crash while it writes, closes or compacts leaves it alone, *)
(* and once it publishes no block is left in the directory it appended to. *)
OutputIsFinishedWork ==
    \A r \in Runs :
        OfRun(r, out) # {} =>
            /\ app[r] = {}
            /\ at[r] \in {"move", "done", "error", "crashed"}

(* Pieces that the retention may have taken away.                          *)
Expired(r) == {p \in made[r] : \E q \in made[r] : q[2] > p[2] + Retention}

(* A run that says it succeeded has put everything it wrote in the output  *)
(* directory, but for what is beyond the retention, if no other run        *)
(* removed its temporary directory.                                        *)
DoneMeansPublished ==
    \A r \in Runs :
        at[r] = "done" =>
            \/ made[r] \ Expired(r) \subseteq OfRun(r, out)
            \/ \E s \in Runs : time[s] > time[r] /\ at[s] # "off"

(* Until a younger run starts, whatever a failed or crashed run has        *)
(* written is still on disk, but for what is beyond the retention.         *)
NothingLostBeforeNextRun ==
    \A r \in Runs :
        (\A s \in Runs : s > r => at[s] = "off") => made[r] \ Expired(r) \subseteq OnDisk(r)

(* No piece is in two blocks, wherever a run was interrupted: MoveBlocks   *)
(* never leaves a block in both directories.                               *)
PieceInOneBlock ==
    /\ \A r, s \in Runs : \A b \in Dirs(r), d \in Dirs(s) : b # d => b \cap d = {}
    /\ \A r \in Runs : \A b \in Dirs(r), d \in out : b \cap d = {}
    /\ \A b, d \in out : b # d => b \cap d = {}
    /\ \A r \in Runs : app[r] \cap tmp[r] = {}

(* When runs follow each other, and the directory is given without a       *)
(* slash, a run that writes finds no temporary directory of an earlier run *)
(* but one of its own millisecond.                                         *)
NoLeftovers ==
    ~concurrent /\ ~trailingSlash =>
        \A r, s \in Runs :
            /\ at[r] \in Active \ {"scan"}
            /\ s # r
            /\ tmpExists[s]
            => time[s] = time[r]

(* While it scans, the leftovers are those it is about to remove.          *)
LeftoversAreOld ==
    ~concurrent /\ ~trailingSlash =>
        \A r, s \in Runs :
            at[r] = "scan" /\ s # r /\ tmpExists[s] => time[s] = time[r] \/ s \in old[r]

(* With "data/" a run is turned away only as long as no run has published, *)
(* and then the same happens to every later one.                           *)
RefusedOnlyAtFirst ==
    ~concurrent => \A r \in Runs :
        at[r] = "refused" =>
            out = {} /\ ~outExists /\ trailingSlash /\ \A s \in Runs : at[s] \notin Active

(* A run's directories hold blocks of its own making.                      *)
OwnPieces ==
    /\ \A r \in Runs :
          /\ made[r] \subseteq {r} \X (1 .. MaxPieces)
          /\ \A b \in Dirs(r) : b \subseteq made[r]
    /\ \A b \in out : \A p \in b : p \in made[p[1]]

(* The runs start in order and a run removes the directories of earlier    *)
(* ones only; what it has still to move is listed.                         *)
RunInv ==
    /\ \A r, s \in Runs : s < r /\ at[r] # "off" => at[s] # "off"
    /\ ~concurrent => \A r, s \in Runs : at[r] \in Active /\ at[s] \in Active => r = s
    /\ ~outExists => out = {}
    /\ \A r \in Runs :
          /\ time[r] <= clock
          /\ at[r] = "off" => ~tmpExists[r] /\ made[r] = {}
          /\ \A s \in old[r] : s < r /\ time[s] < time[r] /\ at[r] # "off"
          /\ at[r] = "join" => app[r] \subseteq files[r]
          /\ at[r] \in {"compact", "publish", "move", "done"} => app[r] = {}
          /\ at[r] = "move" => outExists /\ tmp[r] \subseteq files[r]
          /\ at[r] = "done" => tmp[r] = {}

(* What a run has written is on disk, or a younger run may have removed it.*)
UnexpiredOnDisk(r) == made[r] \ Expired(r) \subseteq OnDisk(r)
WorkIsOnDisk ==
    \A r \in Runs :
        UnexpiredOnDisk(r) \/ \E s \in Runs : s > r /\ time[s] > time[r] /\ at[s] # "off"

(* The state of the directories, wherever runs were interrupted.           *)
DirectoryInv ==
    /\ TypeOK /\ RunInv /\ OwnPieces /\ PieceInOneBlock
    /\ NoLeftovers /\ LeftoversAreOld /\ RefusedOnlyAtFirst /\ WorkIsOnDisk

(* "Migrate the specified data": a run that succeeds, with no other run    *)
(* meanwhile, has put everything it wrote in the output directory.         *)
EverythingIsPublished ==
    ~concurrent => \A r \in Runs : at[r] = "done" => made[r] \subseteq OfRun(r, out)
=============================================================================
