---------------------------- MODULE PlannedWrite ----------------------------
(***************************************************************************)
(* What a caller of plannedBlockWriter.Run (lib/block/planner.go) may rely *)
(* on, with every goroutine, channel, lock and wait group left out.        *)
(*                                                                         *)
(* The work is a sequence of blocks, each a sequence of plan entries.  An  *)
(* entry is executed at most once, and only when every entry of the        *)
(* earlier blocks has been written.  The result reaches the output         *)
(* directory once nothing is being executed any more, and when no entry    *)
(* failed it holds the whole plan.  A run that failed to start its         *)
(* consumers publishes nothing, although entries may still complete.       *)
(***************************************************************************)
EXTENDS Naturals

CONSTANTS NumBlocks,   \* how many blocks the plan has, a number
          PlanLen      \* PlanLen[b]: how many entries block b has

VARIABLES done,        \* entries executed without an error
          failed,      \* entries whose execution returned an error
          outcome      \* what the caller and the output directory see

vars == <<done, failed, outcome>>

(* An entry is <<its block, its place in the block>>.                      *)
EntriesOf(b) == {b} \X (1 .. PlanLen[b])
Entries == UNION {EntriesOf(b) : b \in 1 .. NumBlocks}
EarlierBlocks(e) == {f \in Entries : f[1] < e[1]}

Outcomes == {"running", "published", "partial", "error"}

TypeOK ==
    /\ done \subseteq Entries
    /\ failed \subseteq Entries
    /\ outcome \in Outcomes

Init == done = {} /\ failed = {} /\ outcome = "running"

-----------------------------------------------------------------------------
Startable(e) ==
    /\ outcome \in {"running", "error"}
    /\ e \notin done \cup failed
    /\ EarlierBlocks(e) \subseteq done

Complete(e) ==
    /\ Startable(e)
    /\ done' = done \cup {e}
    /\ UNCHANGED <<failed, outcome>>

Fail(e) ==
    /\ Startable(e)
    /\ failed' = failed \cup {e}
    /\ UNCHANGED <<done, outcome>>

(* Blocks reach the output directory: all of them, or, when moving them    *)
(* breaks off, some.  Without a failed entry the plan was carried out.     *)
Publish(o) ==
    /\ outcome = "running"
    /\ failed = {} => done = Entries
    /\ outcome' = o
    /\ UNCHANGED <<done, failed>>

GiveUp ==
    /\ outcome = "running"
    /\ outcome' = "error"
    /\ UNCHANGED <<done, failed>>

Next ==
    \/ \E e \in Entries : Complete(e) \/ Fail(e)
    \/ \E o \in {"published", "partial"} : Publish(o)
    \/ GiveUp

Spec == Init /\ [][Next]_vars
=============================================================================
