----------------------------- MODULE MCPlanner ------------------------------
(* Scaled-down units: ten milliseconds to the second and ten nanoseconds   *)
(* to the millisecond, blocks of eight seconds.  The intervals are one to  *)
(* three seconds, one that is not a whole second, one below a millisecond  *)
(* and none.  As in the real units (15 s: 15000 against 10^9), a second is *)
(* not a multiple of the step counted in nanoseconds.                      *)
EXTENDS PlanExecution

MCTimes == 0 .. 26
MCIntervals == {0, 5, 70, 100, 200, 300}
MCSampleTimes == {t \in 0 .. 265 : t % 7 = 0}
MCStaleTimes == {t \in MCSampleTimes : t % 21 = 0}

(* A late sample of the second block and a stale one; one or two NaN       *)
(* values at the start of a chunk of the grid of a second.                 *)
MCLateTimes == {84, 140}
MCNaNTimes == {40, 50}
=============================================================================
