--------------------------- MODULE MCAlertReplay ----------------------------
(* A range of five times, and one that ends before it starts; rules that    *)
(* fire at once, after one and after two intervals.                        *)
EXTENDS AlertReplay

MCEnds == {-1, 4}
MCIntervals == {1, 2, 3}
MCHoldDurations == {0, 1, 2}
MCLimits == {0, 1}
=============================================================================
