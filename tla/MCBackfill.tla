----------------------------- MODULE MCBackfill -----------------------------
(* Two consumers, two chunks of one rule; matrices of up to three series   *)
(* of one or two points, so that a series runs out first, in the middle or *)
(* last.                                                                   *)
EXTENDS Backfill

MCChunks == 1 .. 2
=============================================================================
