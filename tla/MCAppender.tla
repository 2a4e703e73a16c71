----------------------------- MODULE MCAppender -----------------------------
(* Timestamps up to four windows of length 2: a sample may be in the       *)
(* window, in the next one, or several windows ahead.  Two samples fill    *)
(* the memory.                                                             *)
EXTENDS Appender

MCTimestamps == 0 .. 8
=============================================================================
