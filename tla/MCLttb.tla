------------------------------- MODULE MCLttb -------------------------------
(* Every series of up to eight points, each 0, 2 or NaN, for every target. *)
EXTENDS Lttb

MCNumbers == {0, 2}
=============================================================================
