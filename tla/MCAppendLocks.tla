--------------------------- MODULE MCAppendLocks ---------------------------
(* Instances of AppendLocks; the cfg files give the numbers.               *)
EXTENDS AppendLocks
=============================================================================
