--------------------------- MODULE MCRemoteQuery ----------------------------
(* Two queries that share a pool of two queriers.  The first has up to two *)
(* chunks, so that it may have to wait for a querier and that one of its   *)
(* chunks may fail while the other is in flight.                           *)
EXTENDS RemoteQuery, TLC

CONSTANTS r1, r2

MCMaxChunks == r1 :> 2 @@ r2 :> 1
=============================================================================
