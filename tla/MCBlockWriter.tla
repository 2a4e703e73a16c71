--------------------------- MODULE MCBlockWriter ----------------------------
(* Small instances of BlockWriter.  The plan has a block without entries   *)
(* between two others (a generator may return none) and a block with more  *)
(* entries than there are consumers.                                       *)
EXTENDS BlockWriter

MCPlanLen == <<2, 0, 3>>
=============================================================================
