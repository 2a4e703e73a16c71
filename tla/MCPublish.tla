----------------------------- MODULE MCPublish ------------------------------
(* Instances of Publish; the cfg files give the numbers.                   *)
EXTENDS Publish
=============================================================================
