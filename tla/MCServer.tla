------------------------------ MODULE MCServer ------------------------------
(***************************************************************************)
(* Server.tla with two connections.  The two threads of a race, the merge  *)
(* and the shutdown are all there with two requests in all.                *)
(***************************************************************************)
EXTENDS Server, TLC

CONSTANTS k1, k2
=============================================================================
