------------------------------ MODULE MCChain ------------------------------
(***************************************************************************)
(* Chain.tla with small sets.  In MCOneWriter client w writes every key    *)
(* and client r only reads; in MCSharedKey both write every key.           *)
(***************************************************************************)
EXTENDS Chain, TLC

CONSTANTS w, r, k1, k2, v1, v2

MCOneWriter == (w :> Key) @@ (r :> {})
MCSharedKey == (w :> Key) @@ (r :> Key)
=============================================================================
