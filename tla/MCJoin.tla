------------------------------- MODULE MCJoin -------------------------------
(***************************************************************************)
(* Join.tla for TLC: a chain of two servers that a third one joins.        *)
(***************************************************************************)
EXTENDS Join, TLC

CONSTANTS k1, v1, v2
=============================================================================
