---------------------------- MODULE MCMembership ----------------------------
(***************************************************************************)
(* Membership.tla for TLC.                                                 *)
(***************************************************************************)
EXTENDS Membership, TLC
=============================================================================
