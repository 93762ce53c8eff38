----------------------------- MODULE MCFraming ------------------------------
(***************************************************************************)
(* Framing.tla with shorts of three bits: messages of 1 to 3 bytes fit, 5  *)
(* has a negative length, 8 the length 0 and 9 the length 1.               *)
(***************************************************************************)
EXTENDS Framing, TLC
=============================================================================
