------------------------------ MODULE MCTable ------------------------------
(***************************************************************************)
(* Table.tla with two rows and five keys: three share row 0, so that lists *)
(* of size 0, 1, 2 and 3 receive entries at the front, in the middle and   *)
(* at the end; one is alone in row 1; and the characters of key 3 sum to   *)
(* -1, as those of a key with bytes above 0x7f may.                        *)
(***************************************************************************)
EXTENDS Table

CONSTANTS v1, v2

MCKey == {0, 1, 2, 3, 4}
MCValue == {v1, v2}
MCKeySum == (0 :> 2) @@ (1 :> 4) @@ (2 :> 5) @@ (3 :> -1) @@ (4 :> -2)
=============================================================================
