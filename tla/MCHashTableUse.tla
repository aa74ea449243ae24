--------------------------- MODULE MCHashTableUse ----------------------------
(***************************************************************************)
(* Three keys on a ring of three slots: a and b collide at the last slot,  *)
(* so that the chain wraps, and c lives where b is pushed to.              *)
(***************************************************************************)
EXTENDS HashTableUse, TLC

CONSTANTS a, b, c, nil

MCKeys == {a, b, c}
MCHash == (a :> 2) @@ (b :> 5) @@ (c :> 3)
=============================================================================
