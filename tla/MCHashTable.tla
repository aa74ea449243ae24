----------------------------- MODULE MCHashTable -----------------------------
(***************************************************************************)
(* One key more than there are slots, homes that collide (a, b, c at 2),   *)
(* two keys with the same hash (a, c) and a chain that wraps (b, then 0).  *)
(***************************************************************************)
EXTENDS HashTable, TLC

CONSTANTS a, b, c, d, nil

MCKeys == {a, b, c, d}
MCHash == (a :> 2) @@ (b :> 5) @@ (c :> 2) @@ (d :> 3)
=============================================================================
