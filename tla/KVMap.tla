-------------------------------- MODULE KVMap --------------------------------
(***************************************************************************)
(* What std/hash.vex promises: a map from keys to values that holds at     *)
(* most Cap keys.  A set of a new key when the map holds Cap keys is lost. *)
(***************************************************************************)
EXTENDS Integers, FiniteSets, Functions

CONSTANTS Keys, Vals, Cap

VARIABLES store,   \* a function from the keys in the map to their values
          open     \* FALSE once the map has been freed

vars == <<store, open>>

Init == store = << >> /\ open = TRUE

Set(k, v) ==
    /\ open
    /\ k \in DOMAIN store \/ Cardinality(DOMAIN store) < Cap
    /\ store' = [x \in DOMAIN store \cup {k} |-> IF x = k THEN v ELSE store[x]]
    /\ UNCHANGED open

Del(k) ==
    /\ open
    /\ store' = Restrict(store, DOMAIN store \ {k})
    /\ UNCHANGED open

Free == open /\ open' = FALSE /\ store' = << >>

Next == \/ \E k \in Keys, v \in Vals : Set(k, v)
        \/ \E k \in Keys : Del(k)
        \/ Free

Spec == Init /\ [][Next]_vars
=============================================================================
