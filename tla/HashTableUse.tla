---------------------------- MODULE HashTableUse -----------------------------
(***************************************************************************)
(* The hash table with what its caller knows of it: the values it has ever *)
(* set for each key and the keys it has deleted and not set since.         *)
(***************************************************************************)
EXTENDS HashTable

VARIABLES written,   \* for each key, every value the caller set for it
          deleted    \* the keys whose last operation was ht_del

useVars == <<vars, written, deleted>>

UseInit == /\ Init
           /\ written = [k \in Keys |-> {}]
           /\ deleted = {}

UseSet(k, v) == /\ HtSet(k, v)
                /\ written' = [written EXCEPT ![k] = @ \cup {v}]
                /\ deleted' = deleted \ {k}

UseDel(k) == /\ HtDel(k)
             /\ deleted' = deleted \cup {k}
             /\ UNCHANGED written

UseFree == HtFree /\ UNCHANGED <<written, deleted>>

UseNext == \/ \E k \in Keys, v \in Vals : UseSet(k, v)
           \/ \E k \in Keys : UseDel(k)
           \/ UseFree

UseSpec == UseInit /\ [][UseNext]_useVars

-----------------------------------------------------------------------------
\* ht_get answers HT_MISSING or a value its caller once set for this very key,
\* whatever collisions, broken chains and reused slots there were.
OnlyOwnValues == \A k \in Keys : Found(k) # {} => HtGet(k) \in written[k]

\* ht_set makes the key visible with the value given, unless the key is not
\* found and every slot is taken, and then the table is unchanged: a call is
\* never lost while a slot is free.
SetVisible ==
    [][\A k \in Keys, v \in Vals :
         UseSet(k, v) =>
            \/ HtGet(k)' = v
            \/ /\ \A p \in Slots : Occupied(p)
               /\ HtGet(k) = Missing
               /\ UNCHANGED slots]_useVars

\* docs/stdlib.md on ht_del: "Remove `key` from the table."  A key that was
\* deleted and not set since is not in the table.
DeletedStaysDeleted == \A k \in deleted : HtGet(k) = Missing
=============================================================================
