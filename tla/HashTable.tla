------------------------------ MODULE HashTable ------------------------------
(***************************************************************************)
(* The open-addressing hash map of std/hash.vex: a ring of Cap slots,      *)
(* linear probing from the key's home slot, no tombstones and no rehash.   *)
(* Every operation runs to completion on one thread, so each is one step.  *)
(*                                                                         *)
(* A key string is a member of Keys and _ht_fnv1a is the constant Hash:    *)
(* two keys may share a hash, which the code tells apart with str_eq.      *)
(* NoKey is the nil key pointer of an empty slot.  `bufs' counts the heap  *)
(* copies of keys that are malloc'ed and not yet freed.                    *)
(***************************************************************************)
EXTENDS Integers, FiniteSets

CONSTANTS Keys,     \* the key strings
          Vals,     \* the u64 values a caller stores
          Cap,      \* the capacity given to ht_new
          Hash,     \* the hash of every key (_ht_fnv1a)
          NoKey,    \* nil
          Missing   \* HT_MISSING, 0xffffffffffffffff

ASSUME CapAssumption  == Cap \in Nat \ {0}
ASSUME HashAssumption == Hash \in [Keys -> Nat]
ASSUME ValAssumption  == Vals \subseteq Nat /\ Missing \in Nat
ASSUME KeyAssumption  == NoKey \notin Keys

VARIABLES slots,    \* the HSlot array
          len,      \* HTable.len
          bufs,     \* live heap copies of keys
          live      \* FALSE once ht_free has returned

vars == <<slots, len, bufs, live>>

Slots  == 0 .. Cap - 1

\* Mutant: the loops stop one slot early.
ProbesShort == 0 .. Cap - 2

Probes == 0 .. Cap - 1
HSlot  == [key : Keys \cup {NoKey}, val : Vals \cup {0}, hash : Nat]
Empty  == [key |-> NoKey, val |-> 0, hash |-> 0]

(***************************************************************************)
(* Probing.  Iteration i of every loop looks at slot Pos(k, i); it leaves  *)
(* the loop at an empty slot or at the key, and after Cap slots otherwise. *)
(***************************************************************************)
Pos(k, i) == (Hash[k] + i) % Cap

\* Mutant: a slot with the same hash is taken for the key, without str_eq.
HoldsSameHash(p, k) == slots[p].key # NoKey /\ slots[p].hash = Hash[k]

Holds(p, k)   == slots[p].hash = Hash[k] /\ slots[p].key = k
Occupied(p)   == slots[p].key # NoKey
OccupiedSlots == {p \in Slots : Occupied(p)}

\* Mutant: ht_set takes the first empty slot without looking for the key.
StopsAtEmpty(k, i) == ~Occupied(Pos(k, i))

StopsAt(k, i) == ~Occupied(Pos(k, i)) \/ Holds(Pos(k, i), k)

EndsAt(k, i) == StopsAt(k, i) /\ \A j \in Probes : j < i => ~StopsAt(k, j)

\* The slots at which the probe for k finds k: at most one.
Found(k) == {p \in Slots : Holds(p, k) /\ \E i \in Probes : EndsAt(k, i) /\ Pos(k, i) = p}

HtGet(k) == IF Found(k) = {} THEN Missing ELSE slots[CHOOSE p \in Found(k) : TRUE].val
HtHas(k) == HtGet(k) # Missing

(***************************************************************************)
(* The operations that change the table.                                   *)
(***************************************************************************)
HtNew ==
    /\ slots = [p \in Slots |-> Empty]
    /\ len = 0
    /\ bufs = 0
    /\ live = TRUE

\* Mutant: the value and the hash are swapped.
InsertSwapped(k, v) ==
    \E i \in Probes :
        /\ EndsAt(k, i)
        /\ ~Occupied(Pos(k, i))
        /\ slots' = [slots EXCEPT ![Pos(k, i)] = [key |-> k, val |-> Hash[k], hash |-> v]]
        /\ len' = len + 1
        /\ bufs' = bufs + 1

\* Mutant: the key goes to the first free slot of the array.
InsertFirstFree(k, v) ==
    /\ \E i \in Probes : EndsAt(k, i) /\ ~Occupied(Pos(k, i))
    /\ \E p \in Slots \ OccupiedSlots :
        /\ 0 .. p - 1 \subseteq OccupiedSlots
        /\ slots' = [slots EXCEPT ![p] = [key |-> k, val |-> v, hash |-> Hash[k]]]
    /\ len' = len + 1
    /\ bufs' = bufs + 1

\* ht_set, the probe ends at an empty slot: the key is copied into it.
Insert(k, v) ==
    \E i \in Probes :
        /\ EndsAt(k, i)
        /\ ~Occupied(Pos(k, i))
        /\ slots' = [slots EXCEPT ![Pos(k, i)] = [key |-> k, val |-> v, hash |-> Hash[k]]]
        /\ len' = len + 1
        /\ bufs' = bufs + 1

\* Mutant: the value is written to the home slot.
OverwriteHome(k, v) ==
    /\ \E i \in Probes : EndsAt(k, i) /\ Holds(Pos(k, i), k)
    /\ slots' = [slots EXCEPT ![Pos(k, 0)].val = v]
    /\ UNCHANGED <<len, bufs>>

\* ht_set, the probe finds the key: only its value changes.
Overwrite(k, v) ==
    \E i \in Probes :
        /\ EndsAt(k, i)
        /\ Holds(Pos(k, i), k)
        /\ slots' = [slots EXCEPT ![Pos(k, i)].val = v]
        /\ UNCHANGED <<len, bufs>>

\* ht_set, the loop runs out of slots: the call returns and nothing is stored.
Drop(k) ==
    /\ \A i \in Probes : ~StopsAt(k, i)
    /\ UNCHANGED <<slots, len, bufs>>

HtSet(k, v) == /\ live
               /\ Insert(k, v) \/ Overwrite(k, v) \/ Drop(k)
               /\ UNCHANGED live

\* Mutant: the copy of the key is not freed.
RemoveLeaks(k) ==
    \E i \in Probes :
        /\ EndsAt(k, i)
        /\ Holds(Pos(k, i), k)
        /\ slots' = [slots EXCEPT ![Pos(k, i)] = Empty]
        /\ len' = len - 1
        /\ UNCHANGED bufs

\* ht_del, the probe finds the key: the copy is freed and the slot zeroed.
Remove(k) ==
    \E i \in Probes :
        /\ EndsAt(k, i)
        /\ Holds(Pos(k, i), k)
        /\ slots' = [slots EXCEPT ![Pos(k, i)] = Empty]
        /\ len' = len - 1
        /\ bufs' = bufs - 1

\* ht_del, the probe ends at an empty slot or runs out: nothing happens.
DelAbsent(k) == /\ Found(k) = {}
                /\ UNCHANGED <<slots, len, bufs>>

HtDel(k) == /\ live
            /\ Remove(k) \/ DelAbsent(k)
            /\ UNCHANGED live

\* ht_free: every key copy, the slot array and the table are freed.
HtFree ==
    /\ live
    /\ live' = FALSE
    /\ bufs' = bufs - Cardinality(OccupiedSlots)
    /\ UNCHANGED <<slots, len>>

Init == HtNew

Next == \/ \E k \in Keys, v \in Vals : HtSet(k, v)
        \/ \E k \in Keys : HtDel(k)
        \/ HtFree

Spec == Init /\ [][Next]_vars

(***************************************************************************)
(* A caller that heeds the note on ht_del: it deletes a key only when no   *)
(* other stored key was probed past the slot that is emptied.              *)
(***************************************************************************)
ProbedPast(p, q) ==
    LET k == slots[q].key IN
    \E i, j \in Probes : j < i /\ Pos(k, i) = q /\ Pos(k, j) = p

EndsAChain(k) == \A p \in Found(k), q \in Slots : (Occupied(q) /\ q # p) => ~ProbedPast(p, q)

SafeDel(k) == EndsAChain(k) /\ HtDel(k)

SafeNext == \/ \E k \in Keys, v \in Vals : HtSet(k, v)
            \/ \E k \in Keys : SafeDel(k)
            \/ HtFree

SafeSpec == Init /\ [][SafeNext]_vars

-----------------------------------------------------------------------------
(***************************************************************************)
(* Properties of every caller.                                             *)
(***************************************************************************)
\* The table, its counters and its flag have their types.
TypeOK ==
    /\ slots \in [Slots -> HSlot]
    /\ len \in Int
    /\ bufs \in Int
    /\ live \in BOOLEAN

\* HTable.len is the number of occupied slots and each of them owns one live
\* heap copy of its key; after ht_free no copy is left, however keys were
\* lost, duplicated or deleted before.
LenExact ==
    /\ len = Cardinality(OccupiedSlots)
    /\ bufs = IF live THEN Cardinality(OccupiedSlots) ELSE 0

\* An operation on one key may hide another key (a delete that cuts its chain)
\* or show it again (an insert that fills the hole), but a value that is seen
\* before and after a step only differs when the step is an ht_set of that key.
OthersKeepValue ==
    [][\A k \in Keys :
         (Found(k) # {} /\ Found(k)' # {} /\ HtGet(k)' # HtGet(k))
            => \E v \in Vals : HtSet(k, v)]_vars

(***************************************************************************)
(* Properties of a caller that only deletes at the end of a chain.         *)
(***************************************************************************)
\* Every key in the table is found by its own probe: no hole cuts its chain
\* and no second copy of it comes first.
ChainsIntact ==
    \A p \in Slots : Occupied(p) =>
        \E i \in Probes : Pos(slots[p].key, i) = p /\ EndsAt(slots[p].key, i)

\* No key occupies two slots.
NoDuplicates ==
    \A p, q \in Slots : (Occupied(p) /\ slots[p].key = slots[q].key) => p = q

\* ht_has answers whether the key is in the table, when the caller never
\* stores HT_MISSING as a value.
HasIffStored == \A k \in Keys : HtHas(k) <=> \E p \in Slots : slots[p].key = k

\* What the table stores, as a map from keys to values.
Stored == [k \in {x \in Keys : Found(x) # {}} |-> HtGet(k)]

Map == INSTANCE KVMap WITH store <- IF live THEN Stored ELSE << >>, open <- live

\* The table implements the bounded map.
ImplementsMap == Map!Spec
=============================================================================
