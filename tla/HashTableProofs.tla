--------------------------- MODULE HashTableProofs ---------------------------
(***************************************************************************)
(* Theorems of HashTable and HashTableUse, for every set of keys and       *)
(* values, every capacity and every hash function.                         *)
(***************************************************************************)
EXTENDS HashTableUse, FiniteSetTheorems, TLAPS

-----------------------------------------------------------------------------
(***************************************************************************)
(* Arithmetic of the ring.                                                 *)
(***************************************************************************)
\* A probe position is a slot: `idx = h % cap' and `idx = (idx + 1) % cap'
\* never leave the array.
LEMMA PosType ==
    ASSUME NEW k \in Keys, NEW i \in Probes
    PROVE  Pos(k, i) \in Slots
<1>1. Hash[k] + i \in Nat
  BY HashAssumption, CapAssumption DEF Probes
<1>2. QED
  BY <1>1, CapAssumption DEF Pos, Slots

\* A probe has one end.
LEMMA EndUnique ==
    ASSUME NEW k \in Keys, NEW i \in Probes, NEW j \in Probes,
           EndsAt(k, i), EndsAt(k, j)
    PROVE  i = j
BY CapAssumption DEF EndsAt, Probes

-----------------------------------------------------------------------------
(***************************************************************************)
(* Types, for every caller.                                                *)
(***************************************************************************)
\* There are Cap slots.
LEMMA SlotsFinite == IsFiniteSet(Slots) /\ Cardinality(Slots) = Cap
BY CapAssumption, FS_Interval DEF Slots

\* The occupied slots can be counted.
LEMMA OccupiedFinite == IsFiniteSet(OccupiedSlots)
<1>1. OccupiedSlots \subseteq Slots
  BY DEF OccupiedSlots
<1>2. QED
  BY <1>1, SlotsFinite, FS_Subset

\* ht_new gives the fields their types.
LEMMA InitType == Init => TypeOK
BY KeyAssumption DEF Init, HtNew, TypeOK, Empty, HSlot

\* ht_set into an empty slot keeps the types.
LEMMA InsertType ==
    ASSUME TypeOK, NEW k \in Keys, NEW v \in Vals, Insert(k, v)
    PROVE  slots' \in [Slots -> HSlot] /\ len' \in Int /\ bufs' \in Int
<1>1. PICK i \in Probes : slots' = [slots EXCEPT ![Pos(k, i)] =
                                        [key |-> k, val |-> v, hash |-> Hash[k]]]
  BY DEF Insert
<1>2. [key |-> k, val |-> v, hash |-> Hash[k]] \in HSlot
  BY HashAssumption, ValAssumption DEF HSlot
<1>3. len' \in Int /\ bufs' \in Int
  BY DEF Insert, TypeOK
<1>4. QED
  BY <1>1, <1>2, <1>3, PosType DEF TypeOK

\* ht_set of a stored key keeps the types.
LEMMA OverwriteType ==
    ASSUME TypeOK, NEW k \in Keys, NEW v \in Vals, Overwrite(k, v)
    PROVE  slots' \in [Slots -> HSlot] /\ len' \in Int /\ bufs' \in Int
<1>1. PICK i \in Probes : slots' = [slots EXCEPT ![Pos(k, i)].val = v]
  BY DEF Overwrite
<1>2. [slots[Pos(k, i)] EXCEPT !.val = v] \in HSlot
  BY ValAssumption, PosType DEF HSlot, TypeOK
<1>3. slots' \in [Slots -> HSlot]
  BY <1>1, <1>2, PosType DEF TypeOK
<1>4. QED
  BY <1>3 DEF Overwrite, TypeOK

\* ht_del of a stored key keeps the types.
LEMMA RemoveType ==
    ASSUME TypeOK, NEW k \in Keys, Remove(k)
    PROVE  slots' \in [Slots -> HSlot] /\ len' \in Int /\ bufs' \in Int
<1>1. PICK i \in Probes : slots' = [slots EXCEPT ![Pos(k, i)] = Empty]
  BY DEF Remove
<1>2. Empty \in HSlot
  BY DEF Empty, HSlot
<1>3. len' \in Int /\ bufs' \in Int
  BY DEF Remove, TypeOK
<1>4. QED
  BY <1>1, <1>2, <1>3, PosType DEF TypeOK

\* Every operation keeps the types.
LEMMA NextType == TypeOK /\ [Next]_vars => TypeOK'
<1> SUFFICES ASSUME TypeOK, [Next]_vars PROVE TypeOK'
  OBVIOUS
<1>1. ASSUME NEW k \in Keys, NEW v \in Vals, HtSet(k, v) PROVE TypeOK'
  <2>1. CASE Insert(k, v)
    BY <1>1, <2>1, InsertType DEF HtSet, TypeOK
  <2>2. CASE Overwrite(k, v)
    BY <1>1, <2>2, OverwriteType DEF HtSet, TypeOK
  <2>3. CASE Drop(k)
    BY <1>1, <2>3 DEF HtSet, Drop, TypeOK
  <2>4. QED
    BY <1>1, <2>1, <2>2, <2>3 DEF HtSet
<1>2. ASSUME NEW k \in Keys, HtDel(k) PROVE TypeOK'
  <2>1. CASE Remove(k)
    BY <1>2, <2>1, RemoveType DEF HtDel, TypeOK
  <2>2. CASE DelAbsent(k)
    BY <1>2, <2>2 DEF HtDel, DelAbsent, TypeOK
  <2>3. QED
    BY <1>2, <2>1, <2>2 DEF HtDel
<1>3. ASSUME HtFree PROVE TypeOK'
  <2>1. Cardinality(OccupiedSlots) \in Nat
    BY OccupiedFinite, FS_CardinalityType
  <2>2. bufs' \in Int
    BY <1>3, <2>1 DEF HtFree, TypeOK
  <2>3. QED
    BY <1>3, <2>2 DEF HtFree, TypeOK
<1>4. CASE UNCHANGED vars
  BY <1>4 DEF vars, TypeOK
<1>5. QED
  BY <1>1, <1>2, <1>3, <1>4 DEF Next

\* The slot array, its counters and its flag keep their types for every caller.
THEOREM TypeCorrect == Spec => []TypeOK
<1>1. QED
  BY InitType, NextType, PTL DEF Spec

-----------------------------------------------------------------------------
(***************************************************************************)
(* What one operation does to the set of occupied slots.                   *)
(***************************************************************************)
\* ht_set into an empty slot occupies one slot more.
LEMMA InsertOccupies ==
    ASSUME TypeOK, NEW k \in Keys, NEW v \in Vals, Insert(k, v)
    PROVE  \E p \in Slots : p \notin OccupiedSlots
                            /\ OccupiedSlots' = OccupiedSlots \cup {p}
<1>1. PICK i \in Probes :
         /\ ~Occupied(Pos(k, i))
         /\ slots' = [slots EXCEPT ![Pos(k, i)] = [key |-> k, val |-> v, hash |-> Hash[k]]]
  BY DEF Insert
<1>2. \A q \in Slots : slots'[q] = IF q = Pos(k, i)
                                     THEN [key |-> k, val |-> v, hash |-> Hash[k]]
                                     ELSE slots[q]
  BY <1>1 DEF TypeOK
<1>3. OccupiedSlots' = OccupiedSlots \cup {Pos(k, i)}
  BY <1>2, PosType, KeyAssumption DEF OccupiedSlots, Occupied
<1>4. QED
  BY <1>1, <1>3, PosType DEF OccupiedSlots

\* ht_set of a stored key leaves every key and hash where it is.
LEMMA OverwriteOccupies ==
    ASSUME TypeOK, NEW k \in Keys, NEW v \in Vals, Overwrite(k, v)
    PROVE  \A q \in Slots : slots'[q].key = slots[q].key /\ slots'[q].hash = slots[q].hash
<1>1. PICK i \in Probes : slots' = [slots EXCEPT ![Pos(k, i)].val = v]
  BY DEF Overwrite
<1>2. \A q \in Slots : slots[q] \in HSlot
  BY DEF TypeOK
<1>3. QED
  BY <1>1, <1>2, PosType DEF TypeOK, HSlot

\* ht_del of a stored key empties one slot.
LEMMA RemoveOccupies ==
    ASSUME TypeOK, NEW k \in Keys, Remove(k)
    PROVE  \E p \in OccupiedSlots : OccupiedSlots' = OccupiedSlots \ {p}
<1>1. PICK i \in Probes : /\ Holds(Pos(k, i), k)
                          /\ slots' = [slots EXCEPT ![Pos(k, i)] = Empty]
  BY DEF Remove
<1>2. \A q \in Slots : slots'[q] = IF q = Pos(k, i) THEN Empty ELSE slots[q]
  BY <1>1 DEF TypeOK
<1>3. OccupiedSlots' = OccupiedSlots \ {Pos(k, i)}
  BY <1>2, PosType DEF OccupiedSlots, Occupied, Empty
<1>4. Pos(k, i) \in OccupiedSlots
  BY <1>1, PosType, KeyAssumption DEF OccupiedSlots, Occupied, Holds
<1>5. QED
  BY <1>3, <1>4

-----------------------------------------------------------------------------
(***************************************************************************)
(* The counters.                                                           *)
(***************************************************************************)
\* The counters of a new table.
LEMMA InitLen == Init => LenExact
<1> SUFFICES ASSUME Init PROVE LenExact
  OBVIOUS
<1>1. OccupiedSlots = {}
  BY DEF Init, HtNew, OccupiedSlots, Occupied, Empty
<1>2. QED
  BY <1>1, FS_EmptySet DEF Init, HtNew, LenExact

\* Every operation keeps the counters.
LEMMA NextLen == TypeOK /\ LenExact /\ [Next]_vars => LenExact'
<1> SUFFICES ASSUME TypeOK, LenExact, [Next]_vars PROVE LenExact'
  OBVIOUS
<1>0. Cardinality(OccupiedSlots) \in Nat
  BY OccupiedFinite, FS_CardinalityType
<1>1. ASSUME NEW k \in Keys, NEW v \in Vals, HtSet(k, v) PROVE LenExact'
  <2>0. live /\ live'
    BY <1>1 DEF HtSet, TypeOK
  <2>1. CASE Insert(k, v)
    <3>1. PICK p \in Slots : p \notin OccupiedSlots
                             /\ OccupiedSlots' = OccupiedSlots \cup {p}
      BY <2>1, InsertOccupies
    <3>2. Cardinality(OccupiedSlots') = Cardinality(OccupiedSlots) + 1
      BY <3>1, OccupiedFinite, FS_AddElement
    <3>3. QED
      BY <2>0, <2>1, <3>2 DEF Insert, LenExact
  <2>2. CASE Overwrite(k, v)
    <3>1. OccupiedSlots' = OccupiedSlots
      BY <2>2, OverwriteOccupies DEF OccupiedSlots, Occupied
    <3>2. QED
      BY <2>0, <2>2, <3>1 DEF Overwrite, LenExact
  <2>3. CASE Drop(k)
    BY <2>0, <2>3 DEF Drop, LenExact, OccupiedSlots, Occupied
  <2>4. QED
    BY <1>1, <2>1, <2>2, <2>3 DEF HtSet
<1>2. ASSUME NEW k \in Keys, HtDel(k) PROVE LenExact'
  <2>0. live /\ live'
    BY <1>2 DEF HtDel, TypeOK
  <2>1. CASE Remove(k)
    <3>1. PICK p \in OccupiedSlots : OccupiedSlots' = OccupiedSlots \ {p}
      BY <2>1, RemoveOccupies
    <3>2. Cardinality(OccupiedSlots') = Cardinality(OccupiedSlots) - 1
      BY <3>1, OccupiedFinite, FS_RemoveElement
    <3>3. QED
      BY <2>0, <2>1, <3>2 DEF Remove, LenExact
  <2>2. CASE DelAbsent(k)
    BY <2>0, <2>2 DEF DelAbsent, LenExact, OccupiedSlots, Occupied
  <2>3. QED
    BY <1>2, <2>1, <2>2 DEF HtDel
<1>3. ASSUME HtFree PROVE LenExact'
  <2>1. OccupiedSlots' = OccupiedSlots
    BY <1>3 DEF HtFree, OccupiedSlots, Occupied
  <2>2. bufs = Cardinality(OccupiedSlots)
    BY <1>3 DEF HtFree, LenExact
  <2>3. QED
    BY <1>0, <1>3, <2>1, <2>2 DEF HtFree, LenExact
<1>4. CASE UNCHANGED vars
  BY <1>4 DEF vars, LenExact, OccupiedSlots, Occupied
<1>5. QED
  BY <1>1, <1>2, <1>3, <1>4 DEF Next

\* For every caller, len is the number of occupied slots, each of them owns one
\* heap copy of its key and ht_free leaves none (ht_set, ht_del, ht_free).
THEOREM LenCorrect == Spec => []LenExact
<1>1. QED
  BY InitType, NextType, InitLen, NextLen, PTL DEF Spec

-----------------------------------------------------------------------------
(***************************************************************************)
(* Chains, for a caller that deletes only at the end of a chain.           *)
(***************************************************************************)
\* The careful caller is a caller.
LEMMA SafeIsNext == [SafeNext]_vars => [Next]_vars
BY DEF SafeNext, SafeDel, Next

\* A new table has no chains.
LEMMA InitChains == Init => ChainsIntact
BY DEF Init, HtNew, ChainsIntact, Occupied, Empty

\* A probe that crosses no changed slot, and whose own slot keeps its key,
\* ends where it ended.
LEMMA ProbeKept ==
    ASSUME TypeOK, TypeOK', NEW k \in Keys, NEW i \in Probes, EndsAt(k, i),
           \A j \in Probes : j <= i =>
              /\ slots'[Pos(k, j)].key = slots[Pos(k, j)].key
              /\ slots'[Pos(k, j)].hash = slots[Pos(k, j)].hash
    PROVE  EndsAt(k, i)'
<1>1. \A j \in Probes : j <= i => (StopsAt(k, j)' <=> StopsAt(k, j))
  BY DEF StopsAt, Holds, Occupied, Pos
<1>2. QED
  BY <1>1, CapAssumption DEF EndsAt, Probes

\* ht_set into an empty slot: the new key ends its own probe, and no other probe
\* went past that slot.
LEMMA InsertChains ==
    ASSUME TypeOK, TypeOK', ChainsIntact,
           NEW k \in Keys, NEW v \in Vals, Insert(k, v)
    PROVE  ChainsIntact'
<1>1. PICK i \in Probes :
         /\ EndsAt(k, i)
         /\ ~Occupied(Pos(k, i))
         /\ slots' = [slots EXCEPT ![Pos(k, i)] = [key |-> k, val |-> v, hash |-> Hash[k]]]
  BY DEF Insert
<1> DEFINE p == Pos(k, i)
<1>2. p \in Slots
  BY PosType
<1>3. \A q \in Slots : q # p => slots'[q] = slots[q]
  BY <1>1 DEF TypeOK
<1>4. slots'[p].key = k /\ slots'[p].hash = Hash[k]
  BY <1>1, <1>2 DEF TypeOK
<1>5. EndsAt(k, i)'
  <2>1. \A j \in Probes : j < i => ~StopsAt(k, j)'
    <3> SUFFICES ASSUME NEW j \in Probes, j < i PROVE ~StopsAt(k, j)'
      OBVIOUS
    <3>1. ~StopsAt(k, j)
      BY <1>1 DEF EndsAt
    <3>2. Pos(k, j) # p
      BY <1>1, <3>1 DEF StopsAt
    <3>3. slots'[Pos(k, j)] = slots[Pos(k, j)]
      BY <1>3, <3>2, PosType
    <3>4. QED
      BY <3>1, <3>3 DEF StopsAt, Holds, Occupied, Pos
  <2>2. StopsAt(k, i)'
    BY <1>4 DEF StopsAt, Holds, Pos
  <2>3. QED
    BY <2>1, <2>2 DEF EndsAt
<1>6. ASSUME NEW q \in Slots, Occupied(q)', q # p
      PROVE  \E m \in Probes : (Pos(slots[q].key, m) = q /\ EndsAt(slots[q].key, m))'
  <2>1. Occupied(q) /\ slots'[q] = slots[q]
    BY <1>3, <1>6 DEF Occupied
  <2>2. PICK o \in Keys : o = slots[q].key /\ o = slots'[q].key
    BY <2>1 DEF TypeOK, HSlot, Occupied
  <2>3. PICK m \in Probes : Pos(o, m) = q /\ EndsAt(o, m)
    BY <2>1, <2>2 DEF ChainsIntact
  <2>4. \A j \in Probes : j <= m => Pos(o, j) # p
    <3> SUFFICES ASSUME NEW j \in Probes, j <= m, Pos(o, j) = p PROVE FALSE
      OBVIOUS
    <3>1. StopsAt(o, j)
      BY <1>1 DEF StopsAt
    <3>2. j = m
      BY <2>3, <3>1, CapAssumption DEF EndsAt, Probes
    <3>3. QED
      BY <1>6, <2>3, <3>2
  <2>5. \A j \in Probes : j <= m => slots'[Pos(o, j)] = slots[Pos(o, j)]
    BY <1>3, <2>2, <2>4, PosType
  <2>6. EndsAt(o, m)'
    BY <2>3, <2>5, ProbeKept
  <2>7. QED
    BY <2>2, <2>3, <2>6 DEF Pos
<1>7. ASSUME NEW q \in Slots, Occupied(q)'
      PROVE  \E m \in Probes : (Pos(slots[q].key, m) = q /\ EndsAt(slots[q].key, m))'
  <2>1. CASE q = p
    <3>1. slots'[q].key = k
      BY <1>4, <2>1
    <3>2. Pos(slots'[q].key, i) = q
      BY <3>1, <2>1
    <3>3. QED
      BY <1>5, <3>1, <3>2 DEF Pos
  <2>2. CASE q # p
    BY <1>6, <1>7, <2>2
  <2>3. QED
    BY <2>1, <2>2
<1>8. QED
  BY <1>7 DEF ChainsIntact

\* A step that changes no key keeps every chain.
LEMMA SameKeysChains ==
    ASSUME TypeOK, TypeOK', ChainsIntact,
           \A q \in Slots : slots'[q].key = slots[q].key /\ slots'[q].hash = slots[q].hash
    PROVE  ChainsIntact'
<1>1. ASSUME NEW q \in Slots, Occupied(q)'
      PROVE  \E m \in Probes : (Pos(slots[q].key, m) = q /\ EndsAt(slots[q].key, m))'
  <2>1. PICK o \in Keys : o = slots[q].key /\ o = slots'[q].key
    BY <1>1 DEF TypeOK, HSlot, Occupied
  <2>2. PICK m \in Probes : Pos(o, m) = q /\ EndsAt(o, m)
    BY <1>1, <2>1 DEF ChainsIntact, Occupied
  <2>3. EndsAt(o, m)'
    BY <2>2, ProbeKept, PosType
  <2>4. QED
    BY <2>1, <2>2, <2>3 DEF Pos
<1>2. QED
  BY <1>1 DEF ChainsIntact

\* ht_del at the end of a chain: no other probe crosses the emptied slot.
LEMMA RemoveChains ==
    ASSUME TypeOK, TypeOK', ChainsIntact,
           NEW k \in Keys, EndsAChain(k), Remove(k)
    PROVE  ChainsIntact'
<1>1. PICK i \in Probes :
         /\ EndsAt(k, i)
         /\ Holds(Pos(k, i), k)
         /\ slots' = [slots EXCEPT ![Pos(k, i)] = Empty]
  BY DEF Remove
<1> DEFINE p == Pos(k, i)
<1>2. p \in Slots /\ p \in Found(k)
  BY <1>1, PosType DEF Found
<1>3. /\ \A q \in Slots : q # p => slots'[q] = slots[q]
      /\ slots'[p].key = NoKey
  BY <1>1, <1>2 DEF TypeOK, Empty
<1>4. ASSUME NEW q \in Slots, Occupied(q)'
      PROVE  \E m \in Probes : (Pos(slots[q].key, m) = q /\ EndsAt(slots[q].key, m))'
  <2>1. q # p /\ Occupied(q) /\ slots'[q] = slots[q]
    BY <1>3, <1>4 DEF Occupied
  <2>2. PICK o \in Keys : o = slots[q].key /\ o = slots'[q].key
    BY <2>1 DEF TypeOK, HSlot, Occupied
  <2>3. PICK m \in Probes : Pos(o, m) = q /\ EndsAt(o, m)
    BY <2>1, <2>2 DEF ChainsIntact
  <2>4. \A j \in Probes : j <= m => Pos(o, j) # p
    <3>1. ~ProbedPast(p, q)
      BY <1>2, <2>1 DEF EndsAChain
    <3>2. \A j \in Probes : j < m => Pos(o, j) # p
      BY <2>2, <2>3, <3>1 DEF ProbedPast
    <3>3. QED
      BY <2>1, <2>3, <3>2, CapAssumption DEF Probes
  <2>5. \A j \in Probes : j <= m => slots'[Pos(o, j)] = slots[Pos(o, j)]
    BY <1>3, <2>4, PosType
  <2>6. EndsAt(o, m)'
    BY <2>3, <2>5, ProbeKept
  <2>7. QED
    BY <2>2, <2>3, <2>6 DEF Pos
<1>5. QED
  BY <1>4 DEF ChainsIntact

\* Every operation of the careful caller keeps the chains.
LEMMA NextChains ==
    TypeOK /\ TypeOK' /\ ChainsIntact /\ [SafeNext]_vars => ChainsIntact'
<1> SUFFICES ASSUME TypeOK, TypeOK', ChainsIntact, [SafeNext]_vars PROVE ChainsIntact'
  OBVIOUS
<1>1. ASSUME NEW k \in Keys, NEW v \in Vals, HtSet(k, v) PROVE ChainsIntact'
  <2>1. CASE Insert(k, v)
    BY <2>1, InsertChains
  <2>2. CASE Overwrite(k, v)
    BY <2>2, OverwriteOccupies, SameKeysChains
  <2>3. CASE Drop(k)
    BY <2>3, SameKeysChains DEF Drop
  <2>4. QED
    BY <1>1, <2>1, <2>2, <2>3 DEF HtSet
<1>2. ASSUME NEW k \in Keys, SafeDel(k) PROVE ChainsIntact'
  <2>1. CASE Remove(k)
    BY <1>2, <2>1, RemoveChains DEF SafeDel
  <2>2. CASE DelAbsent(k)
    BY <2>2, SameKeysChains DEF DelAbsent
  <2>3. QED
    BY <1>2, <2>1, <2>2 DEF SafeDel, HtDel
<1>3. CASE HtFree
  BY <1>3, SameKeysChains DEF HtFree
<1>4. CASE UNCHANGED vars
  BY <1>4, SameKeysChains DEF vars
<1>5. QED
  BY <1>1, <1>2, <1>3, <1>4 DEF SafeNext

\* As long as no delete empties a slot that another stored key was probed past,
\* every key in the table is found by its own probe (ht_set, ht_get, ht_del).
THEOREM ChainsCorrect == SafeSpec => []ChainsIntact
<1>1. Init => TypeOK /\ ChainsIntact
  BY InitType, InitChains
<1>2. TypeOK /\ ChainsIntact /\ [SafeNext]_vars => (TypeOK /\ ChainsIntact)'
  BY SafeIsNext, NextType, NextChains
<1>3. QED
  BY <1>1, <1>2, PTL DEF SafeSpec

\* A probe has one end, so intact chains leave no room for a second copy.
LEMMA ChainsNoDuplicates == TypeOK /\ ChainsIntact => NoDuplicates
<1> SUFFICES ASSUME TypeOK, ChainsIntact, NEW p \in Slots, NEW q \in Slots,
                    Occupied(p), slots[p].key = slots[q].key
             PROVE  p = q
  BY DEF NoDuplicates
<1>1. Occupied(q)
  BY DEF Occupied
<1>2. PICK k \in Keys : k = slots[p].key
  BY DEF TypeOK, HSlot, Occupied
<1>3. PICK i \in Probes : Pos(k, i) = p /\ EndsAt(k, i)
  BY <1>2 DEF ChainsIntact
<1>4. PICK j \in Probes : Pos(k, j) = q /\ EndsAt(k, j)
  BY <1>1, <1>2 DEF ChainsIntact
<1>5. QED
  BY <1>3, <1>4, EndUnique

\* The same caller never sees a key stored twice.
THEOREM NoDuplicatesCorrect == SafeSpec => []NoDuplicates
<1>1. Init => TypeOK /\ ChainsIntact
  BY InitType, InitChains
<1>2. TypeOK /\ ChainsIntact /\ [SafeNext]_vars => (TypeOK /\ ChainsIntact)'
  BY SafeIsNext, NextType, NextChains
<1>3. QED
  BY <1>1, <1>2, ChainsNoDuplicates, PTL DEF SafeSpec

-----------------------------------------------------------------------------
(***************************************************************************)
(* What ht_get and ht_has answer.                                          *)
(***************************************************************************)
\* A number of the form q * c + p leaves p when divided by c.
LEMMA Remainder ==
    ASSUME NEW c \in Nat \ {0}, NEW q \in Int, NEW p \in 0 .. c - 1
    PROVE  (q * c + p) % c = p
BY Z3

\* Quotient and remainder of a division.
LEMMA Division ==
    ASSUME NEW c \in Nat \ {0}, NEW h \in Nat
    PROVE  /\ h = (h \div c) * c + (h % c)
           /\ h % c \in 0 .. c - 1
           /\ h \div c \in Int
BY Z3

\* A probe that goes on for Cap steps visits every slot.
LEMMA ProbesCover ==
    ASSUME NEW k \in Keys, NEW p \in Slots
    PROVE  \E i \in Probes : Pos(k, i) = p
<1> DEFINE h == Hash[k]
           q == h \div Cap
           r == h % Cap
<1>1. h \in Nat
  BY HashAssumption
<1>2. h = q * Cap + r /\ r \in 0 .. Cap - 1 /\ q \in Int
  BY <1>1, CapAssumption, Division
<1>3. CASE r <= p
  <2>1. p - r \in Probes
    BY <1>2, <1>3, CapAssumption DEF Probes, Slots
  <2>2. h + (p - r) = q * Cap + p
    BY <1>2, CapAssumption DEF Slots
  <2>3. (q * Cap + p) % Cap = p
    BY <1>2, CapAssumption, Remainder DEF Slots
  <2>4. QED
    BY <2>1, <2>2, <2>3 DEF Pos
<1>4. CASE r > p
  <2>1. p - r + Cap \in Probes
    BY <1>2, <1>4, CapAssumption DEF Probes, Slots
  <2>2. h + (p - r + Cap) = (q + 1) * Cap + p
    BY <1>2, CapAssumption DEF Slots
  <2>3. ((q + 1) * Cap + p) % Cap = p
    <3>1. q + 1 \in Int
      BY <1>2
    <3> HIDE DEF q
    <3>2. QED
      BY <3>1, CapAssumption, Remainder DEF Slots
  <2>4. QED
    BY <2>1, <2>2, <2>3 DEF Pos
<1>5. QED
  BY <1>2, <1>3, <1>4, CapAssumption DEF Slots

\* What a probe that ends at a slot which holds the key makes ht_get answer.
LEMMA FoundAt ==
    ASSUME NEW k \in Keys, NEW i \in Probes, EndsAt(k, i), Holds(Pos(k, i), k)
    PROVE  Found(k) = {Pos(k, i)} /\ HtGet(k) = slots[Pos(k, i)].val
<1>1. Pos(k, i) \in Found(k)
  BY PosType DEF Found
<1>2. \A p \in Found(k) : p = Pos(k, i)
  BY EndUnique DEF Found
<1>3. Found(k) = {Pos(k, i)}
  BY <1>1, <1>2
<1>4. QED
  BY <1>3 DEF HtGet

\* The same after a step.
LEMMA FoundNext ==
    ASSUME NEW k \in Keys, NEW i \in Probes, EndsAt(k, i)', Holds(Pos(k, i), k)'
    PROVE  Found(k)' = {Pos(k, i)} /\ HtGet(k)' = slots'[Pos(k, i)].val
<1>1. Pos(k, i) \in Found(k)'
  BY PosType DEF Found, Pos
<1>2. \A j \in Probes : EndsAt(k, j)' => j = i
  BY CapAssumption DEF EndsAt, Probes
<1>3. Found(k)' = {Pos(k, i)}
  BY <1>1, <1>2 DEF Found, Pos
<1>4. QED
  BY <1>3 DEF HtGet

\* With intact chains ht_has finds what is stored.
LEMMA ChainsHas ==
    ASSUME Missing \notin Vals \cup {0}
    PROVE  TypeOK /\ ChainsIntact => HasIffStored
<1> SUFFICES ASSUME TypeOK, ChainsIntact, NEW k \in Keys
             PROVE  HtHas(k) <=> \E p \in Slots : slots[p].key = k
  BY DEF HasIffStored
<1>1. ASSUME HtHas(k) PROVE \E p \in Slots : slots[p].key = k
  BY <1>1 DEF HtHas, HtGet, Found, Holds
<1>2. ASSUME NEW p \in Slots, slots[p].key = k PROVE HtHas(k)
  <2>1. Occupied(p)
    BY <1>2, KeyAssumption DEF Occupied
  <2>2. PICK i \in Probes : Pos(k, i) = p /\ EndsAt(k, i)
    BY <1>2, <2>1 DEF ChainsIntact
  <2>3. Holds(p, k)
    BY <2>1, <2>2 DEF EndsAt, StopsAt
  <2>4. HtGet(k) = slots[p].val
    BY <2>2, <2>3, FoundAt
  <2>5. slots[p].val \in Vals \cup {0}
    BY DEF TypeOK, HSlot
  <2>6. QED
    BY <2>4, <2>5 DEF HtHas
<1>3. QED
  BY <1>1, <1>2

\* Where the caller deletes only at the end of a chain and never stores
\* HT_MISSING, ht_has answers exactly whether the key is in the table.
THEOREM HasCorrect ==
    ASSUME Missing \notin Vals \cup {0}
    PROVE  SafeSpec => []HasIffStored
<1>1. Init => TypeOK /\ ChainsIntact
  BY InitType, InitChains
<1>2. TypeOK /\ ChainsIntact /\ [SafeNext]_vars => (TypeOK /\ ChainsIntact)'
  BY SafeIsNext, NextType, NextChains
<1>3. TypeOK /\ ChainsIntact => HasIffStored
  BY ChainsHas
<1>4. QED
  BY <1>1, <1>2, <1>3, PTL DEF SafeSpec

-----------------------------------------------------------------------------
(***************************************************************************)
(* What ht_set makes visible.                                              *)
(***************************************************************************)
\* After an insert the probe of the key ends at the new slot.
LEMMA InsertShows ==
    ASSUME TypeOK, NEW k \in Keys, NEW v \in Vals, Insert(k, v)
    PROVE  Found(k)' # {} /\ HtGet(k)' = v
<1>1. PICK i \in Probes :
         /\ EndsAt(k, i)
         /\ ~Occupied(Pos(k, i))
         /\ slots' = [slots EXCEPT ![Pos(k, i)] = [key |-> k, val |-> v, hash |-> Hash[k]]]
  BY DEF Insert
<1>2. /\ \A q \in Slots : q # Pos(k, i) => slots'[q] = slots[q]
      /\ slots'[Pos(k, i)] = [key |-> k, val |-> v, hash |-> Hash[k]]
  BY <1>1, PosType DEF TypeOK
<1>3. Holds(Pos(k, i), k)'
  BY <1>2 DEF Holds, Pos
<1>4. \A j \in Probes : j < i => ~StopsAt(k, j)'
  <2> SUFFICES ASSUME NEW j \in Probes, j < i PROVE ~StopsAt(k, j)'
    OBVIOUS
  <2>1. ~StopsAt(k, j)
    BY <1>1 DEF EndsAt
  <2>2. Pos(k, j) # Pos(k, i)
    BY <1>1, <2>1 DEF StopsAt
  <2>3. slots'[Pos(k, j)] = slots[Pos(k, j)]
    BY <1>2, <2>2, PosType
  <2>4. QED
    BY <2>1, <2>3 DEF StopsAt, Holds, Occupied, Pos
<1>5. EndsAt(k, i)'
  BY <1>3, <1>4 DEF EndsAt, StopsAt, Pos
<1>6. Found(k)' = {Pos(k, i)} /\ HtGet(k)' = slots'[Pos(k, i)].val
  BY <1>3, <1>5, FoundNext
<1>7. QED
  BY <1>2, <1>6

\* After an overwrite the probe of the key ends where it did, at the new value.
LEMMA OverwriteShows ==
    ASSUME TypeOK, NEW k \in Keys, NEW v \in Vals, Overwrite(k, v)
    PROVE  Found(k)' # {} /\ HtGet(k)' = v
<1>1. PICK i \in Probes :
         /\ EndsAt(k, i)
         /\ Holds(Pos(k, i), k)
         /\ slots' = [slots EXCEPT ![Pos(k, i)].val = v]
  BY DEF Overwrite
<1>2. \A q \in Slots : /\ slots'[q].key = slots[q].key
                       /\ slots'[q].hash = slots[q].hash
  BY OverwriteOccupies
<1>3. \A j \in Probes : StopsAt(k, j)' <=> StopsAt(k, j)
  BY <1>2, PosType DEF StopsAt, Holds, Occupied, Pos
<1>4. EndsAt(k, i)'
  BY <1>1, <1>3 DEF EndsAt
<1>5. Holds(Pos(k, i), k)'
  BY <1>1, <1>2, PosType DEF Holds, Pos
<1>6. slots[Pos(k, i)] \in HSlot
  BY PosType DEF TypeOK
<1>7. slots'[Pos(k, i)].val = v
  BY <1>1, <1>6, PosType DEF TypeOK, HSlot
<1>8. QED
  BY <1>4, <1>5, <1>7, FoundNext

\* A probe that never stops has seen every slot, and all are taken.
LEMMA DropFull ==
    ASSUME TypeOK, NEW k \in Keys, Drop(k)
    PROVE  /\ \A p \in Slots : Occupied(p)
           /\ HtGet(k) = Missing
           /\ UNCHANGED slots
<1>1. \A i \in Probes : ~StopsAt(k, i)
  BY DEF Drop
<1>2. ASSUME NEW p \in Slots PROVE Occupied(p)
  <2>1. PICK i \in Probes : Pos(k, i) = p
    BY ProbesCover
  <2>2. QED
    BY <1>1, <2>1 DEF StopsAt
<1>3. Found(k) = {}
  BY <1>1 DEF Found, EndsAt
<1>4. QED
  BY <1>2, <1>3 DEF HtGet, Drop

\* ht_set by its three outcomes.
LEMMA NextShows ==
    ASSUME TypeOK, NEW k \in Keys, NEW v \in Vals, HtSet(k, v)
    PROVE  \/ HtGet(k)' = v
           \/ /\ \A p \in Slots : Occupied(p)
              /\ HtGet(k) = Missing
              /\ UNCHANGED slots
BY InsertShows, OverwriteShows, DropFull DEF HtSet

-----------------------------------------------------------------------------
(***************************************************************************)
(* What an operation on one key does to the others.                        *)
(***************************************************************************)
\* Where a found key was found.
LEMMA FoundEnd ==
    ASSUME NEW k \in Keys, Found(k) # {}
    PROVE  \E i \in Probes : /\ EndsAt(k, i) /\ Holds(Pos(k, i), k)
                             /\ HtGet(k) = slots[Pos(k, i)].val
<1>1. PICK i \in Probes : EndsAt(k, i) /\ Holds(Pos(k, i), k)
  BY DEF Found
<1>2. QED
  BY <1>1, FoundAt

\* A step that changes no slot of a probe keeps its answer.
LEMMA SameProbeSameValue ==
    ASSUME TypeOK, TypeOK', NEW k \in Keys, NEW i \in Probes,
           EndsAt(k, i), Holds(Pos(k, i), k),
           \A j \in Probes : j <= i => slots'[Pos(k, j)] = slots[Pos(k, j)]
    PROVE  HtGet(k)' = HtGet(k)
<1>1. EndsAt(k, i)'
  BY ProbeKept
<1>2. slots'[Pos(k, i)] = slots[Pos(k, i)]
  BY CapAssumption DEF Probes
<1>3. Holds(Pos(k, i), k)'
  BY <1>2 DEF Holds, Pos
<1>4. HtGet(k)' = slots'[Pos(k, i)].val
  BY <1>1, <1>3, FoundNext
<1>5. HtGet(k) = slots[Pos(k, i)].val
  BY FoundAt
<1>6. QED
  BY <1>2, <1>4, <1>5

\* An insert into an empty slot is not on the probe of a key that is found.
LEMMA InsertKeeps ==
    ASSUME TypeOK, TypeOK', NEW k \in Keys, Found(k) # {},
           NEW o \in Keys, NEW v \in Vals, Insert(o, v)
    PROVE  HtGet(k)' = HtGet(k)
<1>1. PICK i \in Probes : EndsAt(k, i) /\ Holds(Pos(k, i), k)
  BY FoundEnd
<1>2. PICK m \in Probes :
         /\ ~Occupied(Pos(o, m))
         /\ slots' = [slots EXCEPT ![Pos(o, m)] = [key |-> o, val |-> v, hash |-> Hash[o]]]
  BY DEF Insert
<1>3. ASSUME NEW j \in Probes, j <= i PROVE Pos(k, j) # Pos(o, m)
  <2>1. CASE j = i
    BY <1>1, <1>2, <2>1, KeyAssumption DEF Holds, Occupied
  <2>2. CASE j < i
    BY <1>1, <1>2, <2>2 DEF EndsAt, StopsAt
  <2>3. QED
    BY <1>3, <2>1, <2>2, CapAssumption DEF Probes
<1>4. \A j \in Probes : j <= i => slots'[Pos(k, j)] = slots[Pos(k, j)]
  BY <1>2, <1>3, PosType DEF TypeOK
<1>5. QED
  BY <1>1, <1>4, SameProbeSameValue

\* An overwrite of another key is not at the end of the probe.
LEMMA OverwriteKeeps ==
    ASSUME TypeOK, TypeOK', NEW k \in Keys, Found(k) # {},
           NEW o \in Keys \ {k}, NEW v \in Vals, Overwrite(o, v)
    PROVE  HtGet(k)' = HtGet(k)
<1>1. PICK i \in Probes : EndsAt(k, i) /\ Holds(Pos(k, i), k)
                          /\ HtGet(k) = slots[Pos(k, i)].val
  BY FoundEnd
<1>2. PICK m \in Probes : /\ Holds(Pos(o, m), o)
                          /\ slots' = [slots EXCEPT ![Pos(o, m)].val = v]
  BY DEF Overwrite
<1>3. \A q \in Slots : slots'[q].key = slots[q].key /\ slots'[q].hash = slots[q].hash
  BY OverwriteOccupies
<1>4. EndsAt(k, i)'
  BY <1>1, <1>3, ProbeKept, PosType
<1>5. Holds(Pos(k, i), k)'
  BY <1>1, <1>3, PosType DEF Holds, Pos
<1>6. Pos(k, i) # Pos(o, m)
  BY <1>1, <1>2 DEF Holds
<1>7. slots'[Pos(k, i)] = slots[Pos(k, i)]
  BY <1>2, <1>6, PosType DEF TypeOK
<1>8. QED
  BY <1>1, <1>4, <1>5, <1>7, FoundNext

\* A delete that empties a slot of the probe hides the key.
LEMMA RemoveKeeps ==
    ASSUME TypeOK, TypeOK', NEW k \in Keys, Found(k) # {}, Found(k)' # {},
           NEW o \in Keys, Remove(o)
    PROVE  HtGet(k)' = HtGet(k)
<1>1. PICK i \in Probes : EndsAt(k, i) /\ Holds(Pos(k, i), k)
  BY FoundEnd
<1>2. PICK m \in Probes : slots' = [slots EXCEPT ![Pos(o, m)] = Empty]
  BY DEF Remove
<1> DEFINE s == Pos(o, m)
<1>3. /\ \A q \in Slots : q # s => slots'[q] = slots[q]
      /\ slots'[s].key = NoKey
  BY <1>2, PosType DEF TypeOK, Empty
<1>4. ASSUME NEW j \in Probes, j <= i, Pos(k, j) = s PROVE FALSE
  <2>1. PICK n \in Probes : EndsAt(k, n)' /\ slots'[Pos(k, n)].key = k
                            /\ slots'[Pos(k, n)].hash = Hash[k]
    BY DEF Found, Holds, Pos
  <2>2. Pos(k, n) # s
    BY <1>3, <2>1, KeyAssumption
  <2>3. StopsAt(k, j)'
    BY <1>3, <1>4 DEF StopsAt, Occupied, Pos
  <2>4. n < j
    BY <1>4, <2>1, <2>2, <2>3, CapAssumption DEF EndsAt, Probes
  <2>5. StopsAt(k, n)
    BY <1>3, <2>1, <2>2, PosType DEF StopsAt, Holds
  <2>6. n < i
    BY <1>4, <2>4, CapAssumption DEF Probes
  <2>7. QED
    BY <1>1, <2>5, <2>6 DEF EndsAt
<1>5. \A j \in Probes : j <= i => slots'[Pos(k, j)] = slots[Pos(k, j)]
  BY <1>3, <1>4, PosType
<1>6. QED
  BY <1>1, <1>5, SameProbeSameValue

\* Only ht_set of a key changes a value that is seen before and after.
LEMMA NextKeeps ==
    ASSUME TypeOK, TypeOK', Next, NEW k \in Keys,
           Found(k) # {}, Found(k)' # {}, HtGet(k)' # HtGet(k)
    PROVE  \E v \in Vals : HtSet(k, v)
<1>1. ASSUME UNCHANGED slots PROVE FALSE
  <2>1. HtGet(k)' = HtGet(k)
    BY <1>1 DEF HtGet, Found, Holds, EndsAt, StopsAt, Occupied, Pos
  <2>2. QED
    BY <2>1
<1>2. ASSUME NEW o \in Keys, NEW v \in Vals, HtSet(o, v) PROVE o = k
  <2>1. CASE Insert(o, v)
    BY <2>1, InsertKeeps
  <2>2. CASE Overwrite(o, v)
    BY <2>2, OverwriteKeeps
  <2>3. CASE Drop(o)
    BY <1>1, <2>3 DEF Drop
  <2>4. QED
    BY <1>2, <2>1, <2>2, <2>3 DEF HtSet
<1>3. ASSUME NEW o \in Keys, HtDel(o) PROVE FALSE
  <2>1. CASE Remove(o)
    BY <2>1, RemoveKeeps
  <2>2. CASE DelAbsent(o)
    BY <1>1, <2>2 DEF DelAbsent
  <2>3. QED
    BY <1>3, <2>1, <2>2 DEF HtDel
<1>4. ~HtFree
  BY <1>1 DEF HtFree
<1>5. QED
  BY <1>2, <1>3, <1>4 DEF Next

\* For every caller, also one that cuts chains: a key that is seen before and
\* after an operation only changes its value by its own ht_set.
THEOREM OthersKeepValueCorrect == Spec => OthersKeepValue
<1>1. TypeOK /\ TypeOK' /\ [Next]_vars =>
        [\A k \in Keys :
           (Found(k) # {} /\ Found(k)' # {} /\ HtGet(k)' # HtGet(k))
              => \E v \in Vals : HtSet(k, v)]_vars
  BY NextKeeps
<1>2. QED
  BY <1>1, InitType, NextType, PTL DEF Spec, OthersKeepValue

-----------------------------------------------------------------------------
(***************************************************************************)
(* What a caller sees of its own values, for every caller.                 *)
(***************************************************************************)
\* OnlyOwnValues speaks of the slots that a probe finds.  It is kept by all
\* slots, so that a copy which a cut chain hides is accounted for when a later
\* insert shows it again.
SlotsOwn == \A p \in Slots : Occupied(p) => slots[p].val \in written[slots[p].key]

UseInv == TypeOK /\ written \in [Keys -> SUBSET Vals] /\ SlotsOwn

\* A found slot is an occupied one.
LEMMA OwnFromSlots == UseInv => OnlyOwnValues
<1> SUFFICES ASSUME UseInv, NEW k \in Keys, Found(k) # {}
             PROVE  HtGet(k) \in written[k]
  BY DEF OnlyOwnValues
<1>1. PICK i \in Probes : Holds(Pos(k, i), k) /\ HtGet(k) = slots[Pos(k, i)].val
  BY FoundEnd
<1>2. Occupied(Pos(k, i)) /\ slots[Pos(k, i)].key = k
  BY <1>1, KeyAssumption DEF Holds, Occupied
<1>3. QED
  BY <1>1, <1>2, PosType DEF UseInv, SlotsOwn

\* ht_set writes one value, which it has noted, and moves no other.
LEMMA SetOwn ==
    ASSUME UseInv, TypeOK', NEW k \in Keys, NEW v \in Vals, UseSet(k, v)
    PROVE  written' \in [Keys -> SUBSET Vals] /\ SlotsOwn'
<1>1. written' \in [Keys -> SUBSET Vals]
  BY DEF UseInv, UseSet
<1>2. /\ \A x \in Keys : written[x] \subseteq written'[x]
      /\ v \in written'[k]
  BY DEF UseInv, UseSet
<1>3. \A q \in Slots : slots[q] \in HSlot
  BY DEF UseInv, TypeOK
<1>4. ASSUME NEW p \in Slots, Occupied(p)' PROVE slots'[p].val \in written'[slots'[p].key]
  <2>1. CASE Insert(k, v)
    <3>1. PICK i \in Probes : slots' = [slots EXCEPT ![Pos(k, i)] =
                                            [key |-> k, val |-> v, hash |-> Hash[k]]]
      BY <2>1 DEF Insert
    <3>2. CASE p = Pos(k, i)
      BY <1>2, <3>1, <3>2 DEF UseInv, TypeOK
    <3>3. CASE p # Pos(k, i)
      <4>1. slots'[p] = slots[p]
        BY <3>1, <3>3 DEF UseInv, TypeOK
      <4>2. QED
        BY <1>2, <1>3, <1>4, <4>1 DEF UseInv, SlotsOwn, Occupied, HSlot
    <3>4. QED
      BY <3>2, <3>3
  <2>2. CASE Overwrite(k, v)
    <3>1. PICK i \in Probes : Holds(Pos(k, i), k) /\ slots' = [slots EXCEPT ![Pos(k, i)].val = v]
      BY <2>2 DEF Overwrite
    <3>2. CASE p = Pos(k, i)
      <4>1. slots'[p].val = v /\ slots'[p].key = k
        BY <1>3, <3>1, <3>2 DEF UseInv, TypeOK, HSlot, Holds
      <4>2. QED
        BY <1>2, <4>1
    <3>3. CASE p # Pos(k, i)
      <4>1. slots'[p] = slots[p]
        BY <3>1, <3>3 DEF UseInv, TypeOK
      <4>2. QED
        BY <1>2, <1>3, <1>4, <4>1 DEF UseInv, SlotsOwn, Occupied, HSlot
    <3>4. QED
      BY <3>2, <3>3
  <2>3. CASE Drop(k)
    BY <1>2, <1>3, <1>4, <2>3 DEF Drop, UseInv, SlotsOwn, Occupied, HSlot
  <2>4. QED
    BY <2>1, <2>2, <2>3 DEF UseSet, HtSet
<1>5. QED
  BY <1>1, <1>4 DEF SlotsOwn

\* ht_del only empties a slot.
LEMMA DelOwn ==
    ASSUME UseInv, TypeOK', NEW k \in Keys, UseDel(k)
    PROVE  written' \in [Keys -> SUBSET Vals] /\ SlotsOwn'
<1>1. written' = written
  BY DEF UseDel
<1>2. CASE Remove(k)
  <2>1. PICK i \in Probes : slots' = [slots EXCEPT ![Pos(k, i)] = Empty]
    BY <1>2 DEF Remove
  <2>2. \A p \in Slots : slots'[p] = IF p = Pos(k, i) THEN Empty ELSE slots[p]
    BY <2>1 DEF UseInv, TypeOK
  <2>3. QED
    BY <1>1, <2>2 DEF UseInv, SlotsOwn, Occupied, Empty
<1>3. CASE DelAbsent(k)
  BY <1>1, <1>3 DEF DelAbsent, UseInv, SlotsOwn, Occupied
<1>4. QED
  BY <1>2, <1>3 DEF UseDel, HtDel

\* Every step of every caller keeps the invariant.
LEMMA UseNextInv == UseInv /\ [UseNext]_useVars => UseInv'
<1> SUFFICES ASSUME UseInv, [UseNext]_useVars PROVE UseInv'
  OBVIOUS
<1>1. TypeOK'
  <2>1. [Next]_vars
    BY DEF UseNext, UseSet, UseDel, UseFree, Next, useVars
  <2>2. QED
    BY <2>1, NextType DEF UseInv
<1>2. ASSUME NEW k \in Keys, NEW v \in Vals, UseSet(k, v) PROVE UseInv'
  BY <1>1, <1>2, SetOwn DEF UseInv
<1>3. ASSUME NEW k \in Keys, UseDel(k) PROVE UseInv'
  BY <1>1, <1>3, DelOwn DEF UseInv
<1>4. CASE UseFree
  BY <1>1, <1>4 DEF UseFree, HtFree, UseInv, SlotsOwn, Occupied
<1>5. CASE UNCHANGED useVars
  BY <1>1, <1>5 DEF useVars, vars, UseInv, SlotsOwn, Occupied
<1>6. QED
  BY <1>2, <1>3, <1>4, <1>5 DEF UseNext

\* A caller starts with the invariant.
LEMMA UseInitInv == UseInit => UseInv
<1>1. ASSUME UseInit PROVE TypeOK
  BY <1>1, InitType DEF UseInit
<1>2. QED
  BY <1>1 DEF UseInit, UseInv, SlotsOwn, Init, HtNew, Occupied, Empty

\* Whatever a caller does, cut chains and resurrected keys included, ht_get of
\* a key that is found answers a value once set for this very key.
THEOREM OwnValuesCorrect == UseSpec => []OnlyOwnValues
<1>1. QED
  BY UseInitInv, UseNextInv, OwnFromSlots, PTL DEF UseSpec

\* For every caller, a key that ht_set was called for is visible with the value
\* given, or else the table is full and unchanged.
THEOREM SetVisibleCorrect == UseSpec => SetVisible
<1>1. UseInv /\ [UseNext]_useVars =>
        [\A k \in Keys, v \in Vals :
           UseSet(k, v) =>
              \/ HtGet(k)' = v
              \/ /\ \A p \in Slots : Occupied(p)
                 /\ HtGet(k) = Missing
                 /\ UNCHANGED slots]_useVars
  BY NextShows DEF UseInv, UseSet
<1>2. QED
  BY <1>1, UseInitInv, UseNextInv, PTL DEF UseSpec, SetVisible

-----------------------------------------------------------------------------
(***************************************************************************)
(* The careful caller's hash table implements the bounded map KVMap.  The  *)
(* chains are what the argument needs: with them a key is in the map       *)
(* exactly when some slot holds it.                                        *)
(***************************************************************************)
\* The keys the map has.
StoredKeys == {k \in Keys : Found(k) # {}}

\* With intact chains they are the keys in the slots.
LEMMA StoredInSlots ==
    ASSUME TypeOK, ChainsIntact, NEW k \in Keys
    PROVE  Found(k) # {} <=> \E p \in Slots : slots[p].key = k
<1>1. ASSUME NEW p \in Slots, slots[p].key = k PROVE Found(k) # {}
  <2>1. Occupied(p)
    BY <1>1, KeyAssumption DEF Occupied
  <2>2. PICK i \in Probes : Pos(k, i) = p /\ EndsAt(k, i)
    BY <1>1, <2>1 DEF ChainsIntact
  <2>3. Holds(p, k)
    BY <2>1, <2>2 DEF EndsAt, StopsAt
  <2>4. QED
    BY <2>2, <2>3, FoundAt
<1>2. QED
  BY <1>1 DEF Found, Holds

\* The same after a step.
LEMMA StoredInSlotsNext ==
    ASSUME TypeOK', ChainsIntact', NEW k \in Keys
    PROVE  Found(k)' # {} <=> \E p \in Slots : slots'[p].key = k
<1>1. ASSUME NEW p \in Slots, slots'[p].key = k PROVE Found(k)' # {}
  <2>1. Occupied(p)'
    BY <1>1, KeyAssumption DEF Occupied
  <2>2. PICK i \in Probes : Pos(k, i) = p /\ EndsAt(k, i)'
    BY <1>1, <2>1 DEF ChainsIntact, Pos
  <2>3. Holds(p, k)'
    BY <2>1, <2>2 DEF EndsAt, StopsAt, Pos
  <2>4. QED
    BY <2>2, <2>3, FoundNext
<1>2. QED
  BY <1>1 DEF Found, Holds

\* The map never has more keys than there are occupied slots.
LEMMA StoredBound ==
    ASSUME TypeOK, ChainsIntact
    PROVE  /\ IsFiniteSet(StoredKeys)
           /\ Cardinality(StoredKeys) <= Cardinality(OccupiedSlots)
<1> DEFINE f == [p \in OccupiedSlots |-> slots[p].key]
<1>1. f \in Surjection(OccupiedSlots, StoredKeys)
  <2>1. \A p \in OccupiedSlots : slots[p].key \in StoredKeys
    <3> SUFFICES ASSUME NEW p \in OccupiedSlots PROVE slots[p].key \in StoredKeys
      OBVIOUS
    <3>1. slots[p].key \in Keys
      BY DEF OccupiedSlots, Occupied, TypeOK, HSlot
    <3>2. QED
      BY <3>1, StoredInSlots DEF OccupiedSlots, StoredKeys
  <2>2. \A k \in StoredKeys : \E p \in OccupiedSlots : slots[p].key = k
    BY StoredInSlots, KeyAssumption DEF OccupiedSlots, Occupied, StoredKeys
  <2>3. QED
    BY <2>1, <2>2 DEF Surjection
<1>2. QED
  BY <1>1, OccupiedFinite, FS_Surjection

\* A key other than that of an operation stays in the map, and stays out.
LEMMA InsertStored ==
    ASSUME TypeOK, TypeOK', ChainsIntact, ChainsIntact',
           NEW k \in Keys, NEW v \in Vals, Insert(k, v)
    PROVE  StoredKeys' = StoredKeys \cup {k}
<1>1. PICK i \in Probes :
         /\ ~Occupied(Pos(k, i))
         /\ slots' = [slots EXCEPT ![Pos(k, i)] = [key |-> k, val |-> v, hash |-> Hash[k]]]
  BY DEF Insert
<1>2. /\ \A q \in Slots : q # Pos(k, i) => slots'[q] = slots[q]
      /\ slots'[Pos(k, i)].key = k
  BY <1>1, PosType DEF TypeOK
<1>3. ASSUME NEW x \in Keys PROVE Found(x)' # {} <=> Found(x) # {} \/ x = k
  BY <1>1, <1>2, PosType, KeyAssumption, StoredInSlots, StoredInSlotsNext DEF Occupied
<1>4. QED
  BY <1>3 DEF StoredKeys

\* ht_set of a stored key changes no key.
LEMMA OverwriteStored ==
    ASSUME TypeOK, TypeOK', ChainsIntact, ChainsIntact',
           NEW k \in Keys, NEW v \in Vals, Overwrite(k, v)
    PROVE  StoredKeys' = StoredKeys /\ k \in StoredKeys
<1>1. \A q \in Slots : slots'[q].key = slots[q].key
  BY OverwriteOccupies
<1>2. ASSUME NEW x \in Keys PROVE Found(x)' # {} <=> Found(x) # {}
  BY <1>1, StoredInSlots, StoredInSlotsNext
<1>3. Found(k) # {}
  BY PosType DEF Overwrite, Found
<1>4. QED
  BY <1>2, <1>3 DEF StoredKeys

\* ht_del takes its own key out of the map, as it has no second copy.
LEMMA RemoveStored ==
    ASSUME TypeOK, TypeOK', ChainsIntact, ChainsIntact', NEW k \in Keys, Remove(k)
    PROVE  StoredKeys' = StoredKeys \ {k}
<1>1. PICK i \in Probes : /\ Holds(Pos(k, i), k)
                          /\ slots' = [slots EXCEPT ![Pos(k, i)] = Empty]
  BY DEF Remove
<1>2. /\ \A q \in Slots : q # Pos(k, i) => slots'[q] = slots[q]
      /\ slots'[Pos(k, i)].key = NoKey
      /\ slots[Pos(k, i)].key = k
  BY <1>1, PosType DEF TypeOK, Empty, Holds
<1>3. \A q \in Slots : slots[q].key = k => q = Pos(k, i)
  BY <1>2, PosType, KeyAssumption, ChainsNoDuplicates DEF NoDuplicates, Occupied
<1>4. ASSUME NEW x \in Keys PROVE Found(x)' # {} <=> Found(x) # {} /\ x # k
  BY <1>2, <1>3, PosType, KeyAssumption, StoredInSlots, StoredInSlotsNext
<1>5. QED
  BY <1>4 DEF StoredKeys

-----------------------------------------------------------------------------
(***************************************************************************)
(* Initial states and steps.                                               *)
(***************************************************************************)
\* A new table is an empty map.
LEMMA InitMap == Init => Map!Init
<1> SUFFICES ASSUME Init PROVE Map!Init
  OBVIOUS
<1>1. \A k \in Keys : Found(k) = {}
  BY KeyAssumption DEF Init, HtNew, Found, Holds, Empty
<1>2. Stored = << >>
  BY <1>1 DEF Stored
<1>3. QED
  BY <1>2 DEF Map!Init, Init, HtNew

\* The map as a function of the keys it has.
LEMMA StoredIs ==
    /\ Stored = [x \in StoredKeys |-> HtGet(x)]
    /\ Stored' = [x \in StoredKeys' |-> HtGet(x)']
BY DEF Stored, StoredKeys

\* ht_set is Set, or nothing when the key is new and the table full.
LEMMA SetMap ==
    ASSUME TypeOK, TypeOK', ChainsIntact, ChainsIntact',
           NEW k \in Keys, NEW v \in Vals, HtSet(k, v)
    PROVE  Map!Set(k, v) \/ UNCHANGED Map!vars
<1>1. live /\ live'
  BY DEF HtSet, TypeOK
<1>2. CASE Insert(k, v)
  <2>1. StoredKeys' = StoredKeys \cup {k}
    BY <1>2, InsertStored
  <2>2. HtGet(k)' = v
    BY <1>2, InsertShows
  <2>3. \A x \in StoredKeys : HtGet(x)' = HtGet(x)
    BY <1>2, InsertKeeps DEF StoredKeys
  <2>4. k \notin StoredKeys
    <3>1. PICK i \in Probes : EndsAt(k, i) /\ ~Occupied(Pos(k, i))
      BY <1>2 DEF Insert
    <3>2. SUFFICES ASSUME Found(k) # {} PROVE FALSE
      BY DEF StoredKeys
    <3>3. PICK j \in Probes : EndsAt(k, j) /\ Holds(Pos(k, j), k)
      BY <3>2 DEF Found
    <3>4. i = j
      BY <3>1, <3>3, EndUnique
    <3>5. QED
      BY <3>1, <3>3, <3>4, KeyAssumption DEF Holds, Occupied
  <2>5. Cardinality(StoredKeys) < Cap
    <3>1. PICK p \in Slots : p \notin OccupiedSlots
      BY <1>2, InsertOccupies
    <3>2. Cardinality(OccupiedSlots \cup {p}) = Cardinality(OccupiedSlots) + 1
      BY <3>1, OccupiedFinite, FS_AddElement
    <3>3. Cardinality(OccupiedSlots \cup {p}) <= Cap
      <4>1. OccupiedSlots \cup {p} \subseteq Slots
        BY DEF OccupiedSlots
      <4>2. QED
        BY <4>1, SlotsFinite, FS_Subset
    <3>4. Cardinality(OccupiedSlots) \in Nat /\ Cardinality(StoredKeys) \in Nat
      BY StoredBound, OccupiedFinite, FS_CardinalityType
    <3>5. QED
      BY <3>2, <3>3, <3>4, StoredBound, CapAssumption
  <2>6. DOMAIN Stored = StoredKeys
    BY StoredIs
  <2>7. Stored' = [x \in DOMAIN Stored \cup {k} |-> IF x = k THEN v ELSE Stored[x]]
    BY <2>1, <2>2, <2>3, <2>4, <2>6, StoredIs
  <2>8. Map!Cardinality(StoredKeys) = Cardinality(StoredKeys)
    BY DEF Map!Cardinality, Cardinality
  <2>9. QED
    BY <1>1, <2>5, <2>6, <2>7, <2>8 DEF Map!Set
<1>3. CASE Overwrite(k, v)
  <2>1. StoredKeys' = StoredKeys /\ k \in StoredKeys
    BY <1>3, OverwriteStored
  <2>2. HtGet(k)' = v
    BY <1>3, OverwriteShows
  <2>3. \A x \in StoredKeys \ {k} : HtGet(x)' = HtGet(x)
    BY <1>3, OverwriteKeeps DEF StoredKeys
  <2>4. DOMAIN Stored = StoredKeys
    BY StoredIs
  <2>5. Stored' = [x \in DOMAIN Stored \cup {k} |-> IF x = k THEN v ELSE Stored[x]]
    BY <2>1, <2>2, <2>3, <2>4, StoredIs
  <2>6. QED
    BY <1>1, <2>1, <2>4, <2>5 DEF Map!Set
<1>4. CASE Drop(k)
  <2>1. Stored' = Stored
    BY <1>4 DEF Drop, Stored, HtGet, Found, Holds, EndsAt, StopsAt, Occupied, Pos
  <2>2. QED
    BY <1>1, <2>1 DEF Map!vars
<1>5. QED
  BY <1>2, <1>3, <1>4 DEF HtSet

\* A delete at the end of a chain is Del, or nothing when the key is absent.
LEMMA DelMap ==
    ASSUME TypeOK, TypeOK', ChainsIntact, ChainsIntact', NEW k \in Keys, HtDel(k)
    PROVE  Map!Del(k) \/ UNCHANGED Map!vars
<1>1. live /\ live'
  BY DEF HtDel, TypeOK
<1>2. CASE Remove(k)
  <2>1. StoredKeys' = StoredKeys \ {k}
    BY <1>2, RemoveStored
  <2>2. \A x \in StoredKeys' : HtGet(x)' = HtGet(x)
    BY <1>2, <2>1, RemoveKeeps DEF StoredKeys
  <2>3. DOMAIN Stored = StoredKeys
    BY StoredIs
  <2>4. Stored' = [x \in DOMAIN Stored \ {k} |-> Stored[x]]
    BY <2>1, <2>2, <2>3, StoredIs
  <2>5. QED
    BY <1>1, <2>4 DEF Map!Del, Map!Restrict
<1>3. CASE DelAbsent(k)
  <2>1. Stored' = Stored
    BY <1>3 DEF DelAbsent, Stored, HtGet, Found, Holds, EndsAt, StopsAt, Occupied, Pos
  <2>2. QED
    BY <1>1, <2>1 DEF Map!vars
<1>4. QED
  BY <1>2, <1>3 DEF HtDel

\* Every step of the careful caller is a step of the map or stutters.
LEMMA NextMap ==
    TypeOK /\ TypeOK' /\ ChainsIntact /\ ChainsIntact' /\ [SafeNext]_vars
      => [Map!Next]_Map!vars
<1> SUFFICES ASSUME TypeOK, TypeOK', ChainsIntact, ChainsIntact', [SafeNext]_vars
             PROVE  [Map!Next]_Map!vars
  OBVIOUS
<1>1. ASSUME NEW k \in Keys, NEW v \in Vals, HtSet(k, v) PROVE [Map!Next]_Map!vars
  BY <1>1, SetMap DEF Map!Next
<1>2. ASSUME NEW k \in Keys, SafeDel(k) PROVE [Map!Next]_Map!vars
  BY <1>2, DelMap DEF SafeDel, Map!Next
<1>3. CASE HtFree
  BY <1>3 DEF HtFree, Map!Next, Map!Free
<1>4. CASE UNCHANGED vars
  <2>1. Stored' = Stored
    BY <1>4 DEF vars, Stored, HtGet, Found, Holds, EndsAt, StopsAt, Occupied, Pos
  <2>2. QED
    BY <1>4, <2>1 DEF vars, Map!vars
<1>5. QED
  BY <1>1, <1>2, <1>3, <1>4 DEF SafeNext

\* For a caller that deletes only at the end of a chain, std/hash.vex is a map
\* that holds at most Cap keys: ht_set, ht_get, ht_has, ht_del and ht_free.
THEOREM Implements == SafeSpec => ImplementsMap
<1>1. Init => TypeOK /\ ChainsIntact
  BY InitType, InitChains
<1>2. TypeOK /\ ChainsIntact /\ [SafeNext]_vars => (TypeOK /\ ChainsIntact)'
  BY SafeIsNext, NextType, NextChains
<1>3. QED
  BY <1>1, <1>2, InitMap, NextMap, PTL DEF SafeSpec, ImplementsMap, Map!Spec
=============================================================================
