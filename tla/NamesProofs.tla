----------------------------- MODULE NamesProofs ------------------------------
(***************************************************************************)
(* Proofs about Names, for bodies of any length and nesting: the chain of  *)
(* scopes of the type checker and the C blocks of the emitted code know    *)
(* the same local variables, and therefore an emitted identifier means in  *)
(* C what the checker took the name for.                                   *)
(***************************************************************************)
EXTENDS Names, Induction, SequenceTheorems

-----------------------------------------------------------------------------
(* Looking a name up in the first k maps of a chain. *)

KnownAt(chain, k, n) == {i \in 1 .. k : n \in DOMAIN chain[i]}

LookupTo(chain, k, n) ==
    IF KnownAt(chain, k, n) = {} THEN Unknown ELSE chain[Max(KnownAt(chain, k, n))][n]

\* A lookup goes through the whole chain.
LEMMA LookupIsTo ==
    ASSUME NEW S, NEW chain \in Seq(S), NEW n
    PROVE  Lookup(chain, n) = LookupTo(chain, Len(chain), n)
<1>1. DOMAIN chain = 1 .. Len(chain)
  BY LenProperties
<1>2. {i \in DOMAIN chain : n \in DOMAIN chain[i]} = KnownAt(chain, Len(chain), n)
  BY <1>1 DEF KnownAt
<1>3. QED
  BY <1>2 DEF Lookup, LookupTo

\* Chains that begin alike answer alike.
LEMMA LookupSame ==
    ASSUME NEW a, NEW b, NEW k \in Nat, NEW n, \A i \in 1 .. k : a[i] = b[i]
    PROVE  LookupTo(a, k, n) = LookupTo(b, k, n)
<1>1. KnownAt(a, k, n) = KnownAt(b, k, n)
  BY DEF KnownAt
<1>2. CASE KnownAt(a, k, n) = {}
  BY <1>1, <1>2 DEF LookupTo
<1>3. CASE KnownAt(a, k, n) # {}
  <2>1. KnownAt(a, k, n) \in SUBSET (1 .. k)
    BY DEF KnownAt
  <2>2. Max(KnownAt(a, k, n)) \in 1 .. k
    BY <1>3, <2>1, MaxIsThere
  <2>3. QED
    BY <1>1, <1>3, <2>2 DEF LookupTo
<1>4. QED
  BY <1>2, <1>3

SameTo(a, b, k) == \A i \in 1 .. k : a[i] = b[i]

\* The same, with the agreement under a name.
LEMMA LookupAlike ==
    ASSUME NEW a, NEW b, NEW k \in Nat, NEW n, SameTo(a, b, k)
    PROVE  LookupTo(a, k, n) = LookupTo(b, k, n)
BY LookupSame DEF SameTo

\* The last map answers when it knows the name ...
LEMMA LookupHere ==
    ASSUME NEW chain, NEW k \in Nat \ {0}, NEW n, n \in DOMAIN chain[k]
    PROVE  LookupTo(chain, k, n) = chain[k][n]
<1> DEFINE K == KnownAt(chain, k, n)
<1>1. k \in K /\ \A i \in K : i \in 1 .. k
  BY DEF KnownAt
<1>2. \A y \in K : k >= y
  BY <1>1
<1>3. \A z \in K : (\A y \in K : z >= y) => z = k
  BY <1>1
<1> HIDE DEF K
<1>4. Max(K) = k
  BY <1>1, <1>2, <1>3 DEF Max
<1>5. QED
  BY <1>1, <1>4 DEF LookupTo, K

\* ... and leaves it to the maps around it when it does not.
LEMMA LookupAround ==
    ASSUME NEW chain, NEW k \in Nat \ {0}, NEW n, n \notin DOMAIN chain[k]
    PROVE  LookupTo(chain, k, n) = LookupTo(chain, k - 1, n)
<1>1. KnownAt(chain, k, n) = KnownAt(chain, k - 1, n)
  BY DEF KnownAt
<1>2. QED
  BY <1>1 DEF LookupTo

\* A name that no map knows is unknown.
LEMMA LookupNowhere ==
    ASSUME NEW chain, NEW k \in Nat, NEW n, \A i \in 1 .. k : n \notin DOMAIN chain[i]
    PROVE  LookupTo(chain, k, n) = Unknown
<1>1. KnownAt(chain, k, n) = {}
  BY DEF KnownAt
<1>2. QED
  BY <1>1 DEF LookupTo


-----------------------------------------------------------------------------
(* What the steps make of a chain. *)

\* A map from names in D to declarations.
MapOver(D) == UNION {[S -> {<<"param", n>> : n \in Locals} \cup {Var(i) : i \in Nat}
                            \cup {<<"index", i>> : i \in Nat}] : S \in SUBSET D}

\* Declaring a name adds it to the names of a map.
LEMMA DeclareType ==
    ASSUME NEW D, NEW scope \in MapOver(D), NEW x \in D, NEW i \in Nat
    PROVE  Declare(scope, x, Var(i)) \in MapOver(D)
<1> DEFINE Ds == {<<"param", n>> : n \in Locals} \cup {Var(j) : j \in Nat}
                            \cup {<<"index", j>> : j \in Nat}
<1>1. PICK S \in SUBSET D : scope \in [S -> Ds]
  BY DEF MapOver
<1>2. Var(i) \in Ds
  OBVIOUS
<1> HIDE DEF Ds
<1>3. Declare(scope, x, Var(i)) \in [S \cup {x} -> Ds]
  BY <1>1, <1>2 DEF Declare
<1>4. S \cup {x} \in SUBSET D
  BY <1>1
<1>5. QED
  BY <1>3, <1>4 DEF MapOver, Ds

\* The map of no names.
LEMMA NoNamesType ==
    ASSUME NEW D
    PROVE  NoNames \in MapOver(D) /\ DOMAIN NoNames = {}
<1> DEFINE Ds == {<<"param", n>> : n \in Locals} \cup {Var(j) : j \in Nat}
                            \cup {<<"index", j>> : j \in Nat}
<1>1. DOMAIN NoNames = {} /\ NoNames \in [{} -> Ds]
  BY DEF NoNames
<1>2. {} \in SUBSET D
  OBVIOUS
<1> HIDE DEF Ds
<1>3. NoNames \in MapOver(D)
  BY <1>1, <1>2 DEF MapOver, Ds
<1>4. QED
  BY <1>1, <1>3

\* The names of a map are among those it may have.
LEMMA MapDomain ==
    ASSUME NEW D, NEW scope \in MapOver(D)
    PROVE  DOMAIN scope \subseteq D
BY DEF MapOver

\* The chain new is the chain with x declared as d in its last map.
DeclaredIn(chain, new, x, d) ==
    /\ Len(new) = Len(chain)
    /\ \A k \in 1 .. Len(chain) : k # Len(chain) => new[k] = chain[k]
    /\ DOMAIN new[Len(chain)] = DOMAIN chain[Len(chain)] \cup {x}
    /\ new[Len(chain)][x] = d
    /\ \A m \in DOMAIN chain[Len(chain)] : m # x => new[Len(chain)][m] = chain[Len(chain)][m]

\* Declaring in the last map leaves the others alone.
LEMMA DeclaredChain ==
    ASSUME NEW D, NEW chain \in Seq(MapOver(D)), chain # << >>, NEW x \in D, NEW i \in Nat,
           NEW new, new = SetLast(chain, Declare(Last(chain), x, Var(i)))
    PROVE  new \in Seq(MapOver(D)) /\ DeclaredIn(chain, new, x, Var(i))
<1> DEFINE k   == Len(chain)
           d   == Declare(Last(chain), x, Var(i))
<1>1. k \in Nat \ {0} /\ DOMAIN chain = 1 .. k
  BY EmptySeq, LenProperties
<1>2. chain[k] \in MapOver(D)
  BY <1>1, ElementOfSeq
<1>3. /\ d \in MapOver(D)
      /\ DOMAIN d = DOMAIN chain[k] \cup {x}
      /\ d[x] = Var(i)
      /\ \A m \in DOMAIN chain[k] : m # x => d[m] = chain[k][m]
  <2> DEFINE top == Last(chain)
             e   == Declare(top, x, Var(i))
  <2>1. top = chain[k]
    BY DEF Last
  <2>2. top \in MapOver(D)
    BY <1>2, <2>1
  <2> HIDE DEF top
  <2>3. /\ e \in MapOver(D)
        /\ DOMAIN e = DOMAIN top \cup {x}
        /\ e[x] = Var(i)
        /\ \A m \in DOMAIN top : m # x => e[m] = top[m]
    <3>1. e \in MapOver(D)
      BY <2>2, DeclareType
    <3>2. QED
      BY <3>1 DEF Declare
  <2>4. d = e
    BY DEF top
  <2> HIDE DEF d, e, k
  <2>5. QED
    BY <2>1, <2>3, <2>4
<1> HIDE DEF d
<1>4. /\ new \in Seq(MapOver(D)) /\ Len(new) = k
      /\ \A j \in 1 .. k : j # k => new[j] = chain[j]
      /\ new[k] = d
  <2>1. new = [chain EXCEPT ![k] = d]
    BY DEF SetLast, d
  <2> DEFINE M == MapOver(D)
  <2>2. k \in 1 .. Len(chain) /\ d \in M /\ chain \in Seq(M)
    BY <1>1, <1>3
  <2> HIDE DEF M, k
  <2>3. new \in Seq(M) /\ Len(new) = Len(chain)
    BY <2>1, <2>2, ExceptSeq
  <2>4. \A j \in 1 .. Len(chain) : new[j] = IF j = k THEN d ELSE chain[j]
    BY <2>1, <2>2, ExceptSeq
  <2>5. QED
    BY <2>2, <2>3, <2>4 DEF M, k
<1> HIDE DEF k
<1>5. QED
  BY <1>1, <1>3, <1>4 DEF k, DeclaredIn

\* It changes the answer for that name and no other.
LEMMA LookupDeclared ==
    ASSUME NEW D, NEW chain \in Seq(MapOver(D)), chain # << >>, NEW x \in D, NEW i \in Nat, NEW n,
           NEW new, new = SetLast(chain, Declare(Last(chain), x, Var(i)))
    PROVE  /\ n = x => LookupTo(new, Len(chain), n) = Var(i)
           /\ n # x => LookupTo(new, Len(chain), n) = LookupTo(chain, Len(chain), n)
<1> DEFINE k == Len(chain)
           d == new[k]
<1>1. k \in Nat \ {0}
  BY EmptySeq, LenProperties
<1>2. new \in Seq(MapOver(D)) /\ DeclaredIn(chain, new, x, Var(i))
  BY DeclaredChain
<1>3. /\ DOMAIN d = DOMAIN chain[k] \cup {x}
      /\ d[x] = Var(i)
      /\ \A m \in DOMAIN chain[k] : m # x => d[m] = chain[k][m]
  BY <1>2 DEF DeclaredIn
<1>4. /\ \A j \in 1 .. k : j # k => new[j] = chain[j]
      /\ new[k] = d
  BY <1>2 DEF DeclaredIn
<1> HIDE DEF d, k
<1>5. n = x => LookupTo(new, k, n) = Var(i)
  BY <1>1, <1>3, <1>4, LookupHere
<1>6. ASSUME n # x PROVE LookupTo(new, k, n) = LookupTo(chain, k, n)
  <2>1. CASE n \in DOMAIN chain[k]
    <3>1. LookupTo(chain, k, n) = chain[k][n]
      BY <1>1, <2>1, LookupHere
    <3>2. LookupTo(new, k, n) = new[k][n]
      BY <1>1, <1>3, <1>4, <2>1, LookupHere
    <3>3. QED
      BY <1>3, <1>4, <1>6, <2>1, <3>1, <3>2
  <2>2. CASE n \notin DOMAIN chain[k]
    <3>1. LookupTo(chain, k, n) = LookupTo(chain, k - 1, n)
      BY <1>1, <2>2, LookupAround
    <3>2. LookupTo(new, k, n) = LookupTo(new, k - 1, n)
      BY <1>1, <1>3, <1>4, <1>6, <2>2, LookupAround
    <3>3. LookupTo(new, k - 1, n) = LookupTo(chain, k - 1, n)
      BY <1>1, <1>4, LookupSame
    <3>4. QED
      BY <3>1, <3>2, <3>3
  <2>3. QED
    BY <2>1, <2>2
<1>7. QED
  BY <1>5, <1>6 DEF k

\* The chain new is the chain with k more maps.
Longer(chain, new, k) == /\ Len(new) = Len(chain) + k
                         /\ \A i \in 1 .. Len(chain) : new[i] = chain[i]

\* In the chain new the map s answers first, and then the chain.
AnswersFirst(new, s, chain) ==
    \A n : /\ n \in DOMAIN s => LookupTo(new, Len(new), n) = s[n]
           /\ n \notin DOMAIN s => LookupTo(new, Len(new), n) = LookupTo(chain, Len(chain), n)

\* A map at the end of a chain changes none before it ...
LEMMA AppendedChain ==
    ASSUME NEW M, NEW chain \in Seq(M), NEW s \in M, NEW new, new = Append(chain, s)
    PROVE  new \in Seq(M) /\ Longer(chain, new, 1)
BY AppendProperties DEF Longer

\* ... and answers first.
LEMMA LookupAppended ==
    ASSUME NEW M, NEW chain \in Seq(M), NEW s \in M, NEW new, new = Append(chain, s)
    PROVE  AnswersFirst(new, s, chain)
<1> SUFFICES ASSUME NEW n
             PROVE  /\ n \in DOMAIN s => LookupTo(new, Len(new), n) = s[n]
                    /\ n \notin DOMAIN s
                          => LookupTo(new, Len(new), n) = LookupTo(chain, Len(chain), n)
  BY DEF AnswersFirst
<1> DEFINE k == Len(chain)
<1>1. k \in Nat
  BY LenProperties
<1>2. /\ new \in Seq(M) /\ Len(new) = k + 1
      /\ \A i \in 1 .. k : new[i] = chain[i]
      /\ new[k + 1] = s
  BY AppendProperties
<1> HIDE DEF k
<1>3. k + 1 \in Nat \ {0} /\ k + 1 - 1 = k
  BY <1>1
<1> DEFINE h == k + 1
<1>4. h \in Nat \ {0} /\ h - 1 = k /\ new[h] = s /\ h = k + 1
  BY <1>1, <1>2, <1>3
<1> HIDE DEF h
<1>5. n \in DOMAIN s => LookupTo(new, h, n) = s[n]
  <2> SUFFICES ASSUME n \in DOMAIN new[h]
               PROVE  LookupTo(new, h, n) = new[h][n]
    BY <1>4
  <2>1. QED
    BY <1>4, LookupHere
<1>6. n \notin DOMAIN s => LookupTo(new, h, n) = LookupTo(new, k, n)
  <2> SUFFICES ASSUME n \notin DOMAIN new[h]
               PROVE  LookupTo(new, h, n) = LookupTo(new, h - 1, n)
    BY <1>4
  <2>1. QED
    BY <1>4, LookupAround
<1>7. LookupTo(new, k, n) = LookupTo(chain, k, n)
  <2>1. SameTo(new, chain, k)
    BY <1>2 DEF SameTo
  <2>2. QED
    BY <1>1, <2>1, LookupAlike
<1>8. QED
  BY <1>2, <1>4, <1>5, <1>6, <1>7 DEF k

-----------------------------------------------------------------------------
(* The invariant.  A block of C pairs with one scope, but for the body of a *)
(* for statement: the scope of its variable and the block of its index are  *)
(* the ones that pair, and there the two chains disagree.  They agree       *)
(* wherever a statement begins: after every block of pops.                  *)

Scope == MapOver(Locals)
Block == MapOver(Locals \cup {LoopIndex})

ChainType == /\ scopes \in Seq(Scope) /\ blocks \in Seq(Block)
             /\ Len(blocks) \in Nat \ {0} /\ Len(scopes) = Len(blocks) + 1
             /\ pops \in Seq({1, 2}) /\ decls \in Nat

\* The number of C blocks that are left when j of the open ones remain.
Depths(f) == /\ f \in [0 .. Len(pops) -> Nat \ {0}]
             /\ f[Len(pops)] = Len(blocks)
             /\ \A j \in 1 .. Len(pops) : f[j] = f[j - 1] + pops[j]
             /\ \A i, j \in 0 .. Len(pops) : i < j => f[i] < f[j]

AgreeAt(k) == \A n \in Locals : LookupTo(scopes, k + 1, n) = LookupTo(blocks, k, n)

Agree == \E f : Depths(f) /\ \A j \in 0 .. Len(pops) : AgreeAt(f[j])

ChainInv == ChainType /\ Agree

\* Where a chain is as it was, it answers as before.
LEMMA AgreeKept ==
    ASSUME NEW k \in Nat, AgreeAt(k),
           \A i \in 1 .. k + 1 : scopes'[i] = scopes[i],
           \A i \in 1 .. k : blocks'[i] = blocks[i]
    PROVE  AgreeAt(k)'
<1> SUFFICES ASSUME NEW n \in Locals
             PROVE  LookupTo(scopes', k + 1, n) = LookupTo(blocks', k, n)
  BY DEF AgreeAt
<1>1. k + 1 \in Nat
  OBVIOUS
<1>2. LookupTo(scopes', k + 1, n) = LookupTo(scopes, k + 1, n)
  BY <1>1, LookupSame
<1>3. LookupTo(blocks', k, n) = LookupTo(blocks, k, n)
  BY LookupSame
<1>4. QED
  BY <1>2, <1>3 DEF AgreeAt

\* A block is entered: the depths go on by one.
LEMMA EnteredAgree ==
    ASSUME ChainType, ChainType', Agree, NEW p \in {1, 2},
           pops' = Append(pops, p), Len(blocks') = Len(blocks) + p,
           \A i \in 1 .. Len(scopes) : scopes'[i] = scopes[i],
           \A i \in 1 .. Len(blocks) : blocks'[i] = blocks[i],
           AgreeAt(Len(blocks))'
    PROVE  Agree'
<1> DEFINE m == Len(pops)
           b == Len(blocks)
<1>1. m \in Nat /\ b \in Nat \ {0} /\ Len(scopes) = b + 1
  BY LenProperties DEF ChainType
<1>2. /\ Len(pops') = m + 1 /\ pops'[m + 1] = p
      /\ \A j \in 1 .. m : pops'[j] = pops[j]
  BY AppendProperties DEF ChainType
<1>3. PICK f : Depths(f) /\ \A j \in 0 .. m : AgreeAt(f[j])
  BY DEF Agree
<1>4. /\ f \in [0 .. m -> Nat \ {0}] /\ f[m] = b
      /\ \A j \in 1 .. m : f[j] = f[j - 1] + pops[j]
      /\ \A i, j \in 0 .. m : i < j => f[i] < f[j]
      /\ \A j \in 0 .. m : f[j] <= b
  <2>1. /\ f \in [0 .. m -> Nat \ {0}] /\ f[m] = b
        /\ \A j \in 1 .. m : f[j] = f[j - 1] + pops[j]
        /\ \A i, j \in 0 .. m : i < j => f[i] < f[j]
    BY <1>3 DEF Depths
  <2> HIDE DEF m, b
  <2>2. ASSUME NEW j \in 0 .. m PROVE f[j] <= b
    <3>1. j = m \/ j < m
      BY <1>1
    <3>2. f[j] \in Nat
      BY <2>1
    <3>3. QED
      BY <1>1, <2>1, <3>1, <3>2
  <2>3. QED
    BY <2>1, <2>2
<1>5. Len(blocks') = b + p
  OBVIOUS
<1>6. \A i \in 1 .. b + 1 : scopes'[i] = scopes[i]
  BY <1>1
<1>7. \A i \in 1 .. b : blocks'[i] = blocks[i]
  OBVIOUS
<1> HIDE DEF m, b
<1>7a. PICK g : g = [j \in 0 .. m + 1 |-> IF j <= m THEN f[j] ELSE b + p]
  OBVIOUS
<1>8. Depths(g)'
  <2>1. g \in [0 .. m + 1 -> Nat \ {0}]
    BY <1>1, <1>4, <1>7a
  <2>2. g[m + 1] = b + p
    BY <1>1, <1>7a
  <2>3. ASSUME NEW j \in 1 .. m + 1 PROVE g[j] = g[j - 1] + pops'[j]
    <3>1. CASE j = m + 1
      BY <1>1, <1>2, <1>4, <1>7a, <3>1
    <3>2. CASE j \in 1 .. m
      BY <1>1, <1>2, <1>4, <1>7a, <3>2
    <3>3. j = m + 1 \/ j \in 1 .. m
      BY <1>1
    <3>4. QED
      BY <3>1, <3>2, <3>3
  <2>4. ASSUME NEW i \in 0 .. m + 1, NEW j \in 0 .. m + 1, i < j PROVE g[i] < g[j]
    <3>1. i \in 0 .. m /\ g[i] = f[i] /\ f[i] \in Nat
      BY <1>1, <1>4, <1>7a, <2>4
    <3>2. CASE j = m + 1
      BY <1>1, <1>4, <2>2, <3>1, <3>2
    <3>3. CASE j \in 0 .. m
      BY <1>1, <1>4, <1>7a, <2>4, <3>1, <3>3
    <3>4. QED
      BY <1>1, <3>2, <3>3
  <2>5. QED
    BY <1>2, <1>5, <2>1, <2>2, <2>3, <2>4 DEF Depths
<1>9. ASSUME NEW j \in 0 .. m + 1 PROVE AgreeAt(g[j])'
  <2>1. CASE j = m + 1
    <3>1. g[j] = b + p
      BY <1>1, <1>7a, <2>1
    <3>2. QED
      BY <1>5, <3>1 DEF AgreeAt
  <2>2. CASE j \in 0 .. m
    <3>1. g[j] = f[j] /\ f[j] \in Nat /\ f[j] <= b /\ AgreeAt(f[j])
      <4>1. g[j] = f[j]
        BY <1>1, <1>7a, <2>2
      <4>2. f[j] \in Nat /\ f[j] <= b
        BY <1>1, <1>4, <2>2
      <4>3. AgreeAt(f[j])
        BY <1>3, <2>2
      <4>4. QED
        BY <4>1, <4>2, <4>3
    <3>1a. PICK k : k = f[j]
      OBVIOUS
    <3>2. \A i \in 1 .. k + 1 : scopes'[i] = scopes[i]
      BY <1>1, <1>6, <3>1, <3>1a
    <3>3. \A i \in 1 .. k : blocks'[i] = blocks[i]
      BY <1>1, <1>7, <3>1, <3>1a
    <3>4. k \in Nat /\ AgreeAt(k) /\ g[j] = k
      BY <3>1, <3>1a
    <3>5. AgreeAt(k)'
      BY <3>2, <3>3, <3>4, AgreeKept
    <3>6. QED
      BY <3>4, <3>5
  <2>3. QED
    BY <1>1, <2>1, <2>2
<1>10. QED
  BY <1>2, <1>8, <1>9 DEF Agree


\* The last maps change: every depth but the last is as it was.
LEMMA DeclaredAgree ==
    ASSUME ChainType, ChainType', Agree,
           pops' = pops, Len(blocks') = Len(blocks),
           \A i \in 1 .. Len(scopes) : i # Len(scopes) => scopes'[i] = scopes[i],
           \A i \in 1 .. Len(blocks) : i # Len(blocks) => blocks'[i] = blocks[i],
           AgreeAt(Len(blocks))'
    PROVE  Agree'
<1> DEFINE m == Len(pops)
           b == Len(blocks)
<1>1. m \in Nat /\ b \in Nat \ {0} /\ Len(scopes) = b + 1
  BY LenProperties DEF ChainType
<1>2. PICK f : Depths(f) /\ \A j \in 0 .. m : AgreeAt(f[j])
  BY DEF Agree
<1>3. /\ f \in [0 .. m -> Nat \ {0}] /\ f[m] = b
      /\ \A j \in 0 .. m : j < m => f[j] < b
  <2>1. m \in 0 .. m
    BY <1>1
  <2>2. QED
    BY <1>2, <2>1 DEF Depths
<1>4. Depths(f)'
  BY <1>2 DEF Depths
<1>5. \A i \in 1 .. b + 1 : i # b + 1 => scopes'[i] = scopes[i]
  BY <1>1
<1>6. \A i \in 1 .. b : i # b => blocks'[i] = blocks[i]
  OBVIOUS
<1>7. Len(blocks') = b
  OBVIOUS
<1> HIDE DEF b
<1>8. ASSUME NEW j \in 0 .. m PROVE AgreeAt(f[j])'
  <2>1. CASE j = m
    <3>1. f[j] = b
      BY <1>3, <2>1
    <3>2. QED
      BY <1>7, <3>1 DEF AgreeAt
  <2>2. CASE j < m
    <3>1. PICK k : k = f[j]
      OBVIOUS
    <3>2. k \in Nat /\ k < b /\ AgreeAt(k)
      BY <1>2, <1>3, <2>2, <3>1
    <3>3. \A i \in 1 .. k + 1 : scopes'[i] = scopes[i]
      BY <1>1, <1>5, <3>2
    <3>4. \A i \in 1 .. k : blocks'[i] = blocks[i]
      BY <1>1, <1>6, <3>2
    <3>5. AgreeAt(k)'
      BY <3>2, <3>3, <3>4, AgreeKept
    <3>6. QED
      BY <3>1, <3>5
  <2>3. QED
    BY <1>1, <2>1, <2>2
<1>9. QED
  BY <1>4, <1>8 DEF Agree

\* The first n elements of a sequence.
LEMMA FirstPart ==
    ASSUME NEW S, NEW s \in Seq(S), NEW n \in 0 .. Len(s)
    PROVE  /\ SubSeq(s, 1, n) \in Seq(S) /\ Len(SubSeq(s, 1, n)) = n
           /\ \A i \in 1 .. n : SubSeq(s, 1, n)[i] = s[i]
<1>1. Len(s) \in Nat
  BY LenProperties
<1>2. \A i \in 1 .. n : s[i] \in S
  BY <1>1, ElementOfSeq
<1>3. n \in Int /\ 1 \in Int
  BY <1>1
<1>4. SubSeq(s, 1, n) \in Seq(S)
  BY <1>2, <1>3, SubSeqProperties
<1>5. Len(SubSeq(s, 1, n)) = IF 1 <= n THEN n - 1 + 1 ELSE 0
  BY <1>2, <1>3, SubSeqProperties
<1>6. \A i \in 1 .. n - 1 + 1 : SubSeq(s, 1, n)[i] = s[1 + i - 1]
  BY <1>2, <1>3, SubSeqProperties
<1>7. QED
  BY <1>1, <1>3, <1>4, <1>5, <1>6

\* A block is left: the depth before its own is the last one.
LEMMA LeftAgree ==
    ASSUME ChainType, Agree, pops # << >>, Leave
    PROVE  ChainType' /\ Agree'
<1> DEFINE m == Len(pops)
           b == Len(blocks)
           p == pops[m]
<1>1. m \in Nat \ {0} /\ b \in Nat \ {0} /\ Len(scopes) = b + 1 /\ p \in {1, 2}
  BY LenProperties, EmptySeq, ElementOfSeq DEF ChainType
<1>2. PICK f : Depths(f) /\ \A j \in 0 .. m : AgreeAt(f[j])
  BY DEF Agree
<1>3. /\ f \in [0 .. m -> Nat \ {0}] /\ f[m] = b
      /\ \A j \in 1 .. m : f[j] = f[j - 1] + pops[j]
      /\ \A i, j \in 0 .. m : i < j => f[i] < f[j]
  BY <1>2 DEF Depths
<1>4. b - p = f[m - 1] /\ b - p \in Nat \ {0}
  <2>1. m \in 1 .. m /\ m - 1 \in 0 .. m
    BY <1>1
  <2>2. f[m] = f[m - 1] + p /\ f[m - 1] \in Nat \ {0}
    BY <1>3, <2>1
  <2> HIDE DEF m, b, p
  <2>3. QED
    BY <1>1, <1>3, <2>2
<1>5. /\ scopes' = SubSeq(scopes, 1, Len(scopes) - p)
      /\ blocks' = SubSeq(blocks, 1, b - p)
      /\ pops' = SubSeq(pops, 1, m - 1)
      /\ decls' = decls
  BY DEF Leave, Last
<1> HIDE DEF m, b, p
<1>6. /\ pops' \in Seq({1, 2}) /\ Len(pops') = m - 1
      /\ \A j \in 1 .. m - 1 : pops'[j] = pops[j]
  <2>1. pops \in Seq({1, 2}) /\ m - 1 \in 0 .. Len(pops)
    BY <1>1 DEF ChainType, m
  <2>2. QED
    BY <1>5, <2>1, FirstPart
<1>7. /\ blocks' \in Seq(Block) /\ Len(blocks') = b - p
      /\ \A i \in 1 .. b - p : blocks'[i] = blocks[i]
  <2>1. blocks \in Seq(Block) /\ b - p \in 0 .. Len(blocks)
    BY <1>1, <1>4 DEF ChainType, b
  <2>2. QED
    BY <1>5, <2>1, FirstPart
<1>8. /\ scopes' \in Seq(Scope) /\ Len(scopes') = b - p + 1
      /\ \A i \in 1 .. b - p + 1 : scopes'[i] = scopes[i]
  <2> DEFINE n == Len(scopes) - p
  <2>1. scopes \in Seq(Scope) /\ n \in 0 .. Len(scopes) /\ n = b - p + 1
    BY <1>1, <1>4 DEF ChainType
  <2>2. scopes' = SubSeq(scopes, 1, n)
    BY <1>5
  <2> HIDE DEF n
  <2>3. /\ scopes' \in Seq(Scope) /\ Len(scopes') = n
        /\ \A i \in 1 .. n : scopes'[i] = scopes[i]
    BY <2>1, <2>2, FirstPart
  <2>4. QED
    BY <2>1, <2>3
<1>9. ChainType'
  BY <1>4, <1>5, <1>6, <1>7, <1>8 DEF ChainType, Scope, Block
<1>10. PICK g : g = [j \in 0 .. m - 1 |-> f[j]]
  OBVIOUS
<1>11. g \in [0 .. m - 1 -> Nat \ {0}] /\ \A j \in 0 .. m - 1 : g[j] = f[j]
  BY <1>1, <1>3, <1>10
<1>12. Depths(g)'
  <2>1. g[m - 1] = b - p
    BY <1>1, <1>4, <1>11
  <2>2. ASSUME NEW j \in 1 .. m - 1 PROVE g[j] = g[j - 1] + pops'[j]
    BY <1>1, <1>3, <1>6, <1>11
  <2>3. \A i, j \in 0 .. m - 1 : i < j => g[i] < g[j]
    BY <1>1, <1>3, <1>11
  <2>4. QED
    BY <1>6, <1>7, <1>11, <2>1, <2>2, <2>3 DEF Depths
<1>13. ASSUME NEW j \in 0 .. m - 1 PROVE AgreeAt(g[j])'
  <2>1. PICK k : k = f[j]
    OBVIOUS
  <2>2. k \in Nat /\ k = g[j]
    BY <1>1, <1>3, <1>11, <2>1
  <2>3. AgreeAt(k)
    BY <1>1, <1>2, <2>1
  <2>4. k <= b - p
    <3>1. j = m - 1 \/ j < m - 1
      BY <1>1
    <3>2. j \in 0 .. m /\ m - 1 \in 0 .. m
      BY <1>1
    <3>3. j < m - 1 => f[j] < f[m - 1]
      BY <1>3, <3>2
    <3>4. j = m - 1 => k = b - p
      BY <1>4, <2>1
    <3>5. j < m - 1 => k < b - p
      BY <1>4, <2>1, <3>3
    <3>6. QED
      BY <1>4, <2>2, <3>1, <3>4, <3>5
  <2>5. \A i \in 1 .. k + 1 : scopes'[i] = scopes[i]
    BY <1>1, <1>4, <1>8, <2>2, <2>4
  <2>6. \A i \in 1 .. k : blocks'[i] = blocks[i]
    BY <1>1, <1>4, <1>7, <2>2, <2>4
  <2>7. AgreeAt(k)'
    BY <2>2, <2>3, <2>5, <2>6, AgreeKept
  <2>8. QED
    BY <2>2, <2>7
<1>14. QED
  BY <1>6, <1>9, <1>12, <1>13 DEF Agree


-----------------------------------------------------------------------------
(* What a name means. *)

\* No local variable has the name of a function, no function of the module
\* that of a printer, the built-in functions of C are declared where they are
\* used, and no name is that of a loop's index.
PlainNames == /\ Locals \cap (Functions \cup Variadics) = {}
              /\ Functions \cap Printers = {}
              /\ Builtins \subseteq Printers \cup ExternFns
              /\ LoopIndex \notin Names \cup {"printf"}

\* Where the chains agree on a name, its emitted identifier means what the
\* checker took it for.
LEMMA MeaningAgrees ==
    ASSUME PlainNames, NEW sc \in Seq(Scope), NEW bl \in Seq(Block), NEW n \in Names,
           n \in Locals => Lookup(sc, n) = Lookup(bl, n)
    PROVE  Infer(sc, n) = InC(bl, n)
<1> DEFINE l == Lookup(sc, n)
           e == Emitted(n)
           c == Lookup(bl, e.name)
<1>1. \A i \in 1 .. Len(sc) : DOMAIN sc[i] \subseteq Locals
  BY ElementOfSeq, MapDomain DEF Scope
<1>2. \A i \in 1 .. Len(bl) : DOMAIN bl[i] \subseteq Locals \cup {LoopIndex}
  BY ElementOfSeq, MapDomain DEF Block
<1>3. ASSUME n \notin Locals PROVE l = Unknown
  <2>1. Len(sc) \in Nat /\ \A i \in 1 .. Len(sc) : n \notin DOMAIN sc[i]
    BY <1>1, <1>3, LenProperties
  <2>2. LookupTo(sc, Len(sc), n) = Unknown
    BY <2>1, LookupNowhere
  <2>3. QED
    BY <2>2, LookupIsTo
<1>4. ASSUME NEW m, m \notin Locals \cup {LoopIndex} PROVE Lookup(bl, m) = Unknown
  <2>1. Len(bl) \in Nat /\ \A i \in 1 .. Len(bl) : m \notin DOMAIN bl[i]
    BY <1>2, <1>4, LenProperties
  <2>2. LookupTo(bl, Len(bl), m) = Unknown
    BY <2>1, LookupNowhere
  <2>3. QED
    BY <2>2, LookupIsTo
<1>5. /\ e.vex <=> (n \in (VexFns \cup Variadics) \ (Printers \cup ExternFns))
      /\ e.name = IF n \in Printers THEN "printf" ELSE n
  BY DEF Emitted
<1>6. /\ InC(bl, n) = CASE e.vex /\ n \in VexFns                -> Fn(n)
                        [] ~e.vex /\ c # Unknown            -> c
                        [] /\ ~e.vex /\ c = Unknown
                           /\ e.name \in ExternFns \cup {"printf"} -> Fn(e.name)
                        [] OTHER                               -> Unknown
      /\ Infer(sc, n) = CASE l # Unknown                                     -> l
                          [] l = Unknown /\ n \in Functions                  -> Fn(n)
                          [] l = Unknown /\ n \in Variadics \ Functions      -> BuiltIn(n)
                          [] OTHER                                               -> Unknown
  BY DEF InC, Infer
<1>7. "printf" \in Variadics /\ "printf" \notin Locals \cup {LoopIndex}
  BY DEF Variadics, PlainNames
<1> HIDE DEF l, e, c
<1>8. CASE n \in Locals
  <2>1. n \notin Functions /\ n \notin Variadics /\ n \notin Printers
        /\ n \notin VexFns /\ n \notin ExternFns /\ n # "printf"
    BY <1>7, <1>8 DEF PlainNames, Functions, Variadics
  <2>2. ~e.vex /\ e.name = n
    BY <1>5, <2>1
  <2>3. c = l
    BY <1>8, <2>2 DEF c, l, e
  <2>4. CASE l = Unknown
    BY <1>6, <2>1, <2>2, <2>3, <2>4
  <2>5. CASE l # Unknown
    BY <1>6, <2>1, <2>2, <2>3, <2>5
  <2>6. QED
    BY <2>4, <2>5
<1>9. CASE n \notin Locals /\ n \in Printers
  <2>1. l = Unknown /\ n \notin Functions /\ n \in Variadics
    BY <1>3, <1>9 DEF PlainNames, Variadics
  <2>2. ~e.vex /\ e.name = "printf"
    BY <1>5, <1>9
  <2>3. c = Unknown
    BY <1>4, <1>7, <2>2 DEF c
  <2>4. Infer(sc, n) = BuiltIn(n)
    BY <1>6, <2>1
  <2>5. InC(bl, n) = Fn("printf")
    BY <1>6, <2>2, <2>3
  <2>6. QED
    BY <1>9, <2>4, <2>5 DEF BuiltIn
<1>10. CASE n \notin Locals /\ n \notin Printers
  <2>1. n \in Functions /\ l = Unknown /\ n # LoopIndex
    BY <1>3, <1>10 DEF PlainNames, Names, Functions
  <2>2. e.name = n /\ Infer(sc, n) = Fn(n)
    BY <1>5, <1>6, <1>10, <2>1
  <2>3. c = Unknown
    BY <1>4, <1>10, <2>1, <2>2 DEF c
  <2>4. CASE n \in VexFns
    <3>1. e.vex
      BY <1>5, <1>10, <2>4, FnAssumption
    <3>2. QED
      BY <1>6, <2>2, <2>4, <3>1
  <2>5. CASE n \in ExternFns
    <3>1. ~e.vex
      BY <1>5, <2>5
    <3>2. QED
      BY <1>6, <2>2, <2>3, <2>5, <3>1
  <2>6. QED
    BY <2>1, <2>4, <2>5 DEF Functions
<1>11. QED
  BY <1>8, <1>9, <1>10


UsesAgree == \A u \in uses : u.vex = u.c

\* The identifiers of an expression are noted with the same meaning on both
\* sides where the chains agree on them.
LEMMA CheckAgrees ==
    ASSUME PlainNames, UsesAgree, scopes \in Seq(Scope), NEW bl \in Seq(Block),
           NEW used \in SUBSET Names, Check(used, bl),
           \A n \in used : n \in Locals => Lookup(scopes, n) = Lookup(bl, n)
    PROVE  UsesAgree'
<1>1. ASSUME NEW n \in used PROVE Infer(scopes, n) = InC(bl, n)
  BY <1>1, MeaningAgrees
<1>2. \A u \in Meanings(used, scopes, bl) : u.vex = u.c
  BY <1>1 DEF Meanings
<1>3. uses' = uses \/ uses' = uses \cup Meanings(used, scopes, bl)
  BY DEF Check
<1>4. QED
  BY <1>2, <1>3 DEF UsesAgree

-----------------------------------------------------------------------------
(* The steps. *)

\* Where a statement begins, the chains agree.
LEMMA AgreeNow ==
    ASSUME ChainInv
    PROVE  AgreeAt(Len(blocks)) /\ \A n \in Locals : Lookup(scopes, n) = Lookup(blocks, n)
<1>1. PICK f : Depths(f) /\ \A j \in 0 .. Len(pops) : AgreeAt(f[j])
  BY DEF ChainInv, Agree
<1>2. Len(pops) \in 0 .. Len(pops)
  BY LenProperties DEF ChainInv, ChainType
<1>3. AgreeAt(Len(blocks))
  BY <1>1, <1>2 DEF Depths
<1>4. ASSUME NEW n \in Locals PROVE Lookup(scopes, n) = Lookup(blocks, n)
  <2>1. Lookup(scopes, n) = LookupTo(scopes, Len(scopes), n)
    BY LookupIsTo DEF ChainInv, ChainType
  <2>2. Lookup(blocks, n) = LookupTo(blocks, Len(blocks), n)
    BY LookupIsTo DEF ChainInv, ChainType
  <2>3. QED
    BY <1>3, <2>1, <2>2 DEF AgreeAt, ChainInv, ChainType
<1>5. QED
  BY <1>3, <1>4

\* A let declares its variable in both chains.
LEMMA LetChains ==
    ASSUME ChainInv, NEW x \in Locals, NEW used, Let(x, used)
    PROVE  /\ ChainInv'
           /\ \A n \in Locals : n # x => Lookup(scopes, n) = Lookup(blocks', n)
<1> DEFINE i == decls + 1
           b == Len(blocks)
           sc == SetLast(scopes, Declare(Last(scopes), x, Var(i)))
           bl == SetLast(blocks, Declare(Last(blocks), x, Var(i)))
<1>1. /\ scopes' = sc /\ blocks' = bl /\ decls' = i /\ pops' = pops
  BY DEF Let
<1>2. /\ scopes \in Seq(Scope) /\ blocks \in Seq(Block) /\ i \in Nat
      /\ b \in Nat \ {0} /\ Len(scopes) = b + 1
      /\ scopes # << >> /\ blocks # << >> /\ x \in Locals \cup {LoopIndex}
  <2>1. Len(<< >>) = 0
    BY EmptySeq
  <2>2. Len(scopes) # 0 /\ Len(blocks) # 0
    BY DEF ChainInv, ChainType
  <2>3. QED
    BY <2>1, <2>2 DEF ChainInv, ChainType
<1> HIDE DEF i
<1>2a. sc = SetLast(scopes, Declare(Last(scopes), x, Var(i)))
  OBVIOUS
<1>2b. bl = SetLast(blocks, Declare(Last(blocks), x, Var(i)))
  OBVIOUS
<1> HIDE DEF sc, bl, b
<1>3. ASSUME NEW n
      PROVE  /\ sc \in Seq(Scope) /\ Len(sc) = Len(scopes)
             /\ \A k \in 1 .. Len(scopes) : k # Len(scopes) => sc[k] = scopes[k]
             /\ n = x => LookupTo(sc, Len(scopes), n) = Var(i)
             /\ n # x => LookupTo(sc, Len(scopes), n) = LookupTo(scopes, Len(scopes), n)
  <2>1. scopes \in Seq(MapOver(Locals))
    BY <1>2 DEF Scope
  <2>2. sc \in Seq(MapOver(Locals)) /\ DeclaredIn(scopes, sc, x, Var(i))
    BY <1>2, <1>2a, <2>1, DeclaredChain
  <2>3. \A k \in 1 .. Len(scopes) : k # Len(scopes) => sc[k] = scopes[k]
    BY <2>2 DEF DeclaredIn
  <2>4. /\ n = x => LookupTo(sc, Len(scopes), n) = Var(i)
        /\ n # x => LookupTo(sc, Len(scopes), n) = LookupTo(scopes, Len(scopes), n)
    BY <1>2, <1>2a, <2>1, LookupDeclared
  <2>5. QED
    BY <2>2, <2>3, <2>4 DEF Scope, DeclaredIn
<1>4. ASSUME NEW n
      PROVE  /\ bl \in Seq(Block) /\ Len(bl) = b
             /\ \A k \in 1 .. b : k # b => bl[k] = blocks[k]
             /\ n = x => LookupTo(bl, b, n) = Var(i)
             /\ n # x => LookupTo(bl, b, n) = LookupTo(blocks, b, n)
  <2> DEFINE D == Locals \cup {LoopIndex}
  <2>1. blocks \in Seq(MapOver(D)) /\ x \in D /\ Block = MapOver(D)
    BY <1>2 DEF Block
  <2> HIDE DEF D
  <2>2. bl \in Seq(MapOver(D)) /\ DeclaredIn(blocks, bl, x, Var(i))
    BY <1>2, <1>2b, <2>1, DeclaredChain
  <2>3. \A k \in 1 .. Len(blocks) : k # Len(blocks) => bl[k] = blocks[k]
    BY <2>2 DEF DeclaredIn
  <2>4. /\ n = x => LookupTo(bl, Len(blocks), n) = Var(i)
        /\ n # x => LookupTo(bl, Len(blocks), n) = LookupTo(blocks, Len(blocks), n)
    BY <1>2, <1>2b, <2>1, LookupDeclared
  <2>5. QED
    BY <2>1, <2>2, <2>3, <2>4 DEF b, DeclaredIn
<1>5. ChainType'
  BY <1>1, <1>2, <1>3, <1>4 DEF ChainInv, ChainType, Scope, Block
<1>6. AgreeAt(b)
  BY AgreeNow DEF b
<1>7. ASSUME NEW n \in Locals PROVE LookupTo(scopes', b + 1, n) = LookupTo(blocks', b, n)
  BY <1>1, <1>2, <1>3, <1>4, <1>6 DEF AgreeAt
<1>8. AgreeAt(Len(blocks))'
  <2>1. Len(blocks') = b
    BY <1>1, <1>4
  <2>2. QED
    BY <1>7, <2>1 DEF AgreeAt
<1>9. Agree'
  <2>1. Len(blocks') = Len(blocks)
    BY <1>1, <1>4 DEF b
  <2>2. \A k \in 1 .. Len(scopes) : k # Len(scopes) => scopes'[k] = scopes[k]
    BY <1>1, <1>3
  <2>3. \A k \in 1 .. Len(blocks) : k # Len(blocks) => blocks'[k] = blocks[k]
    BY <1>1, <1>4 DEF b
  <2>4. AgreeAt(Len(blocks))'
    BY <1>8
  <2>5. QED
    BY <1>1, <1>5, <2>1, <2>2, <2>3, <2>4, DeclaredAgree DEF ChainInv
<1>10. ASSUME NEW n \in Locals, n # x PROVE Lookup(scopes, n) = Lookup(blocks', n)
  <2>1. Lookup(blocks', n) = LookupTo(blocks', b, n)
    BY <1>1, <1>4, LookupIsTo
  <2>2. LookupTo(blocks', b, n) = LookupTo(blocks, b, n)
    BY <1>1, <1>4, <1>10
  <2>3. Lookup(blocks, n) = LookupTo(blocks, b, n)
    BY <1>2, LookupIsTo DEF b
  <2>4. QED
    BY <2>1, <2>2, <2>3, AgreeNow
<1>11. QED
  BY <1>5, <1>9, <1>10 DEF ChainInv


\* A row of two at the end is two at the end, one by one.
LEMMA TwoAppended ==
    ASSUME NEW S, NEW s \in Seq(S), NEW a \in S, NEW b \in S
    PROVE  s \o <<a, b>> = Append(Append(s, a), b)
<1> DEFINE l == s \o <<a, b>>
           m == Append(s, a)
           r == Append(m, b)
<1>1. <<a, b>> \in Seq(S) /\ Len(<<a, b>>) = 2
  OBVIOUS
<1>2. /\ m \in Seq(S) /\ Len(m) = Len(s) + 1
      /\ \A i \in 1 .. Len(s) : m[i] = s[i]
      /\ m[Len(s) + 1] = a
  BY AppendProperties
<1>3. Len(s) \in Nat
  BY LenProperties
<1> HIDE DEF m
<1>4. /\ r \in Seq(S) /\ Len(r) = Len(m) + 1
      /\ \A i \in 1 .. Len(m) : r[i] = m[i]
      /\ r[Len(m) + 1] = b
  BY <1>2, AppendProperties
<1> HIDE DEF r
<1>5. /\ l \in Seq(S) /\ Len(l) = Len(s) + 2
      /\ \A i \in 1 .. Len(s) + 2 : l[i] = IF i <= Len(s) THEN s[i] ELSE <<a, b>>[i - Len(s)]
  BY <1>1, ConcatProperties
<1> HIDE DEF l
<1>6. ASSUME NEW i \in 1 .. Len(l) PROVE l[i] = r[i]
  <2>1. CASE i \in 1 .. Len(s)
    BY <1>2, <1>3, <1>4, <1>5, <2>1
  <2>2. CASE i = Len(s) + 1
    <3>1. l[i] = <<a, b>>[1]
      BY <1>3, <1>5, <2>2
    <3>2. r[i] = a
      BY <1>2, <1>3, <1>4, <2>2
    <3>3. QED
      BY <3>1, <3>2
  <2>3. CASE i = Len(s) + 2
    <3>1. l[i] = <<a, b>>[2]
      BY <1>3, <1>5, <2>3
    <3>2. r[i] = b
      BY <1>2, <1>3, <1>4, <2>3
    <3>3. QED
      BY <3>1, <3>2
  <2>4. QED
    BY <1>3, <1>5, <2>1, <2>2, <2>3
<1>7. Len(l) = Len(r)
  BY <1>2, <1>3, <1>4, <1>5
<1>8. l = r
  BY <1>4, <1>5, <1>6, <1>7, SeqEqual
<1>9. QED
  BY <1>8 DEF l, r, m


\* Two maps at the end change none before them.
LEMMA TwoChain ==
    ASSUME NEW M, NEW chain \in Seq(M), NEW s \in M, NEW t \in M,
           NEW new, new = chain \o <<s, t>>
    PROVE  new \in Seq(M) /\ Longer(chain, new, 2)
<1> DEFINE mid == Append(chain, s)
<1>1. new = Append(mid, t) /\ mid = Append(chain, s)
  BY TwoAppended
<1> HIDE DEF mid
<1>2. mid \in Seq(M) /\ Longer(chain, mid, 1)
  BY <1>1, AppendedChain
<1>3. new \in Seq(M) /\ Longer(mid, new, 1)
  BY <1>1, <1>2, AppendedChain
<1>4. Len(chain) \in Nat
  BY LenProperties
<1>5. QED
  BY <1>2, <1>3, <1>4 DEF Longer

\* The inner one of the two answers first, then the outer one.
LEMMA LookupTwo ==
    ASSUME NEW M, NEW chain \in Seq(M), NEW s \in M, NEW t \in M,
           NEW new, new = chain \o <<s, t>>
    PROVE  \E mid : AnswersFirst(mid, s, chain) /\ AnswersFirst(new, t, mid)
<1> DEFINE mid == Append(chain, s)
<1>1. new = Append(mid, t) /\ mid = Append(chain, s)
  BY TwoAppended
<1> HIDE DEF mid
<1>2. mid \in Seq(M)
  BY <1>1, AppendedChain
<1>3. AnswersFirst(mid, s, chain)
  BY <1>1, LookupAppended
<1>4. AnswersFirst(new, t, mid)
  BY <1>1, <1>2, LookupAppended
<1>5. QED
  BY <1>3, <1>4

\* A block without variables of its own changes no answer.
LEMMA EnterChains ==
    ASSUME ChainInv, NEW used, Enter(used)
    PROVE  ChainInv'
<1>1. /\ scopes' = Append(scopes, NoNames) /\ blocks' = Append(blocks, NoNames)
      /\ pops' = Append(pops, 1) /\ decls' = decls
  BY DEF Enter
<1>2. /\ scopes \in Seq(Scope) /\ blocks \in Seq(Block) /\ pops \in Seq({1, 2})
      /\ Len(blocks) \in Nat \ {0} /\ Len(scopes) = Len(blocks) + 1 /\ decls \in Nat
  BY DEF ChainInv, ChainType
<1>3. NoNames \in Scope /\ NoNames \in Block /\ DOMAIN NoNames = {}
  BY NoNamesType DEF Scope, Block
<1>4. /\ scopes' \in Seq(Scope) /\ Longer(scopes, scopes', 1)
      /\ blocks' \in Seq(Block) /\ Longer(blocks, blocks', 1)
  BY <1>1, <1>2, <1>3, AppendedChain
<1>5. ASSUME NEW n
      PROVE  /\ LookupTo(scopes', Len(scopes'), n) = LookupTo(scopes, Len(scopes), n)
             /\ LookupTo(blocks', Len(blocks'), n) = LookupTo(blocks, Len(blocks), n)
  <2>1. AnswersFirst(scopes', NoNames, scopes) /\ AnswersFirst(blocks', NoNames, blocks)
    BY <1>1, <1>2, <1>3, LookupAppended
  <2>2. QED
    BY <1>3, <2>1 DEF AnswersFirst
<1>6. pops' \in Seq({1, 2})
  BY <1>1, <1>2, AppendProperties
<1>7. Len(blocks') = Len(blocks) + 1 /\ Len(scopes') = Len(blocks') + 1
  BY <1>2, <1>4, <1>5 DEF Longer
<1>8. ChainType'
  BY <1>1, <1>2, <1>4, <1>5, <1>6, <1>7 DEF ChainType, Scope, Block
<1>9. AgreeAt(Len(blocks))'
  <2>1. ASSUME NEW n \in Locals
        PROVE  LookupTo(scopes', Len(scopes'), n) = LookupTo(blocks', Len(blocks'), n)
    BY <1>2, <1>4, <1>5, AgreeNow DEF AgreeAt
  <2>2. QED
    BY <1>7, <2>1 DEF AgreeAt
<1>10. Agree'
  <2>1. /\ \A i \in 1 .. Len(scopes) : scopes'[i] = scopes[i]
        /\ \A i \in 1 .. Len(blocks) : blocks'[i] = blocks[i]
    BY <1>4, <1>5 DEF Longer
  <2>2. 1 \in {1, 2}
    OBVIOUS
  <2>3. QED
    BY <1>1, <1>7, <1>8, <1>9, <2>1, <2>2, EnteredAgree DEF ChainInv
<1>11. QED
  BY <1>8, <1>10 DEF ChainInv

\* A loop declares its variable in both chains, and its index in C alone.
LEMMA ForChains ==
    ASSUME ChainInv, LoopIndex \notin Locals, NEW x \in Locals, NEW used, For(x, used)
    PROVE  /\ ChainInv'
           /\ \A n \in Locals : n # x => Lookup(scopes, n) = Lookup(blocks', n)
<1> DEFINE i == decls + 1
           index == [n \in {LoopIndex} |-> <<"index", decls + 1>>]
           body == Declare(NoNames, x, Var(i))
<1>1. /\ scopes' = scopes \o <<body, NoNames>> /\ blocks' = blocks \o <<index, body>>
      /\ pops' = Append(pops, 2) /\ decls' = i
  BY DEF For
<1>2. /\ scopes \in Seq(Scope) /\ blocks \in Seq(Block) /\ pops \in Seq({1, 2})
      /\ Len(blocks) \in Nat \ {0} /\ Len(scopes) = Len(blocks) + 1 /\ i \in Nat
  BY DEF ChainInv, ChainType
<1>3. NoNames \in Scope /\ NoNames \in Block /\ DOMAIN NoNames = {}
  BY NoNamesType DEF Scope, Block
<1>4. body \in Scope /\ body \in Block
  BY <1>2, <1>3, DeclareType DEF Scope, Block
<1>5. DOMAIN body = {x} /\ body[x] = Var(i)
  BY <1>3 DEF Declare
<1>6. index \in Block /\ DOMAIN index = {LoopIndex}
  <2> DEFINE Ds == {<<"param", n>> : n \in Locals} \cup {Var(j) : j \in Nat}
                              \cup {<<"index", j>> : j \in Nat}
  <2>1. <<"index", decls + 1>> \in Ds
    BY <1>2
  <2> HIDE DEF Ds
  <2>2. index \in [{LoopIndex} -> Ds]
    BY <2>1
  <2> HIDE DEF index
  <2>3. QED
    BY <2>2 DEF Block, MapOver, Ds
<1> HIDE DEF i, index, body
<1>7. /\ scopes' \in Seq(Scope) /\ Longer(scopes, scopes', 2)
      /\ blocks' \in Seq(Block) /\ Longer(blocks, blocks', 2)
  BY <1>1, <1>2, <1>3, <1>4, <1>6, TwoChain
<1>8. ASSUME NEW n
      PROVE  /\ n = x => LookupTo(scopes', Len(scopes'), n) = Var(i)
             /\ n # x => LookupTo(scopes', Len(scopes'), n) = LookupTo(scopes, Len(scopes), n)
             /\ n = x => LookupTo(blocks', Len(blocks'), n) = Var(i)
             /\ n # x /\ n # LoopIndex
                  => LookupTo(blocks', Len(blocks'), n) = LookupTo(blocks, Len(blocks), n)
  <2>1. PICK m : AnswersFirst(m, body, scopes) /\ AnswersFirst(scopes', NoNames, m)
    BY <1>1, <1>2, <1>3, <1>4, LookupTwo
  <2>2. PICK k : AnswersFirst(k, index, blocks) /\ AnswersFirst(blocks', body, k)
    BY <1>1, <1>2, <1>4, <1>6, LookupTwo
  <2>3. /\ LookupTo(scopes', Len(scopes'), n) = LookupTo(m, Len(m), n)
        /\ n = x => LookupTo(m, Len(m), n) = Var(i)
        /\ n # x => LookupTo(m, Len(m), n) = LookupTo(scopes, Len(scopes), n)
    BY <1>3, <1>5, <2>1 DEF AnswersFirst
  <2>4. /\ n = x => LookupTo(blocks', Len(blocks'), n) = Var(i)
        /\ n # x => LookupTo(blocks', Len(blocks'), n) = LookupTo(k, Len(k), n)
    BY <1>5, <2>2 DEF AnswersFirst
  <2>5. n # LoopIndex => LookupTo(k, Len(k), n) = LookupTo(blocks, Len(blocks), n)
    BY <1>6, <2>2 DEF AnswersFirst
  <2>6. QED
    BY <2>3, <2>4, <2>5
<1>9. pops' \in Seq({1, 2})
  BY <1>1, <1>2, AppendProperties
<1>10. Len(blocks') = Len(blocks) + 2 /\ Len(scopes') = Len(blocks') + 1
  BY <1>2, <1>7, <1>8 DEF Longer
<1>11. ChainType'
  BY <1>1, <1>2, <1>7, <1>8, <1>9, <1>10 DEF ChainType, Scope, Block
<1>12. AgreeAt(Len(blocks))'
  <2>1. ASSUME NEW n \in Locals
        PROVE  LookupTo(scopes', Len(scopes'), n) = LookupTo(blocks', Len(blocks'), n)
    BY <1>2, <1>7, <1>8, AgreeNow DEF AgreeAt
  <2>2. QED
    BY <1>10, <2>1 DEF AgreeAt
<1>13. Agree'
  <2>1. /\ \A k \in 1 .. Len(scopes) : scopes'[k] = scopes[k]
        /\ \A k \in 1 .. Len(blocks) : blocks'[k] = blocks[k]
    BY <1>7 DEF Longer
  <2>2. 2 \in {1, 2}
    OBVIOUS
  <2>3. QED
    BY <1>1, <1>10, <1>11, <1>12, <2>1, <2>2, EnteredAgree DEF ChainInv
<1>14. ASSUME NEW n \in Locals, n # x PROVE Lookup(scopes, n) = Lookup(blocks', n)
  <2>1. Lookup(blocks', n) = LookupTo(blocks', Len(blocks'), n)
    BY <1>7, LookupIsTo
  <2>2. LookupTo(blocks', Len(blocks'), n) = LookupTo(blocks, Len(blocks), n)
    BY <1>8, <1>14
  <2>3. Lookup(blocks, n) = LookupTo(blocks, Len(blocks), n)
    BY <1>2, LookupIsTo
  <2>4. QED
    BY <2>1, <2>2, <2>3, AgreeNow
<1>15. QED
  BY <1>11, <1>13, <1>14 DEF ChainInv


\* The invariant holds where a body begins: behind its parameters.
LEMMA NamesInit == Init => ChainInv /\ UsesAgree
<1> SUFFICES ASSUME Init
             PROVE  ChainInv /\ UsesAgree
  OBVIOUS
<1>1. PICK ps \in SUBSET Locals :
         LET params == [n \in ps |-> <<"param", n>>] IN
         scopes = <<params, NoNames>> /\ blocks = <<params>>
  BY DEF Init
<1> DEFINE params == [n \in ps |-> <<"param", n>>]
<1>2. scopes = <<params, NoNames>> /\ blocks = <<params>> /\ pops = << >> /\ decls = 0
  BY <1>1 DEF Init
<1>3. params \in Scope /\ params \in Block /\ DOMAIN params = ps
  <2> DEFINE Ds == {<<"param", n>> : n \in Locals} \cup {Var(j) : j \in Nat}
                              \cup {<<"index", j>> : j \in Nat}
  <2>1. \A n \in ps : <<"param", n>> \in Ds
    OBVIOUS
  <2> HIDE DEF Ds
  <2>2. params \in [ps -> Ds]
    BY <2>1
  <2>3. ps \in SUBSET Locals /\ ps \in SUBSET (Locals \cup {LoopIndex})
    OBVIOUS
  <2> HIDE DEF params
  <2>4. QED
    BY <2>2, <2>3 DEF Scope, Block, MapOver, Ds
<1>4. NoNames \in Scope /\ DOMAIN NoNames = {}
  BY NoNamesType DEF Scope
<1> HIDE DEF params
<1>5. /\ scopes \in Seq(Scope) /\ Len(scopes) = 2 /\ scopes[1] = params /\ scopes[2] = NoNames
      /\ blocks \in Seq(Block) /\ Len(blocks) = 1 /\ blocks[1] = params
      /\ pops \in Seq({1, 2}) /\ Len(pops) = 0
  <2>1. <<params, NoNames>> \in Seq(Scope) /\ <<params>> \in Seq(Block)
    BY <1>3, <1>4
  <2>2. << >> \in Seq({1, 2}) /\ Len(<< >>) = 0
    BY EmptySeq
  <2>3. QED
    BY <1>2, <2>1, <2>2
<1>6. ChainType
  BY <1>2, <1>5 DEF ChainType
<1>7. AgreeAt(1)
  <2> SUFFICES ASSUME NEW n \in Locals
               PROVE  LookupTo(scopes, 1 + 1, n) = LookupTo(blocks, 1, n)
    BY DEF AgreeAt
  <2>1. 2 \in Nat \ {0} /\ 2 - 1 = 1 /\ 1 + 1 = 2 /\ 1 \in Nat
    OBVIOUS
  <2>2. n \notin DOMAIN scopes[2]
    BY <1>4, <1>5
  <2>3. LookupTo(scopes, 2, n) = LookupTo(scopes, 2 - 1, n)
    BY <2>1, <2>2, LookupAround
  <2>4. \A i \in 1 .. 1 : scopes[i] = blocks[i]
    BY <1>5
  <2>5. LookupTo(scopes, 1, n) = LookupTo(blocks, 1, n)
    BY <2>1, <2>4, LookupSame
  <2>6. QED
    BY <2>1, <2>3, <2>5
<1>8. Agree
  <2>1. PICK f : f = [j \in 0 .. 0 |-> 1]
    OBVIOUS
  <2>2. f \in [0 .. 0 -> Nat \ {0}] /\ f[0] = 1
    BY <2>1
  <2>3. Depths(f)
    BY <1>5, <2>2 DEF Depths
  <2>4. \A j \in 0 .. Len(pops) : AgreeAt(f[j])
    BY <1>5, <1>7, <2>2
  <2>5. QED
    BY <2>3, <2>4 DEF Agree
<1>9. uses = {}
  BY DEF Init
<1>10. QED
  BY <1>6, <1>8, <1>9 DEF ChainInv, UsesAgree

\* Every statement, and the end of every block, keeps the chains in step.
LEMMA NamesChains ==
    ASSUME LoopIndex \notin Locals, ChainInv, [Next]_vars
    PROVE  ChainInv'
<1>1. ASSUME NEW x \in Locals, NEW used \in Exprs, Let(x, used) PROVE ChainInv'
  BY <1>1, LetChains
<1>2. ASSUME NEW x \in Locals, NEW used \in Exprs, For(x, used) PROVE ChainInv'
  BY <1>2, ForChains
<1>3. ASSUME NEW used, Use(used) PROVE ChainInv'
  BY <1>3 DEF Use, ChainInv, ChainType, Agree, Depths, AgreeAt
<1>4. ASSUME NEW used, Enter(used) PROVE ChainInv'
  BY <1>4, EnterChains
<1>5. ASSUME Leave PROVE ChainInv'
  <2>1. pops # << >>
    BY <1>5 DEF Leave
  <2>2. QED
    BY <1>5, <2>1, LeftAgree DEF ChainInv
<1>6. ASSUME UNCHANGED vars PROVE ChainInv'
  BY <1>6 DEF vars, ChainInv, ChainType, Agree, Depths, AgreeAt
<1>7. QED
  BY <1>1, <1>2, <1>3, <1>4, <1>5, <1>6 DEF Next

\* Where no initializer names its own variable, every step notes uses with the
\* same meaning on both sides.
LEMMA NamesUses ==
    ASSUME PlainNames, SelfRef = FALSE, ChainInv, UsesAgree, [Next]_vars
    PROVE  UsesAgree'
<1>1. LoopIndex \notin Locals
  BY DEF PlainNames, Names
<1>2. \A used \in Exprs : used \in SUBSET Names
  BY DEF Exprs
<1>3. /\ scopes \in Seq(Scope) /\ blocks \in Seq(Block)
      /\ \A n \in Locals : Lookup(scopes, n) = Lookup(blocks, n)
  BY AgreeNow DEF ChainInv, ChainType
<1>4. ASSUME NEW x \in Locals, NEW used \in Exprs, Let(x, used) \/ For(x, used)
      PROVE  UsesAgree'
  <2>1. x \notin used /\ Check(used, blocks')
    BY <1>4 DEF Let, For
  <2>2. ChainInv' /\ \A n \in Locals : n # x => Lookup(scopes, n) = Lookup(blocks', n)
    BY <1>1, <1>4, LetChains, ForChains
  <2>3. blocks' \in Seq(Block)
    BY <2>2 DEF ChainInv, ChainType, Block
  <2>4. \A n \in used : n \in Locals => Lookup(scopes, n) = Lookup(blocks', n)
    BY <2>1, <2>2
  <2>5. QED
    BY <1>2, <1>3, <2>1, <2>3, <2>4, CheckAgrees
<1>5. ASSUME NEW used \in Exprs, Use(used) \/ Enter(used) PROVE UsesAgree'
  <2>1. Check(used, blocks)
    BY <1>5 DEF Use, Enter
  <2>2. QED
    BY <1>2, <1>3, <2>1, CheckAgrees
<1>6. ASSUME Leave \/ UNCHANGED vars PROVE UsesAgree'
  BY <1>6 DEF Leave, vars, UsesAgree
<1>7. QED
  BY <1>4, <1>5, <1>6 DEF Next

-----------------------------------------------------------------------------
(* The theorems. *)

\* The scopes of the type checker and the blocks of the C code know the same
\* local variables wherever a statement begins, in bodies of any length and
\* nesting: only the index of a loop must not have the name of a local.
THEOREM ChainsAgreeCorrect ==
    ASSUME LoopIndex \notin Locals
    PROVE  Spec => []ChainsAgree
<1>1. ChainInv => ChainsAgree
  BY AgreeNow DEF ChainsAgree
<1>2. Init => ChainInv
  BY NamesInit
<1>3. ChainInv /\ [Next]_vars => ChainInv'
  BY NamesChains
<1>4. QED
  BY <1>1, <1>2, <1>3, PTL DEF Spec

\* Whatever the type checker takes an identifier for, the C compiler takes the
\* emitted one for the same thing, in bodies of any length and nesting, as long
\* as the names are kept apart and no initializer names its own variable.
THEOREM SameMeaningCorrect ==
    ASSUME PlainNames, SelfRef = FALSE
    PROVE  Spec => []SameMeaning
<1>1. UsesAgree => SameMeaning
  BY DEF UsesAgree, SameMeaning
<1>2. Init => ChainInv /\ UsesAgree
  BY NamesInit
<1>3. ChainInv /\ UsesAgree /\ [Next]_vars => ChainInv' /\ UsesAgree'
  <2>1. LoopIndex \notin Locals
    BY DEF PlainNames, Names
  <2>2. QED
    BY <2>1, NamesChains, NamesUses
<1>4. QED
  BY <1>1, <1>2, <1>3, PTL DEF Spec
=============================================================================
