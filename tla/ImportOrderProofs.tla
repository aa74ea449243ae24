--------------------------- MODULE ImportOrderProofs ---------------------------
(***************************************************************************)
(* The order of the merged definitions: what an imported file defines      *)
(* stands before what follows the import, for every set of programs.       *)
(***************************************************************************)
EXTENDS DriverProofs

\* The definitions gathered so far, in the order in which they are merged: row 0
\* is the merged module, row i what the i-th file being parsed has noted.
Row(i)      == IF i = 0 THEN merged ELSE stack[i].defs
At(i, k, n) == i \in 0 .. Len(stack) /\ k \in 1 .. Len(Row(i)) /\ Row(i)[k].name = n

Present(n)           == \E i, k \in Nat : At(i, k, n)
Precedes(i, k, j, l) == i < j \/ (i = j /\ k < l)

\* Wherever m stands, n stands before it.
Led(n, m) == \A j, l \in Nat : At(j, l, m) => \E i, k \in Nat : At(i, k, n) /\ Precedes(i, k, j, l)

\* An import brings n, and m, defined there only, follows the import.
Follows(n, m) ==
    \E p \in DOMAIN prog.files : \E i, j \in DOMAIN prog.files[p] :
        /\ i < j /\ prog.files[p][i].kind = "import" /\ prog.files[p][j] = Def(m)
        /\ OnlyAt(p, j) /\ n \in DefNames(prog.files[p][i].path)

\* How much of a file has been read.
Read(f) == Len(prog.files[f.path]) - Len(f.rest)
Suffix(f) == /\ f.path \in DOMAIN prog.files
             /\ Read(f) \in Nat
             /\ \A j \in 1 .. Len(f.rest) : f.rest[j] = prog.files[f.path][Read(f) + j]
Past(f, d) == \E j \in 1 .. Read(f) : prog.files[f.path][j] = d

\* The files being parsed import one another; what they are past is begun, if it
\* is an import, and there, if it is a definition; all that a file defines is there
\* when the file is at its end.
OrderInv ==
    /\ \A i \in 1 .. Len(stack) : Suffix(stack[i])
    /\ \A i \in 1 .. Len(stack) - 1 : Imports(stack[i].path, stack[i + 1].path)
    /\ status # "failed" =>
         /\ parsed \subseteq DOMAIN prog.files
         /\ \A i \in 1 .. Len(stack) : \A p : Past(stack[i], Import(p)) => p \in parsed
         /\ \A i \in 1 .. Len(stack) : \A n : Past(stack[i], Def(n)) => Present(n)
         /\ \A p \in parsed : \/ \E i \in 1 .. Len(stack) : stack[i].path = p
                              \/ \A n \in DefNames(p) : Present(n)
    /\ Acyclic => \A n, m : Follows(n, m) => Led(n, m)

-----------------------------------------------------------------------------
(***************************************************************************)
(* What the steps do to the rows.                                          *)
(***************************************************************************)
\* The rows are rows of definitions.
LEMMA RowType ==
    ASSUME GatherType, MergeInv, NEW i \in 0 .. Len(stack)
    PROVE  Row(i) \in Seq(Named) /\ Len(Row(i)) \in Nat
<1>1. CASE i = 0
  BY <1>1, LenProperties DEF Row, MergeInv
<1>2. CASE i # 0
  <2>1. Len(stack) \in Nat
    BY LenProperties DEF GatherType
  <2>2. i \in 1 .. Len(stack)
    BY <1>2, <2>1
  <2>3. stack[i] \in Frames
    BY <2>2, ElementOfSeq DEF GatherType
  <2>4. stack[i].defs \in Seq(Named)
    BY <2>3 DEF Frames, Named
  <2>5. QED
    BY <1>2, <2>4, LenProperties DEF Row
<1>3. QED
  BY <1>1, <1>2

\* Definitions that stay where they are stay in order.
LEMMA StillLed ==
    ASSUME \A i, k \in Nat : \A n : At(i, k, n)' <=> At(i, k, n)
    PROVE  /\ \A n : Present(n)' <=> Present(n)
           /\ \A n, m : Led(n, m) => Led(n, m)'
<1>1. \A n : Present(n)' <=> Present(n)
  BY DEF Present
<1>2. ASSUME NEW n, NEW m, Led(n, m) PROVE Led(n, m)'
  <2>1. ASSUME NEW j \in Nat, NEW l \in Nat, At(j, l, m)'
        PROVE  \E i, k \in Nat : At(i, k, n)' /\ Precedes(i, k, j, l)
    BY <1>2, <2>1 DEF Led
  <2>2. QED
    BY <2>1 DEF Led, Precedes
<1>3. QED
  BY <1>1, <1>2

\* And those that are moved, if each that stood before another still does.
LEMMA MovedLed ==
    ASSUME NEW n, NEW m, Led(n, m),
           \A j, l \in Nat : At(j, l, m)' =>
               \/ \E i, k \in Nat : At(i, k, n)' /\ Precedes(i, k, j, l)
               \/ \E j0, l0 \in Nat :
                     /\ At(j0, l0, m)
                     /\ \A i, k \in Nat : (At(i, k, n) /\ Precedes(i, k, j0, l0)) =>
                           \E i1, k1 \in Nat : At(i1, k1, n)' /\ Precedes(i1, k1, j, l)
    PROVE  Led(n, m)'
<1> SUFFICES ASSUME NEW j \in Nat, NEW l \in Nat, At(j, l, m)'
             PROVE  \E i, k \in Nat : At(i, k, n)' /\ Precedes(i, k, j, l)
  BY DEF Led, Precedes
<1>1. CASE \E i, k \in Nat : At(i, k, n)' /\ Precedes(i, k, j, l)
  BY <1>1
<1>2. CASE \E j0, l0 \in Nat :
              /\ At(j0, l0, m)
              /\ \A i, k \in Nat : (At(i, k, n) /\ Precedes(i, k, j0, l0)) =>
                    \E i1, k1 \in Nat : At(i1, k1, n)' /\ Precedes(i1, k1, j, l)
  <2>1. PICK j0 \in Nat, l0 \in Nat :
              /\ At(j0, l0, m)
              /\ \A i, k \in Nat : (At(i, k, n) /\ Precedes(i, k, j0, l0)) =>
                    \E i1, k1 \in Nat : At(i1, k1, n)' /\ Precedes(i1, k1, j, l)
    BY <1>2
  <2>2. \E i, k \in Nat : At(i, k, n) /\ Precedes(i, k, j0, l0)
    BY <2>1 DEF Led
  <2>3. QED
    BY <2>1, <2>2
<1>3. QED
  BY <1>1, <1>2

\* A file that is opened has noted nothing.
LEMMA PushedAt ==
    ASSUME GatherType, merged' = merged, NEW below \in Seq(Frames), Len(below) = Len(stack),
           \A i \in 1 .. Len(stack) : below[i].defs = stack[i].defs,
           NEW f \in Frames, f.defs = << >>,
           stack' = below \/ stack' = Append(below, f)
    PROVE  \A i, k \in Nat : \A n : At(i, k, n)' <=> At(i, k, n)
<1> DEFINE h == Len(stack)
<1>1. h \in Nat
  BY LenProperties DEF GatherType
<1>2. /\ Len(stack') \in {h, h + 1}
      /\ \A i \in 1 .. h : stack'[i] = below[i]
      /\ Len(stack') = h + 1 => stack'[h + 1] = f
  <2>1. CASE stack' = below
    BY <1>1, <2>1
  <2>2. CASE stack' = Append(below, f)
    BY <1>1, <2>2, AppendProperties
  <2>3. QED
    BY <2>1, <2>2
<1>3. Len(f.defs) = 0
  BY EmptySeq
<1>4. ASSUME NEW i \in Nat, NEW k \in Nat, NEW n PROVE At(i, k, n)' <=> At(i, k, n)
  <2>1. CASE i = 0
    BY <1>1, <1>2, <2>1 DEF At, Row
  <2>2. CASE i \in 1 .. h
    BY <1>1, <1>2, <2>2 DEF At, Row
  <2>3. CASE i > h
    <3>1. ~At(i, k, n)
      BY <1>1, <2>3 DEF At
    <3>2. ASSUME At(i, k, n)' PROVE FALSE
      <4>1. i \in 0 .. Len(stack') /\ k \in 1 .. Len(stack'[i].defs)
        BY <1>1, <2>3, <3>2 DEF At, Row
      <4>2. i = h + 1 /\ stack'[i] = f
        BY <1>1, <1>2, <2>3, <4>1
      <4>3. QED
        BY <1>3, <4>1, <4>2
    <3>3. QED
      BY <3>1, <3>2
  <2>4. QED
    BY <1>1, <2>1, <2>2, <2>3
<1>5. QED
  BY <1>4

\* Reading a definition puts it last.
LEMMA ParseDefAt ==
    ASSUME GatherType, MergeInv, ParseDef,
           NEW h, h = Len(stack), NEW e, e = Len(stack[h].defs) + 1, NEW x, x = Head(Top.rest).name
    PROVE  /\ h \in Nat \ {0} /\ e \in Nat
           /\ Head(Top.rest) = Def(x)
           /\ \A i, k \in Nat : \A n :
                 At(i, k, n)' <=> At(i, k, n) \/ (i = h /\ k = e /\ n = x)
<1> DEFINE d == Definition(Head(Top.rest).name, Top.path)
<1>1. /\ stack # << >> /\ Top.rest # << >> /\ Head(Top.rest).kind = "def"
      /\ merged' = merged
  BY DEF ParseDef, Reading
<1>2. h \in Nat \ {0} /\ h \in 1 .. h
  BY <1>1, TopType DEF GatherType
<1>3. Head(Top.rest) \in Declarations
  BY <1>1, TopType DEF GatherType
<1>4. d.name = x /\ Head(Top.rest) = Def(x)
  BY <1>1, <1>3, Kinds3 DEF Definition
<1>5. stack \in Seq(Frames) /\ ParseDef
  BY DEF GatherType
<1>6. /\ d \in Named
      /\ Len(stack') = Len(stack)
      /\ \A i \in 1 .. Len(stack) : i # Len(stack) => stack'[i].defs = stack[i].defs
      /\ stack'[Len(stack)].defs = Append(stack[Len(stack)].defs, d)
  BY <1>5, ParseDefStack, Zenon DEF Named
<1> HIDE DEF d
<1>7. stack[h].defs \in Seq(Named) /\ Len(stack[h].defs) \in Nat /\ e \in Nat
  BY <1>2, RowType DEF Row
<1>8. /\ Len(stack'[h].defs) = e
      /\ \A k \in 1 .. Len(stack[h].defs) : stack'[h].defs[k] = stack[h].defs[k]
      /\ stack'[h].defs[e] = d
  BY <1>6, <1>7, AppendProperties
<1>9. ASSUME NEW i \in Nat, NEW k \in Nat, NEW n
      PROVE  At(i, k, n)' <=> At(i, k, n) \/ (i = h /\ k = e /\ n = x)
  <2>1. CASE i # h
    BY <1>1, <1>2, <1>6, <2>1 DEF At, Row
  <2>2. CASE i = h
    <3>1. At(i, k, n)' <=> k \in 1 .. e /\ stack'[h].defs[k].name = n
      BY <1>2, <1>6, <1>8, <2>2 DEF At, Row
    <3>2. At(i, k, n) <=> k \in 1 .. Len(stack[h].defs) /\ stack[h].defs[k].name = n
      BY <1>2, <2>2 DEF At, Row
    <3>3. CASE k = e
      <4>1. k \in 1 .. e /\ k \notin 1 .. Len(stack[h].defs) /\ stack'[h].defs[k] = d
        BY <1>7, <1>8, <3>3
      <4>2. QED
        BY <1>4, <2>2, <3>1, <3>2, <3>3, <4>1
    <3>4. CASE k # e
      <4>1. k \in 1 .. e <=> k \in 1 .. Len(stack[h].defs)
        BY <1>7, <3>4
      <4>2. QED
        BY <1>8, <3>1, <3>2, <3>4, <4>1
    <3>5. QED
      BY <3>3, <3>4
  <2>3. QED
    BY <2>1, <2>2
<1>10. QED
  BY <1>2, <1>4, <1>7, <1>9

\* The order that reading a definition keeps.
LEMMA ParseDefLed ==
    ASSUME GatherType, MergeInv, ParseDef
    PROVE  /\ \A n : Present(n) => Present(n)'
           /\ \A n : n = Head(Top.rest).name => Present(n)'
           /\ \A n, m : Led(n, m) /\ (m = Head(Top.rest).name => Present(n)) => Led(n, m)'
<1> SUFFICES ASSUME NEW h, h = Len(stack), NEW e, e = Len(stack[h].defs) + 1, NEW x, x = Head(Top.rest).name
             PROVE  /\ \A n : Present(n) => Present(n)'
                    /\ Present(x)'
                    /\ \A n, m : Led(n, m) /\ (m = x => Present(n)) => Led(n, m)'
  OBVIOUS
<1>1. /\ h \in Nat \ {0} /\ e \in Nat
      /\ \A i, k \in Nat : \A n : At(i, k, n)' <=> At(i, k, n) \/ (i = h /\ k = e /\ n = x)
  BY ParseDefAt
<1>2. \A i, k \in Nat : \A n : At(i, k, n) => Precedes(i, k, h, e)
  <2> SUFFICES ASSUME NEW i \in Nat, NEW k \in Nat, NEW n, At(i, k, n) PROVE i < h \/ (i = h /\ k < e)
    BY DEF Precedes
  <2>1. CASE i = h
    <3>1. h # 0
      BY <1>1
    <3>2. k \in 1 .. Len(stack[h].defs) /\ Len(stack[h].defs) \in Nat
      <4>1. h \in 0 .. Len(stack)
        BY <1>1
      <4>2. QED
        BY <2>1, <3>1, <4>1, RowType DEF At, Row
    <3>3. QED
      BY <2>1, <3>2
  <2>2. CASE i # h
    BY <1>1, <2>2 DEF At
  <2>3. QED
    BY <2>1, <2>2
<1>3. \A n : Present(n) => Present(n)'
  BY <1>1 DEF Present
<1>4. Present(x)'
  BY <1>1 DEF Present
<1>5. ASSUME NEW n, NEW m, Led(n, m), m = x => Present(n) PROVE Led(n, m)'
  <2>1. ASSUME NEW j \in Nat, NEW l \in Nat, At(j, l, m)'
        PROVE  \E i, k \in Nat : At(i, k, n)' /\ Precedes(i, k, j, l)
    <3>1. CASE At(j, l, m)
      <4>1. PICK i \in Nat, k \in Nat : At(i, k, n) /\ Precedes(i, k, j, l)
        BY <1>5, <3>1 DEF Led
      <4>2. QED
        BY <1>1, <4>1
    <3>2. CASE j = h /\ l = e /\ m = x
      <4>1. PICK i \in Nat, k \in Nat : At(i, k, n)
        BY <1>5, <3>2 DEF Present
      <4>2. At(i, k, n)' /\ Precedes(i, k, h, e)
        BY <1>1, <1>2, <4>1
      <4>3. QED
        BY <3>2, <4>2
    <3>3. QED
      BY <1>1, <2>1, <3>1, <3>2
  <2>2. QED
    BY <2>1 DEF Led, Precedes
<1>6. QED
  BY <1>3, <1>4, <1>5

\* The end of an import puts its row behind that of its importer.
LEMMA EndImportAt ==
    ASSUME GatherType, MergeInv, EndImport,
           NEW h, h = Len(stack), NEW g, g = h - 1, NEW e, e = Len(stack[g].defs)
    PROVE  /\ h \in Nat /\ h > 1 /\ g \in Nat /\ e \in Nat
           /\ \A k \in Nat : \A n : At(g, k, n) => k <= e
           /\ \A i, k \in Nat : \A n :
                 At(i, k, n)' <=> \/ i < h /\ At(i, k, n)
                                  \/ i = g /\ k > e /\ At(h, k - e, n)
<1> DEFINE a == stack[g].defs
           b == stack[h].defs
           c == stack'[g].defs
<1>1. /\ h > 1 /\ merged' = merged
      /\ stack' = [Front(stack) EXCEPT ![Len(stack) - 1].defs = @ \o Top.defs]
  BY DEF EndImport
<1>2. h \in Nat /\ g \in Nat /\ Top = stack[h]
  BY <1>1, LenProperties DEF GatherType, Top
<1>3. /\ Len(stack') = g
      /\ \A i \in 1 .. g : i # g => stack'[i].defs = stack[i].defs
      /\ c = a \o b
  <2>1. stack \in Seq(Frames) /\ Len(stack) > 1
    BY <1>1 DEF GatherType
  <2>2. Len(stack') = Len(stack) - 1
    BY <1>1, <2>1, EndImportType
  <2>3. \A i \in 1 .. Len(stack) - 1 :
           stack'[i].defs = IF i = Len(stack) - 1 THEN stack[i].defs \o Top.defs ELSE stack[i].defs
    BY <1>1, <2>1, EndImportType
  <2>4. g \in 1 .. Len(stack) - 1
    BY <1>1, <1>2
  <2>5. QED
    BY <1>2, <2>2, <2>3, <2>4
<1>4. a \in Seq(Named) /\ b \in Seq(Named)
  <2>1. g \in 0 .. Len(stack) /\ h \in 0 .. Len(stack) /\ g # 0 /\ h # 0
    BY <1>1, <1>2
  <2>2. QED
    BY <2>1, RowType DEF Row
<1>5. c = a \o b /\ e = Len(a)
  BY <1>3
<1>6. /\ \A k \in Nat : \A n : At(g, k, n) <=> k \in 1 .. Len(a) /\ a[k].name = n
      /\ \A k \in Nat : \A n : At(g, k, n)' <=> k \in 1 .. Len(c) /\ c[k].name = n
  <2>1. g \in 0 .. Len(stack) /\ g # 0 /\ g \in 0 .. Len(stack')
    BY <1>1, <1>2, <1>3
  <2>2. QED
    BY <2>1 DEF At, Row
<1>7. \A k \in Int : \A n : At(h, k, n) <=> k \in 1 .. Len(b) /\ b[k].name = n
  BY <1>1, <1>2 DEF At, Row
<1>8. \A i, k \in Nat : \A n : i < g => (At(i, k, n)' <=> At(i, k, n))
  <2> SUFFICES ASSUME NEW i \in Nat, NEW k \in Nat, NEW n, i < g PROVE At(i, k, n)' <=> At(i, k, n)
    OBVIOUS
  <2>1. i \in 0 .. Len(stack) /\ i \in 0 .. Len(stack')
    BY <1>2, <1>3
  <2>2. CASE i = 0
    BY <1>1, <2>1, <2>2 DEF At, Row
  <2>3. CASE i # 0
    <3>1. stack'[i].defs = stack[i].defs
      <4>1. i \in 1 .. g /\ i # g
        BY <1>2, <2>3
      <4>2. QED
        BY <1>3, <4>1
    <3>2. QED
      BY <2>1, <2>3, <3>1 DEF At, Row
  <2>4. QED
    BY <2>2, <2>3
<1>9. \A i, k \in Nat : \A n : i > g => ~At(i, k, n)'
  BY <1>1, <1>2, <1>3 DEF At
<1>10. e \in Nat /\ Len(b) \in Nat /\ Len(c) = e + Len(b)
  BY <1>4, <1>5, ConcatProperties, LenProperties
<1>11. \A k \in 1 .. Len(c) : c[k] = IF k <= e THEN a[k] ELSE b[k - e]
  BY <1>4, <1>5, ConcatProperties
<1>11a. e = Len(a)
  OBVIOUS
<1> HIDE DEF a, b, c
<1>12. ASSUME NEW k \in Nat, NEW n PROVE At(g, k, n)' <=> At(g, k, n) \/ (k > e /\ At(h, k - e, n))
  <2>1. CASE k <= e
    <3>1. k \in 1 .. Len(c) <=> k \in 1 .. e
      BY <1>10, <2>1
    <3>2. k \in 1 .. e => c[k] = a[k]
      BY <1>10, <1>11, <2>1
    <3>3. QED
      BY <1>6, <1>10, <1>11a, <2>1, <3>1, <3>2
  <2>2. CASE k > e
    <3>1. k \in 1 .. Len(c) <=> k - e \in 1 .. Len(b)
      BY <1>10, <2>2
    <3>2. k \in 1 .. Len(c) => c[k] = b[k - e]
      BY <1>10, <1>11, <2>2
    <3>3. k - e \in Int /\ k \notin 1 .. e
      BY <1>10, <2>2
    <3>4. QED
      BY <1>6, <1>7, <1>11a, <2>2, <3>1, <3>2, <3>3
  <2>3. QED
    BY <1>10, <2>1, <2>2
<1>13. ASSUME NEW i \in Nat, NEW k \in Nat, NEW n
       PROVE  At(i, k, n)' <=> \/ i < h /\ At(i, k, n)
                               \/ i = g /\ k > e /\ At(h, k - e, n)
  <2>1. CASE i < g
    BY <1>2, <1>8, <2>1
  <2>2. CASE i = g
    BY <1>2, <1>12, <2>2
  <2>3. CASE i > g
    BY <1>2, <1>9, <2>3
  <2>4. QED
    BY <1>2, <2>1, <2>2, <2>3
<1>14. \A k \in Nat : \A n : At(g, k, n) => k <= e
  BY <1>6, <1>10, <1>11a
<1>15. QED
  BY <1>1, <1>2, <1>10, <1>13, <1>14 DEF a

\* The order that the end of an import keeps: all of it.
LEMMA EndImportLed ==
    ASSUME GatherType, MergeInv, EndImport
    PROVE  /\ \A n : Present(n) => Present(n)'
           /\ \A n, m : Led(n, m) => Led(n, m)'
<1> SUFFICES ASSUME NEW h, h = Len(stack), NEW g, g = h - 1, NEW e, e = Len(stack[g].defs)
             PROVE  /\ \A n : Present(n) => Present(n)'
                    /\ \A n, m : Led(n, m) => Led(n, m)'
  OBVIOUS
<1>1. /\ h \in Nat /\ h > 1 /\ g \in Nat /\ e \in Nat
      /\ \A k \in Nat : \A n : At(g, k, n) => k <= e
      /\ \A i, k \in Nat : \A n :
            At(i, k, n)' <=> \/ i < h /\ At(i, k, n)
                             \/ i = g /\ k > e /\ At(h, k - e, n)
  <2>1. h \in Nat /\ h > 1 /\ g \in Nat /\ e \in Nat
    BY EndImportAt
  <2>2. \A k \in Nat : \A n : At(g, k, n) => k <= e
    BY EndImportAt
  <2>3. \A i, k \in Nat : \A n :
           At(i, k, n)' <=> \/ i < h /\ At(i, k, n)
                            \/ i = g /\ k > e /\ At(h, k - e, n)
    BY <2>1, EndImportAt, SMTT(30)
  <2>4. QED
    BY <2>1, <2>2, <2>3
<1>2. \A i, k \in Nat : \A n : At(i, k, n) => i <= h /\ k > 0
  <2>1. ASSUME NEW i \in Nat, NEW k \in Nat, NEW n, At(i, k, n) PROVE i <= h /\ k > 0
    <3>1. i \in 0 .. Len(stack) /\ k \in 1 .. Len(Row(i))
      BY <2>1 DEF At
    <3>2. QED
      BY <1>1, <3>1
  <2>2. QED
    BY <2>1
<1>3. ASSUME NEW k \in Nat, NEW n, At(h, k, n) PROVE At(g, k + e, n)'
  <2>1. k + e \in Nat /\ k + e > e /\ (k + e) - e = k
    BY <1>1, <1>2, <1>3
  <2>2. QED
    BY <1>1, <1>3, <2>1
<1>4. ASSUME NEW n, Present(n) PROVE Present(n)'
  <2>1. PICK i \in Nat, k \in Nat : At(i, k, n)
    BY <1>4 DEF Present
  <2>2. CASE i < h
    BY <1>1, <2>1, <2>2 DEF Present
  <2>3. CASE i = h
    <3>1. At(g, k + e, n)' /\ k + e \in Nat
      BY <1>1, <1>3, <2>1, <2>3
    <3>2. QED
      BY <1>1, <3>1 DEF Present
  <2>4. QED
    BY <1>1, <1>2, <2>1, <2>2, <2>3
<1>5. ASSUME NEW n, NEW m, Led(n, m) PROVE Led(n, m)'
  <2>1. ASSUME NEW j \in Nat, NEW l \in Nat, At(j, l, m)'
        PROVE  \E i, k \in Nat : At(i, k, n)' /\ Precedes(i, k, j, l)
    <3>1. CASE j < h /\ At(j, l, m)
      <4>1. PICK i \in Nat, k \in Nat : At(i, k, n) /\ Precedes(i, k, j, l)
        BY <1>5, <3>1 DEF Led
      <4>2. i < h
        BY <1>1, <3>1, <4>1 DEF Precedes
      <4>3. QED
        BY <1>1, <4>1, <4>2
    <3>2. CASE j = g /\ l > e /\ At(h, l - e, m)
      <4>1. l - e \in Nat
        BY <1>1, <3>2
      <4>2. PICK i \in Nat, k \in Nat : At(i, k, n) /\ Precedes(i, k, h, l - e)
        BY <1>1, <1>5, <3>2, <4>1 DEF Led
      <4>3. CASE i = h
        <5>1. At(g, k + e, n)' /\ k + e \in Nat /\ k + e < l
          BY <1>1, <1>3, <4>2, <4>3 DEF Precedes
        <5>2. Precedes(g, k + e, j, l)
          BY <3>2, <5>1 DEF Precedes
        <5>3. QED
          BY <1>1, <5>1, <5>2
      <4>4. CASE i < h
        <5>1. At(i, k, n)'
          BY <1>1, <4>2, <4>4
        <5>2. i < g \/ (i = g /\ k <= e)
          BY <1>1, <4>2, <4>4
        <5>3. Precedes(i, k, j, l)
          BY <1>1, <3>2, <5>2 DEF Precedes
        <5>4. QED
          BY <5>1, <5>3
      <4>5. QED
        BY <1>1, <1>2, <4>2, <4>3, <4>4
    <3>3. QED
      BY <1>1, <2>1, <3>1, <3>2
  <2>2. QED
    BY <2>1 DEF Led, Precedes
<1>6. QED
  BY <1>4, <1>5

\* Merging a definition moves it from the head of the first file to the end of the
\* merged module, or drops it because its name is there.
LEMMA MergeDefAt ==
    ASSUME GatherType, MergeInv, MergeDef,
           NEW e, e = Len(merged) + 1, NEW x, x = Head(Top.defs).name
    PROVE  /\ e \in Nat
           /\ \A k \in Nat : \A n : At(0, k, n) => k < e
           /\ \A i, k \in Nat : \A n : At(i, k, n) => i <= 1 /\ k > 0
           /\ \A n : At(1, 1, n) => n = x
           /\ \A k \in Nat : \A n : At(0, k, n) => At(0, k, n)'
           /\ \A k \in Nat : \A n : At(0, k, n)' => At(0, k, n) \/ (k = e /\ n = x)
           /\ At(1, 1, x)
           /\ (\E k \in Nat : At(0, k, x)) \/ \A n : n = x => At(0, e, n)'
           /\ \A k \in Nat : \A n : k > 0 => (At(1, k, n)' <=> At(1, k + 1, n))
           /\ \A i, k \in Nat : \A n : At(i, k, n)' => i <= 1 /\ k > 0
<1> DEFINE a == stack[1].defs
           b == stack'[1].defs
           d == Head(a)
<1>1. /\ Len(stack) = 1 /\ Top.defs # << >>
      /\ merged' = Kept(Head(Top.defs))
      /\ stack' = [stack EXCEPT ![1].defs = Tail(@)]
  BY DEF MergeDef, Merging
<1>2. /\ stack' \in Seq(Frames)
      /\ Len(stack') = 1
      /\ stack'[1].defs = Tail(stack[1].defs)
      /\ stack[1] \in Frames /\ Top = stack[1]
  BY <1>1, MergeDefType DEF GatherType
<1>3. a \in Seq(Named) /\ a # << >> /\ b = Tail(a) /\ merged' = Kept(d) /\ x = d.name
  BY <1>1, <1>2 DEF Frames, Named
<1>4. /\ \A k \in Nat : \A n : At(1, k, n) <=> k \in 1 .. Len(a) /\ a[k].name = n
      /\ \A k \in Nat : \A n : At(1, k, n)' <=> k \in 1 .. Len(b) /\ b[k].name = n
      /\ \A k \in Nat : \A n : At(0, k, n) <=> k \in 1 .. Len(merged) /\ merged[k].name = n
      /\ \A k \in Nat : \A n : At(0, k, n)' <=> k \in 1 .. Len(merged') /\ merged'[k].name = n
  BY <1>1, <1>2 DEF At, Row
<1>5. \A i, k \in Nat : \A n : (At(i, k, n) => i <= 1 /\ k > 0) /\ (At(i, k, n)' => i <= 1 /\ k > 0)
  <2> SUFFICES ASSUME NEW i \in Nat, NEW k \in Nat, NEW n
               PROVE  (At(i, k, n) => i <= 1 /\ k > 0) /\ (At(i, k, n)' => i <= 1 /\ k > 0)
    OBVIOUS
  <2>1. At(i, k, n) => i \in 0 .. 1
    BY <1>1 DEF At
  <2>2. At(i, k, n)' => i \in 0 .. 1
    BY <1>2 DEF At
  <2>3. CASE i = 0
    BY <1>4, <2>3
  <2>4. CASE i = 1
    BY <1>4, <2>4
  <2>5. CASE i > 1
    BY <2>1, <2>2, <2>5
  <2>6. QED
    BY <2>3, <2>4, <2>5
<1> HIDE DEF a, b
<1>6. /\ d = a[1] /\ d \in Named
      /\ Len(a) \in Nat \ {0} /\ Len(b) = Len(a) - 1
      /\ \A k \in 1 .. Len(b) : b[k] = a[k + 1]
  <2>1. Len(a) \in Nat \ {0} /\ Len(b) = Len(a) - 1 /\ d \in Named
    BY <1>3, HeadTailProperties, EmptySeq
  <2>2. \A k \in 1 .. Len(a) - 1 : Tail(a)[k] = a[k + 1]
    BY <1>3, HeadTailProperties
  <2>3. d = a[1]
    BY <1>3
  <2>4. QED
    BY <1>3, <2>1, <2>2, <2>3
<1> HIDE DEF d
<1>7. merged \in Seq(Named) /\ Len(merged) \in Nat /\ DOMAIN merged = 1 .. Len(merged) /\ e \in Nat
  BY LenProperties DEF MergeInv
<1>8. CASE d.name \in NamesOf(merged)
  <2>1. merged' = merged
    BY <1>3, <1>8 DEF Kept
  <2>2. \E k \in Nat : At(0, k, x)
    BY <1>3, <1>4, <1>7, <1>8 DEF NamesOf
  <2>3. \A k \in Nat : \A n : (At(0, k, n) => k < e) /\ (At(0, k, n)' <=> At(0, k, n))
    BY <1>4, <1>7, <2>1
  <2>4. \A k \in Nat : \A n : k > 0 => (At(1, k, n)' <=> At(1, k + 1, n))
    BY <1>4, <1>6
  <2>5. At(1, 1, x) /\ \A n : At(1, 1, n) => n = x
    BY <1>3, <1>4, <1>6
  <2>6. QED
    BY <1>5, <1>7, <2>2, <2>3, <2>4, <2>5
<1>9. CASE d.name \notin NamesOf(merged)
  <2>1. merged' = Append(merged, d)
    BY <1>3, <1>9 DEF Kept
  <2>2. /\ Len(merged') = e
        /\ \A k \in 1 .. Len(merged) : merged'[k] = merged[k]
        /\ merged'[e] = d
    BY <1>6, <1>7, <2>1, AppendProperties
  <2>3. \A n : n = x => At(0, e, n)'
    BY <1>3, <1>4, <1>7, <2>2
  <2>4. ASSUME NEW k \in Nat, NEW n
        PROVE  /\ At(0, k, n) => k < e /\ At(0, k, n)'
               /\ At(0, k, n)' => At(0, k, n) \/ (k = e /\ n = x)
    <3>1. At(0, k, n) => k < e /\ At(0, k, n)'
      BY <1>4, <1>7, <2>2
    <3>2. ASSUME At(0, k, n)', k # e PROVE At(0, k, n)
      <4>1. k \in 1 .. Len(merged)
        BY <1>4, <1>7, <2>2, <3>2
      <4>2. QED
        BY <1>4, <2>2, <3>2, <4>1
    <3>3. ASSUME At(0, k, n)', k = e PROVE n = x
      BY <1>3, <1>4, <2>2, <3>3
    <3>4. QED
      BY <3>1, <3>2, <3>3
  <2>5. \A k \in Nat : \A n : k > 0 => (At(1, k, n)' <=> At(1, k + 1, n))
    BY <1>4, <1>6
  <2>6. At(1, 1, x) /\ \A n : At(1, 1, n) => n = x
    BY <1>3, <1>4, <1>6
  <2>7. QED
    BY <1>5, <1>7, <2>3, <2>4, <2>5, <2>6
<1>10. QED
  BY <1>8, <1>9

\* The order that merging a definition keeps: all of it.
LEMMA MergeDefLed ==
    ASSUME GatherType, MergeInv, MergeDef
    PROVE  /\ \A n : Present(n) => Present(n)'
           /\ \A n, m : Led(n, m) => Led(n, m)'
<1> SUFFICES ASSUME NEW e, e = Len(merged) + 1, NEW x, x = Head(Top.defs).name
             PROVE  /\ \A n : Present(n) => Present(n)'
                    /\ \A n, m : Led(n, m) => Led(n, m)'
  OBVIOUS
<1>1. /\ e \in Nat
      /\ \A k \in Nat : \A n : At(0, k, n) => k < e
      /\ \A i, k \in Nat : \A n : At(i, k, n) => i <= 1 /\ k > 0
      /\ \A n : At(1, 1, n) => n = x
      /\ \A k \in Nat : \A n : At(0, k, n) => At(0, k, n)'
      /\ \A k \in Nat : \A n : At(0, k, n)' => At(0, k, n) \/ (k = e /\ n = x)
      /\ At(1, 1, x)
      /\ (\E k \in Nat : At(0, k, x)) \/ \A n : n = x => At(0, e, n)'
      /\ \A k \in Nat : \A n : k > 0 => (At(1, k, n)' <=> At(1, k + 1, n))
      /\ \A i, k \in Nat : \A n : At(i, k, n)' => i <= 1 /\ k > 0
  BY MergeDefAt
<1>2. \E k \in Nat : \A n : n = x => At(0, k, n)'
  BY <1>1
<1>3. ASSUME NEW i \in Nat, NEW k \in Nat, NEW n, At(i, k, n), ~(i = 1 /\ k = 1)
      PROVE  \E k1 \in Nat : /\ At(i, k1, n)'
                             /\ \A j, l \in Nat : (i = 1 /\ j = 1 /\ k < l + 1) \/ (i = 0 /\ Precedes(i, k, j, l)) \/ i < j
                                                   => Precedes(i, k1, j, l)
  <2>1. CASE i = 0
    BY <1>1, <1>3, <2>1 DEF Precedes
  <2>2. CASE i = 1
    <3>1. k - 1 \in Nat /\ k - 1 > 0 /\ (k - 1) + 1 = k
      BY <1>1, <1>3, <2>2
    <3>2. At(1, k - 1, n)'
      BY <1>1, <1>3, <2>2, <3>1
    <3>3. \A l \in Nat : k < l + 1 => k - 1 < l
      OBVIOUS
    <3>4. QED
      BY <2>2, <3>1, <3>2, <3>3 DEF Precedes
  <2>3. QED
    BY <1>1, <1>3, <2>1, <2>2
<1>4. ASSUME NEW n, Present(n) PROVE Present(n)'
  <2>1. PICK i \in Nat, k \in Nat : At(i, k, n)
    BY <1>4 DEF Present
  <2>2. CASE i = 1 /\ k = 1
    BY <1>1, <1>2, <2>1, <2>2 DEF Present
  <2>3. CASE ~(i = 1 /\ k = 1)
    BY <1>3, <2>1, <2>3 DEF Present
  <2>4. QED
    BY <2>2, <2>3
<1>5. ASSUME NEW n, NEW m, Led(n, m) PROVE Led(n, m)'
  <2>1. ASSUME NEW j \in Nat, NEW l \in Nat, At(j, l, m)'
        PROVE  \E i, k \in Nat : At(i, k, n)' /\ Precedes(i, k, j, l)
    <3>1. CASE j = 0 /\ At(0, l, m)
      <4>1. PICK i \in Nat, k \in Nat : At(i, k, n) /\ Precedes(i, k, 0, l)
        BY <1>5, <3>1 DEF Led
      <4>2. i = 0
        BY <4>1 DEF Precedes
      <4>3. QED
        BY <1>1, <3>1, <4>1, <4>2
    <3>2. CASE j = 0 /\ l = e /\ m = x
      <4>1. PICK i \in Nat, k \in Nat : At(i, k, n) /\ Precedes(i, k, 1, 1)
        BY <1>1, <1>5, <3>2 DEF Led
      <4>2. i = 0
        <5>1. k > 0
          BY <1>1, <4>1
        <5>2. QED
          BY <4>1, <5>1 DEF Precedes
      <4>3. At(0, k, n)' /\ k < e
        BY <1>1, <4>1, <4>2
      <4>4. QED
        BY <3>2, <4>3 DEF Precedes
    <3>3. CASE j = 1
      <4>1. l > 0 /\ At(1, l + 1, m)
        BY <1>1, <2>1, <3>3
      <4>2. PICK i \in Nat, k \in Nat : At(i, k, n) /\ Precedes(i, k, 1, l + 1)
        BY <1>5, <4>1 DEF Led
      <4>3. CASE i = 1 /\ k = 1
        <5>1. n = x
          BY <1>1, <4>2, <4>3
        <5>2. QED
          BY <1>2, <3>3, <5>1 DEF Precedes
      <4>4. CASE ~(i = 1 /\ k = 1)
        <5>1. (i = 1 /\ k < l + 1) \/ i < 1
          BY <4>2 DEF Precedes
        <5>2. QED
          BY <1>3, <3>3, <4>2, <4>4, <5>1
      <4>5. QED
        BY <4>3, <4>4
    <3>4. QED
      BY <1>1, <2>1, <3>1, <3>2, <3>3
  <2>2. QED
    BY <2>1 DEF Led, Precedes
<1>6. QED
  BY <1>4, <1>5

-----------------------------------------------------------------------------
(***************************************************************************)
(* The invariant of the order.                                             *)
(***************************************************************************)
\* The program never changes: what is to be shown of the next state.
LEMMA OrderSame ==
    ASSUME prog' = prog,
           \A i \in 1 .. Len(stack') : Suffix(stack'[i]),
           \A i \in 1 .. Len(stack') - 1 : Imports(stack'[i].path, stack'[i + 1].path),
           status' # "failed" => parsed' \subseteq DOMAIN prog.files,
           status' # "failed" => \A i \in 1 .. Len(stack') : \A p : Past(stack'[i], Import(p)) => p \in parsed',
           status' # "failed" => \A i \in 1 .. Len(stack') : \A n : Past(stack'[i], Def(n)) => Present(n)',
           status' # "failed" => \A p \in parsed' : \/ \E i \in 1 .. Len(stack') : stack'[i].path = p
                                                    \/ \A n \in DefNames(p) : Present(n)',
           Acyclic => \A n, m : Follows(n, m) => Led(n, m)'
    PROVE  OrderInv'
<1>1. Acyclic' = Acyclic
  BY DEF Acyclic, Imports
<1>2. \A n, m : Follows(n, m)' <=> Follows(n, m)
  BY DEF Follows, OnlyAt, DefNames
<1>3. \A i \in 1 .. Len(stack') : Suffix(stack[i])'
  BY DEF Suffix, Read
<1>4. \A i \in 1 .. Len(stack') - 1 : Imports(stack[i].path, stack[i + 1].path)'
  BY DEF Imports
<1>5. \A i \in 1 .. Len(stack') : \A d : Past(stack[i], d)' <=> Past(stack'[i], d)
  BY DEF Past, Read
<1>6. \A p : DefNames(p)' = DefNames(p)
  BY DEF DefNames
<1>7. status' # "failed" =>
        /\ \A i \in 1 .. Len(stack') : \A p : Past(stack[i], Import(p))' => p \in parsed'
        /\ \A i \in 1 .. Len(stack') : \A n : Past(stack[i], Def(n))' => Present(n)'
  BY <1>5 DEF Import, Def
<1>8. QED
  BY <1>1, <1>2, <1>3, <1>4, <1>6, <1>7 DEF OrderInv

\* Without cycles no file imports one that is being parsed.
LEMMA NoCycle ==
    ASSUME GatherType, OrderInv, Acyclic, stack # << >>, NEW q \in Paths, Imports(Top.path, q)
    PROVE  \A i \in 1 .. Len(stack) : stack[i].path # q
<1> SUFFICES ASSUME NEW k \in 1 .. Len(stack), stack[k].path = q PROVE FALSE
  OBVIOUS
<1> DEFINE h == Len(stack)
           S == {stack[i].path : i \in k .. h}
<1>1. h \in Nat \ {0} /\ Top = stack[h] /\ k \in k .. h /\ h \in k .. h
  BY TopType DEF GatherType, Top
<1>2. \A i \in k .. h : stack[i].path \in Paths
  <2> SUFFICES ASSUME NEW i \in k .. h PROVE stack[i].path \in Paths
    OBVIOUS
  <2>1. i \in 1 .. Len(stack)
    BY <1>1
  <2>2. stack[i] \in Frames
    BY <2>1, ElementOfSeq DEF GatherType
  <2>3. QED
    BY <2>2 DEF Frames
<1>3. S \in (SUBSET Paths) \ {{}}
  <2>1. S \subseteq Paths
    BY <1>2
  <2>2. stack[k].path \in S
    BY <1>1
  <2> HIDE DEF S
  <2>3. S # {}
    BY <2>2
  <2>4. QED
    BY <2>1, <2>3
<1>4. PICK p \in S : \A r \in S : ~Imports(p, r)
  BY <1>3 DEF Acyclic
<1>5. PICK i \in k .. h : p = stack[i].path
  BY <1>4
<1>6. CASE i = h
  <2>1. q \in S
    BY <1>1
  <2>2. QED
    BY <1>1, <1>4, <1>5, <1>6, <2>1
<1>7. CASE i # h
  <2>1. i + 1 \in k .. h /\ i \in 1 .. Len(stack) - 1
    BY <1>1, <1>7
  <2>2. stack[i + 1].path \in S
    BY <2>1
  <2>3. Imports(p, stack[i + 1].path)
    BY <1>5, <2>1 DEF OrderInv
  <2>4. QED
    BY <1>4, <2>2, <2>3
<1>8. QED
  BY <1>6, <1>7

\* Reading a declaration moves the file being parsed past it.
LEMMA AdvancedPast ==
    ASSUME GatherType, OrderInv, stack # << >>, Top.rest # << >>, NEW st,
           \A i \in 1 .. Len(stack) : st[i].path = stack[i].path /\ st[i].rest = Advanced[i].rest
    PROVE  /\ \A i \in 1 .. Len(stack) : Suffix(st[i])
           /\ \A i \in 1 .. Len(stack) : \A d :
                 Past(st[i], d) => Past(stack[i], d) \/ (i = Len(stack) /\ d = Head(Top.rest))
           /\ Read(Top) + 1 \in DOMAIN prog.files[Top.path]
           /\ prog.files[Top.path][Read(Top) + 1] = Head(Top.rest)
           /\ Top.path \in DOMAIN prog.files
<1> DEFINE h == Len(stack)
           F == prog.files[Top.path]
           r == Len(Top.rest)
           c == Read(Top)
<1>1. h \in Nat \ {0} /\ h \in 1 .. h /\ Top \in Frames /\ Top = stack[h]
  BY TopType DEF GatherType, Top
<1>2. Suffix(Top)
  BY <1>1 DEF OrderInv
<1>3. /\ Len(Tail(Top.rest)) = r - 1
      /\ r \in Nat \ {0}
      /\ \A j \in 1 .. r - 1 : Tail(Top.rest)[j] = Top.rest[j + 1]
  BY TopType DEF GatherType
<1>4. Head(Top.rest) = Top.rest[1]
  BY <1>1 DEF Frames
<1>5. F \in Seq(Declarations) /\ Len(F) \in Nat /\ DOMAIN F = 1 .. Len(F)
  <2>1. F \in Seq(Declarations)
    BY <1>2, ProgramsAssumption DEF GatherType, Suffix
  <2>2. QED
    BY <2>1, LenProperties
<1>6. /\ c \in Nat /\ c = Len(F) - r
      /\ \A j \in 1 .. r : Top.rest[j] = F[c + j]
      /\ Top.path \in DOMAIN prog.files
  BY <1>2 DEF Suffix, Read
<1>7. c + 1 \in DOMAIN F /\ F[c + 1] = Head(Top.rest)
  <2> HIDE DEF c, r, F
  <2>1. c + 1 \in 1 .. Len(F) /\ 1 \in 1 .. r
    BY <1>3, <1>5, <1>6
  <2>2. QED
    BY <1>4, <1>5, <1>6, <2>1
<1>8. ASSUME NEW i \in 1 .. h, i # h
      PROVE  Suffix(st[i]) /\ \A d : Past(st[i], d) => Past(stack[i], d)
  <2>1. st[i].path = stack[i].path /\ st[i].rest = stack[i].rest
    BY <1>8, AdvancedType DEF GatherType
  <2>2. Suffix(stack[i])
    BY DEF OrderInv
  <2>3. QED
    BY <2>1, <2>2 DEF Suffix, Past, Read
<1>9. st[h].path = Top.path /\ st[h].rest = Tail(Top.rest)
  BY <1>1, AdvancedType DEF GatherType
<1>10. Read(st[h]) = c + 1
  <2>1. Read(st[h]) = Len(F) - Len(st[h].rest) /\ Len(st[h].rest) = r - 1
    BY <1>3, <1>9 DEF Read
  <2> HIDE DEF c, r, F
  <2>2. QED
    BY <1>3, <1>5, <1>6, <2>1
<1> HIDE DEF c, r, F
<1>11. Suffix(st[h])
  <2>1. Read(st[h]) \in Nat
    BY <1>6, <1>10
  <2>2. ASSUME NEW j \in 1 .. Len(st[h].rest) PROVE st[h].rest[j] = F[Read(st[h]) + j]
    <3>1. j \in 1 .. r - 1 /\ j + 1 \in 1 .. r /\ c + (j + 1) = (c + 1) + j
      BY <1>3, <1>6, <1>9
    <3>2. QED
      BY <1>3, <1>6, <1>9, <1>10, <3>1
  <2>3. QED
    BY <1>6, <1>9, <2>1, <2>2 DEF Suffix, F
<1>12. ASSUME NEW d, Past(st[h], d) PROVE Past(Top, d) \/ d = Head(Top.rest)
  <2>1. PICK j \in 1 .. c + 1 : F[j] = d
    BY <1>9, <1>10, <1>12 DEF Past, F
  <2>2. CASE j = c + 1
    BY <1>7, <2>1, <2>2
  <2>3. CASE j # c + 1
    <3>1. j \in 1 .. c
      BY <1>6, <2>1, <2>3
    <3>2. QED
      BY <2>1, <3>1 DEF Past, F, c
  <2>4. QED
    BY <2>2, <2>3
<1>13. \A i \in 1 .. h : Suffix(st[i])
  BY <1>8, <1>11
<1>14. \A i \in 1 .. h : \A d : Past(st[i], d) => Past(stack[i], d) \/ (i = h /\ d = Head(Top.rest))
  BY <1>1, <1>8, <1>12
<1>15. QED
  BY <1>6, <1>7, <1>13, <1>14 DEF F, c

\* At the end of a file all that it defines is there.
LEMMA WholeIsPast ==
    ASSUME GatherType, OrderInv, status # "failed", stack # << >>, Top.rest = << >>,
           NEW n \in DefNames(Top.path)
    PROVE  Present(n)
<1> DEFINE h == Len(stack)
           F == prog.files[Top.path]
<1>1. h \in Nat \ {0} /\ h \in 1 .. h /\ Top = stack[h]
  BY TopType DEF GatherType, Top
<1>2. Suffix(Top)
  BY <1>1 DEF OrderInv
<1>3. Len(Top.rest) = 0
  BY EmptySeq
<1>4. Top.path \in DOMAIN prog.files
  BY <1>2 DEF Suffix
<1>5. PICK j \in 1 .. Len(F) : F[j] = Def(n)
  BY <1>4, DefNamesIs
<1>6. Len(F) \in Nat
  BY <1>4, DefNamesIs, LenProperties
<1>7. Read(Top) = Len(F)
  BY <1>3, <1>6 DEF Read
<1>8. Past(Top, Def(n))
  BY <1>5, <1>7 DEF Past
<1>9. QED
  BY <1>1, <1>8 DEF OrderInv

\* A file that is opened is at its start.
LEMMA OpenOrder ==
    ASSUME GatherType, OrderInv, prog' = prog, merged' = merged, status = "running",
           NEW p \in Paths, Mark(p),
           NEW below \in Seq(Frames), Len(below) = Len(stack), OpenFile(p, below),
           stack' = stack \/ stack' = Append(below, [path |-> p, rest |-> prog.files[p], defs |-> << >>]),
           \A i \in 1 .. Len(stack) : below[i].path = stack[i].path /\ below[i].defs = stack[i].defs,
           \A i \in 1 .. Len(stack) : Suffix(below[i]),
           \A i \in 1 .. Len(stack) : \A d : Past(below[i], d) => Past(stack[i], d) \/ d = Import(p),
           Len(stack) > 0 => Imports(stack[Len(stack)].path, p)
    PROVE  OrderInv'
<1> DEFINE h == Len(stack)
           f == [path |-> p, rest |-> prog.files[p], defs |-> << >>]
<1>1. h \in Nat /\ parsed' = parsed \cup {p}
  BY LenProperties DEF GatherType, Mark
<1>2. CASE p \notin DOMAIN prog.files
  <2>1. stack' = stack /\ status' = "failed"
    BY <1>2 DEF OpenFile
  <2>2. \A i, k \in Nat : \A n : At(i, k, n)' <=> At(i, k, n)
    BY <2>1 DEF At, Row
  <2>3. \A n, m : Led(n, m) => Led(n, m)'
    BY <2>2, StillLed
  <2>4. Acyclic => \A n, m : Follows(n, m) => Led(n, m)'
    BY <2>3 DEF OrderInv
  <2>5. \A i \in 1 .. Len(stack') : Suffix(stack'[i])
    BY <2>1 DEF OrderInv
  <2>6. \A i \in 1 .. Len(stack') - 1 : Imports(stack'[i].path, stack'[i + 1].path)
    BY <2>1 DEF OrderInv
  <2>7. QED
    BY <2>1, <2>4, <2>5, <2>6, OrderSame
<1>3. CASE p \in DOMAIN prog.files
  <2>1. prog.files[p] \in Seq(Declarations) /\ Len(prog.files[p]) \in Nat
    BY <1>3, ProgramsAssumption, LenProperties DEF GatherType
  <2>2. f \in Frames
    BY <2>1, EmptySeq DEF Frames
  <2>3. stack' = Append(below, f) /\ status' = status
    BY <1>3 DEF OpenFile
  <2>4. /\ Len(stack') = h + 1
        /\ \A i \in 1 .. h : stack'[i] = below[i]
        /\ stack'[h + 1] = f
    BY <1>1, <2>2, <2>3, AppendProperties
  <2>5. f.path = p /\ f.rest = prog.files[p] /\ f.defs = << >>
    OBVIOUS
  <2>6. \A i, k \in Nat : \A n : At(i, k, n)' <=> At(i, k, n)
    <3> HIDE DEF f
    <3>1. \A i \in 1 .. Len(stack) : below[i].defs = stack[i].defs
      OBVIOUS
    <3>2. QED
      BY <2>2, <2>3, <2>5, <3>1, PushedAt
  <2>7. /\ \A n : Present(n)' <=> Present(n)
        /\ \A n, m : Led(n, m) => Led(n, m)'
    BY <2>6, StillLed
  <2>8. Acyclic => \A n, m : Follows(n, m) => Led(n, m)'
    BY <2>7 DEF OrderInv
  <2> HIDE DEF f
  <2>9. Read(f) = 0
    BY <2>1, <2>5 DEF Read
  <2>10. Suffix(f) /\ \A d : ~Past(f, d)
    <3>1. Suffix(f)
      <4>1. \A j \in 1 .. Len(f.rest) : Read(f) + j = j
        BY <2>1, <2>5, <2>9
      <4>2. QED
        BY <1>3, <2>5, <2>9, <4>1 DEF Suffix
    <3>2. \A d : ~Past(f, d)
      BY <2>9 DEF Past
    <3>3. QED
      BY <3>1, <3>2
  <2>11. \A i \in 1 .. Len(stack') : Suffix(stack'[i])
    BY <1>1, <2>4, <2>10
  <2>12. \A i \in 1 .. Len(stack') - 1 : Imports(stack'[i].path, stack'[i + 1].path)
    <3> SUFFICES ASSUME NEW i \in 1 .. Len(stack') - 1 PROVE Imports(stack'[i].path, stack'[i + 1].path)
      OBVIOUS
    <3>1. i \in 1 .. h /\ stack'[i].path = stack[i].path
      BY <1>1, <2>4
    <3>2. CASE i = h
      BY <1>1, <2>4, <2>5, <3>1, <3>2
    <3>3. CASE i # h
      <4>1. i \in 1 .. Len(stack) - 1 /\ i + 1 \in 1 .. h
        BY <1>1, <3>1, <3>3
      <4>2. stack'[i + 1].path = stack[i + 1].path
        BY <2>4, <4>1
      <4>3. QED
        BY <3>1, <4>1, <4>2 DEF OrderInv
    <3>4. QED
      BY <3>2, <3>3
  <2>13. parsed' \subseteq DOMAIN prog.files
    BY <1>1, <1>3 DEF OrderInv
  <2>14. ASSUME NEW i \in 1 .. Len(stack'), NEW d, Past(stack'[i], d)
         PROVE  d = Import(p) \/ \E k \in 1 .. Len(stack) : Past(stack[k], d)
    <3>1. i \in 1 .. h
      BY <1>1, <2>4, <2>10, <2>14
    <3>2. QED
      BY <2>4, <2>14, <3>1
  <2>15. \A i \in 1 .. Len(stack') : \A q : Past(stack'[i], Import(q)) => q \in parsed'
    <3> SUFFICES ASSUME NEW i \in 1 .. Len(stack'), NEW q, Past(stack'[i], Import(q)) PROVE q \in parsed'
      OBVIOUS
    <3>1. Import(q) = Import(p) \/ \E k \in 1 .. Len(stack) : Past(stack[k], Import(q))
      BY <2>14
    <3>2. Import(q) = Import(p) => q = p
      BY DEF Import
    <3>3. QED
      BY <1>1, <3>1, <3>2 DEF OrderInv
  <2>16. \A i \in 1 .. Len(stack') : \A n : Past(stack'[i], Def(n)) => Present(n)'
    <3> SUFFICES ASSUME NEW i \in 1 .. Len(stack'), NEW n, Past(stack'[i], Def(n)) PROVE Present(n)'
      OBVIOUS
    <3>1. Def(n) = Import(p) \/ \E k \in 1 .. Len(stack) : Past(stack[k], Def(n))
      BY <2>14
    <3>2. Def(n) # Import(p)
      BY DEF Def, Import
    <3>3. Present(n)
      BY <3>1, <3>2 DEF OrderInv
    <3>4. QED
      BY <2>7, <3>3
  <2>17. \A q \in parsed' : \/ \E i \in 1 .. Len(stack') : stack'[i].path = q
                            \/ \A n \in DefNames(q) : Present(n)'
    <3> SUFFICES ASSUME NEW q \in parsed' PROVE \/ \E i \in 1 .. Len(stack') : stack'[i].path = q
                                                \/ \A n \in DefNames(q) : Present(n)'
      OBVIOUS
    <3>1. CASE q = p
      <4>1. h + 1 \in 1 .. Len(stack') /\ stack'[h + 1].path = q
        BY <1>1, <2>4, <2>5, <3>1
      <4>2. QED
        BY <4>1
    <3>2. CASE q # p
      <4>1. q \in parsed
        BY <1>1, <3>2
      <4>2. CASE \E i \in 1 .. Len(stack) : stack[i].path = q
        <5>1. PICK i \in 1 .. h : stack[i].path = q
          BY <4>2
        <5>2. i \in 1 .. Len(stack') /\ stack'[i].path = q
          BY <1>1, <2>4, <5>1
        <5>3. QED
          BY <5>2
      <4>3. CASE \A n \in DefNames(q) : Present(n)
        BY <2>7, <4>3
      <4>4. QED
        BY <4>1, <4>2, <4>3 DEF OrderInv
    <3>3. QED
      BY <3>1, <3>2
  <2>18. QED
    BY <2>8, <2>11, <2>12, <2>13, <2>15, <2>16, <2>17, OrderSame
<1>4. QED
  BY <1>2, <1>3

\* A step that neither begins a file nor reads in one.
LEMMA QuietOrder ==
    ASSUME GatherType, OrderInv, UNCHANGED <<prog, parsed>>, status' # "failed" => status # "failed",
           Len(stack') = Len(stack),
           \A i \in 1 .. Len(stack) : stack'[i].path = stack[i].path /\ stack'[i].rest = stack[i].rest,
           \A n : Present(n) => Present(n)',
           \A n, m : Led(n, m) => Led(n, m)'
    PROVE  OrderInv'
<1>1. \A i \in 1 .. Len(stack) : /\ Suffix(stack'[i]) <=> Suffix(stack[i])
                                 /\ \A d : Past(stack'[i], d) <=> Past(stack[i], d)
  BY DEF Suffix, Past, Read
<1>2. \A i \in 1 .. Len(stack') : Suffix(stack'[i])
  BY <1>1 DEF OrderInv
<1>3. \A i \in 1 .. Len(stack') - 1 : Imports(stack'[i].path, stack'[i + 1].path)
  <2> SUFFICES ASSUME NEW i \in 1 .. Len(stack') - 1 PROVE Imports(stack'[i].path, stack'[i + 1].path)
    OBVIOUS
  <2>1. Imports(stack[i].path, stack[i + 1].path)
    BY DEF OrderInv
  <2>2. i \in 1 .. Len(stack) /\ i + 1 \in 1 .. Len(stack)
    BY LenProperties DEF GatherType
  <2>3. QED
    BY <2>1, <2>2
<1>4. status' # "failed" =>
        /\ \A i \in 1 .. Len(stack') : \A p : Past(stack'[i], Import(p)) => p \in parsed'
        /\ \A i \in 1 .. Len(stack') : \A n : Past(stack'[i], Def(n)) => Present(n)'
  BY <1>1 DEF OrderInv
<1>5. status' # "failed" => \A p \in parsed' : \/ \E i \in 1 .. Len(stack') : stack'[i].path = p
                                               \/ \A n \in DefNames(p) : Present(n)'
  BY DEF OrderInv
<1>6. status' # "failed" => parsed' \subseteq DOMAIN prog.files
  BY DEF OrderInv
<1>7. Acyclic => \A n, m : Follows(n, m) => Led(n, m)'
  BY DEF OrderInv
<1>8. QED
  BY <1>2, <1>3, <1>4, <1>5, <1>6, <1>7, OrderSame

\* At the start nothing is there.
LEMMA OrderInit == DInit => OrderInv
<1> SUFFICES ASSUME DInit PROVE OrderInv
  OBVIOUS
<1>1. merged = << >> /\ stack = << >> /\ parsed = {}
  BY DEF DInit, Init
<1>2. Len(stack) = 0 /\ Len(merged) = 0
  BY <1>1, EmptySeq
<1>3. \A i, k \in Nat : \A n : ~At(i, k, n)
  BY <1>2 DEF At, Row
<1>4. QED
  BY <1>1, <1>2, <1>3 DEF OrderInv, Led

\* Reading a definition: without cycles, what the imports before it define is
\* there already.
LEMMA ParseDefOrder == GatherType /\ MergeInv /\ OrderInv /\ ParseDef => OrderInv'
<1> SUFFICES ASSUME GatherType, MergeInv, OrderInv, ParseDef PROVE OrderInv'
  OBVIOUS
<1>1. /\ stack # << >> /\ Top.rest # << >> /\ status = "running"
      /\ UNCHANGED <<prog, parsed, merged, status>>
  BY DEF ParseDef, Reading, Running
<1>2. /\ Len(stack') = Len(stack)
      /\ \A i \in 1 .. Len(stack) : stack'[i].path = stack[i].path /\ stack'[i].rest = Advanced[i].rest
  BY ParseDefStack DEF GatherType
<1>3. /\ \A n : Present(n) => Present(n)'
      /\ \A n : n = Head(Top.rest).name => Present(n)'
      /\ \A n, m : Led(n, m) /\ (m = Head(Top.rest).name => Present(n)) => Led(n, m)'
  BY ParseDefLed
<1>4. /\ \A i \in 1 .. Len(stack) : Suffix(stack'[i])
      /\ \A i \in 1 .. Len(stack) : \A d :
            Past(stack'[i], d) => Past(stack[i], d) \/ (i = Len(stack) /\ d = Head(Top.rest))
      /\ Read(Top) + 1 \in DOMAIN prog.files[Top.path]
      /\ prog.files[Top.path][Read(Top) + 1] = Head(Top.rest)
      /\ Top.path \in DOMAIN prog.files
  BY <1>1, <1>2, AdvancedPast
<1>5. Head(Top.rest) = Def(Head(Top.rest).name)
  BY ParseDefAt
<1>6. Len(stack) \in Nat \ {0} /\ Top = stack[Len(stack)]
  BY <1>1, TopType DEF GatherType, Top
<1>7. \A i \in 1 .. Len(stack') - 1 : Imports(stack'[i].path, stack'[i + 1].path)
  <2> SUFFICES ASSUME NEW i \in 1 .. Len(stack') - 1 PROVE Imports(stack'[i].path, stack'[i + 1].path)
    OBVIOUS
  <2>1. i \in 1 .. Len(stack) /\ i + 1 \in 1 .. Len(stack) /\ i \in 1 .. Len(stack) - 1
    BY <1>2, <1>6
  <2>2. QED
    BY <1>2, <2>1 DEF OrderInv
<1>8. \A i \in 1 .. Len(stack') : \A p : Past(stack'[i], Import(p)) => p \in parsed'
  <2> SUFFICES ASSUME NEW i \in 1 .. Len(stack'), NEW p, Past(stack'[i], Import(p)) PROVE p \in parsed'
    OBVIOUS
  <2>1. Import(p) # Head(Top.rest)
    BY <1>5 DEF Import, Def
  <2>2. i \in 1 .. Len(stack)
    BY <1>2
  <2>3. \A d : Past(stack'[i], d) => Past(stack[i], d) \/ d = Head(Top.rest)
    BY <1>4, <2>2
  <2>4. Past(stack[i], Import(p))
    BY <2>1, <2>3, Zenon
  <2>5. QED
    BY <1>1, <2>2, <2>4 DEF OrderInv
<1>9. \A i \in 1 .. Len(stack') : \A n : Past(stack'[i], Def(n)) => Present(n)'
  <2> SUFFICES ASSUME NEW i \in 1 .. Len(stack'), NEW n, Past(stack'[i], Def(n)) PROVE Present(n)'
    OBVIOUS
  <2>1. CASE Def(n) = Head(Top.rest)
    <3>1. n = Head(Top.rest).name
      BY <2>1 DEF Def
    <3>2. QED
      BY <1>3, <3>1
  <2>2. CASE Def(n) # Head(Top.rest)
    <3>1. i \in 1 .. Len(stack)
      BY <1>2
    <3>2. \A d : Past(stack'[i], d) => Past(stack[i], d) \/ d = Head(Top.rest)
      BY <1>4, <3>1
    <3>3. Past(stack[i], Def(n))
      BY <2>2, <3>2, Zenon
    <3>4. Present(n)
      BY <1>1, <3>1, <3>3 DEF OrderInv
    <3>5. QED
      BY <1>3, <3>4
  <2>3. QED
    BY <2>1, <2>2
<1>10. \A p \in parsed' : \/ \E i \in 1 .. Len(stack') : stack'[i].path = p
                          \/ \A n \in DefNames(p) : Present(n)'
  BY <1>1, <1>2, <1>3 DEF OrderInv
<1>11. ASSUME Acyclic, NEW n, NEW m, Follows(n, m) PROVE Led(n, m)'
  <2>1. Led(n, m)
    BY <1>11 DEF OrderInv
  <2>2. ASSUME m = Head(Top.rest).name PROVE Present(n)
    <3>1. PICK p \in DOMAIN prog.files : \E i, j \in DOMAIN prog.files[p] :
              /\ i < j /\ prog.files[p][i].kind = "import" /\ prog.files[p][j] = Def(m)
              /\ OnlyAt(p, j) /\ n \in DefNames(prog.files[p][i].path)
      BY <1>11 DEF Follows
    <3>2. PICK i \in DOMAIN prog.files[p], j \in DOMAIN prog.files[p] :
              /\ i < j /\ prog.files[p][i].kind = "import" /\ prog.files[p][j] = Def(m)
              /\ OnlyAt(p, j) /\ n \in DefNames(prog.files[p][i].path)
      BY <3>1
    <3>3. Top.path = p /\ Read(Top) + 1 = j
      BY <1>4, <1>5, <2>2, <3>2 DEF OnlyAt
    <3> DEFINE F == prog.files[p]
               q == F[i].path
    <3>4. F \in Seq(Declarations) /\ DOMAIN F = 1 .. Len(F) /\ Len(F) \in Nat
      <4>1. F \in Seq(Declarations)
        BY ProgramsAssumption DEF GatherType
      <4>2. QED
        BY <4>1, LenProperties
    <3>5. F[i] \in Declarations
      BY <3>4, ElementOfSeq
    <3>6. F[i] = Import(q) /\ q \in Paths
      BY <3>2, <3>5, Kinds3
    <3>7. Imports(Top.path, q)
      BY <3>3, <3>6 DEF Imports
    <3>8. Past(Top, Import(q))
      <4>1. Suffix(Top)
        BY <1>6 DEF OrderInv
      <4>2. i \in 1 .. Read(Top)
        BY <3>2, <3>3, <3>4, <4>1 DEF Suffix
      <4>3. QED
        BY <3>3, <3>6, <4>2 DEF Past
    <3>9. q \in parsed
      BY <1>1, <1>6, <3>8 DEF OrderInv
    <3>10. \A k \in 1 .. Len(stack) : stack[k].path # q
      BY <1>1, <1>11, <3>6, <3>7, NoCycle
    <3>11. QED
      BY <1>1, <3>2, <3>9, <3>10 DEF OrderInv
  <2>3. QED
    BY <1>3, <2>1, <2>2
<1>12. parsed' \subseteq DOMAIN prog.files
  BY <1>1 DEF OrderInv
<1>13. \A i \in 1 .. Len(stack') : Suffix(stack'[i])
  BY <1>2, <1>4
<1>14. QED
  BY <1>1, <1>7, <1>8, <1>9, <1>10, <1>11, <1>12, <1>13, OrderSame

\* The end of an import.
LEMMA EndImportOrder == GatherType /\ MergeInv /\ OrderInv /\ EndImport => OrderInv'
<1> SUFFICES ASSUME GatherType, MergeInv, OrderInv, EndImport PROVE OrderInv'
  OBVIOUS
<1> DEFINE h == Len(stack)
<1>1. /\ h > 1 /\ Top.rest = << >> /\ status = "running"
      /\ UNCHANGED <<prog, parsed, merged, status>>
  BY DEF EndImport, Running
<1>2. h \in Nat /\ stack # << >> /\ Top = stack[h]
  BY <1>1, EmptySeq, LenProperties DEF GatherType, Top
<1>3. /\ Len(stack') = h - 1
      /\ \A i \in 1 .. h - 1 : stack'[i].path = stack[i].path /\ stack'[i].rest = stack[i].rest
  BY <1>1, EndImportType DEF GatherType, EndImport
<1>4. /\ \A n : Present(n) => Present(n)'
      /\ \A n, m : Led(n, m) => Led(n, m)'
  BY EndImportLed
<1>5. \A i \in 1 .. Len(stack') : /\ i \in 1 .. h
                                  /\ Suffix(stack'[i]) <=> Suffix(stack[i])
                                  /\ \A d : Past(stack'[i], d) <=> Past(stack[i], d)
  <2> SUFFICES ASSUME NEW i \in 1 .. Len(stack')
               PROVE  /\ i \in 1 .. h
                      /\ Suffix(stack'[i]) <=> Suffix(stack[i])
                      /\ \A d : Past(stack'[i], d) <=> Past(stack[i], d)
    OBVIOUS
  <2>1. i \in 1 .. h - 1 /\ i \in 1 .. h
    BY <1>2, <1>3
  <2>2. stack'[i].path = stack[i].path /\ stack'[i].rest = stack[i].rest
    BY <1>3, <2>1
  <2>3. QED
    BY <2>1, <2>2 DEF Suffix, Past, Read
<1>6. \A i \in 1 .. Len(stack') : Suffix(stack'[i])
  BY <1>5 DEF OrderInv
<1>7. \A i \in 1 .. Len(stack') - 1 : Imports(stack'[i].path, stack'[i + 1].path)
  <2> SUFFICES ASSUME NEW i \in 1 .. Len(stack') - 1 PROVE Imports(stack'[i].path, stack'[i + 1].path)
    OBVIOUS
  <2>1. i \in 1 .. h - 1 /\ i + 1 \in 1 .. h - 1
    BY <1>2, <1>3
  <2>2. QED
    BY <1>3, <2>1 DEF OrderInv
<1>8. /\ \A i \in 1 .. Len(stack') : \A p : Past(stack'[i], Import(p)) => p \in parsed'
      /\ \A i \in 1 .. Len(stack') : \A n : Past(stack'[i], Def(n)) => Present(n)'
  BY <1>1, <1>4, <1>5 DEF OrderInv
<1>9. ASSUME NEW p \in parsed', \A i \in 1 .. Len(stack') : stack'[i].path # p, NEW n \in DefNames(p)
      PROVE  Present(n)'
  <2>1. CASE p = Top.path
    BY <1>1, <1>2, <1>4, <1>9, <2>1, WholeIsPast
  <2>2. CASE p # Top.path
    <3>1. \A i \in 1 .. Len(stack) : stack[i].path # p
      BY <1>2, <1>3, <1>9, <2>2
    <3>2. QED
      BY <1>1, <1>4, <1>9, <3>1 DEF OrderInv
  <2>3. QED
    BY <2>1, <2>2
<1>10. \A p \in parsed' : \/ \E i \in 1 .. Len(stack') : stack'[i].path = p
                          \/ \A n \in DefNames(p) : Present(n)'
  BY <1>9
<1>11. Acyclic => \A n, m : Follows(n, m) => Led(n, m)'
  BY <1>4 DEF OrderInv
<1>12. parsed' \subseteq DOMAIN prog.files
  BY <1>1 DEF OrderInv
<1>13. QED
  BY <1>1, <1>6, <1>7, <1>8, <1>10, <1>11, <1>12, OrderSame

\* The end of a file of the command line, whose definitions have all been merged.
LEMMA EndArgOrder == GatherType /\ MergeInv /\ OrderInv /\ EndArg => OrderInv'
<1> SUFFICES ASSUME GatherType, MergeInv, OrderInv, EndArg PROVE OrderInv'
  OBVIOUS
<1>1. /\ Len(stack) = 1 /\ Top.rest = << >> /\ Top.defs = << >> /\ stack' = << >> /\ status = "running"
      /\ UNCHANGED <<prog, parsed, merged, status>>
  BY DEF EndArg, Merging, Running
<1>2. Len(stack') = 0 /\ Top = stack[1] /\ stack # << >> /\ Len(Top.defs) = 0
  BY <1>1, EmptySeq DEF Top
<1>3. \A i, k \in Nat : \A n : At(i, k, n)' <=> At(i, k, n)
  <2> SUFFICES ASSUME NEW i \in Nat, NEW k \in Nat, NEW n PROVE At(i, k, n)' <=> At(i, k, n)
    OBVIOUS
  <2>1. CASE i = 0
    BY <1>1, <1>2, <2>1 DEF At, Row
  <2>2. CASE i = 1
    BY <1>1, <1>2, <2>2 DEF At, Row
  <2>3. CASE i > 1
    BY <1>1, <1>2, <2>3 DEF At
  <2>4. QED
    BY <2>1, <2>2, <2>3
<1>4. /\ \A n : Present(n)' <=> Present(n)
      /\ \A n, m : Led(n, m) => Led(n, m)'
  BY <1>3, StillLed
<1>5. \A p \in parsed' : \A n \in DefNames(p) : Present(n)'
  <2> SUFFICES ASSUME NEW p \in parsed, NEW n \in DefNames(p) PROVE Present(n)
    BY <1>1, <1>4
  <2>1. CASE p = Top.path
    BY <1>1, <1>2, <2>1, WholeIsPast
  <2>2. CASE p # Top.path
    BY <1>1, <1>2, <2>2 DEF OrderInv
  <2>3. QED
    BY <2>1, <2>2
<1>6. Acyclic => \A n, m : Follows(n, m) => Led(n, m)'
  BY <1>4 DEF OrderInv
<1>7. parsed' \subseteq DOMAIN prog.files
  BY <1>1 DEF OrderInv
<1>8. QED
  BY <1>1, <1>2, <1>5, <1>6, <1>7, OrderSame

\* Every step keeps the order.
LEMMA OrderNext == GatherType /\ MergeInv /\ OrderInv /\ [Next]_vars => OrderInv'
<1> SUFFICES ASSUME GatherType, MergeInv, OrderInv, [Next]_vars PROVE OrderInv'
  OBVIOUS
<1>1. CASE NextArg
  <2> DEFINE p == Head(args)
             below == << >>
  <2>1. /\ status = "running" /\ stack = << >> /\ args # << >>
        /\ UNCHANGED <<prog, merged>>
    BY <1>1 DEF NextArg, Running
  <2>2. p \in Paths /\ Len(stack) = 0
    BY <2>1, HeadTailProperties, EmptySeq DEF GatherType
  <2>3. CASE p \in parsed
    <3>1. UNCHANGED <<prog, merged, parsed, stack, status>>
      BY <1>1, <2>3 DEF NextArg
    <3>2. \A i, k \in Nat : \A n : At(i, k, n)' <=> At(i, k, n)
      BY <3>1 DEF At, Row
    <3>3. QED
      BY <3>1, <3>2, StillLed, QuietOrder
  <2>4. CASE p \notin parsed
    <3>1. Mark(p) /\ OpenFile(p, below)
      BY <1>1, <2>4 DEF NextArg
    <3>2. stack' = stack \/ stack' = Append(below, [path |-> p, rest |-> prog.files[p], defs |-> << >>])
      BY <3>1 DEF OpenFile
    <3>3. below \in Seq(Frames) /\ Len(below) = Len(stack)
      BY <2>1, EmptySeq
    <3> HIDE DEF p, below
    <3>4. /\ \A i \in 1 .. Len(stack) : below[i].path = stack[i].path /\ below[i].defs = stack[i].defs
          /\ \A i \in 1 .. Len(stack) : Suffix(below[i])
          /\ \A i \in 1 .. Len(stack) : \A d : Past(below[i], d) => Past(stack[i], d) \/ d = Import(p)
          /\ Len(stack) > 0 => Imports(stack[Len(stack)].path, p)
      BY <2>2
    <3>5. QED
      BY <2>1, <2>2, <3>1, <3>2, <3>3, <3>4, OpenOrder
  <2>5. QED
    BY <2>3, <2>4
<1>2. CASE ParseImport
  <2> DEFINE p == Head(Top.rest).path
  <2>1. /\ status = "running" /\ stack # << >> /\ Top.rest # << >> /\ Head(Top.rest).kind = "import"
        /\ UNCHANGED <<prog, merged>>
    BY <1>2 DEF ParseImport, Reading, Running
  <2>2. p \in Paths /\ Head(Top.rest) = Import(p)
    BY <2>1, TopType, Kinds3 DEF GatherType
  <2>3. /\ Advanced \in Seq(Frames) /\ Len(Advanced) = Len(stack)
        /\ \A i \in 1 .. Len(stack) : Advanced[i].path = stack[i].path /\ Advanced[i].defs = stack[i].defs
    BY <2>1, AdvancedType DEF GatherType
  <2>4. Len(stack) \in Nat \ {0} /\ Top = stack[Len(stack)]
    BY <2>1, TopType DEF GatherType, Top
  <2> DEFINE adv == Advanced
  <2>5. \A i \in 1 .. Len(stack) : adv[i].path = stack[i].path /\ adv[i].rest = Advanced[i].rest
    BY <2>3
  <2>6. /\ \A i \in 1 .. Len(stack) : Suffix(Advanced[i])
        /\ \A i \in 1 .. Len(stack) : \A d :
              Past(Advanced[i], d) => Past(stack[i], d) \/ (i = Len(stack) /\ d = Head(Top.rest))
        /\ Read(Top) + 1 \in DOMAIN prog.files[Top.path]
        /\ prog.files[Top.path][Read(Top) + 1] = Head(Top.rest)
        /\ Top.path \in DOMAIN prog.files
    BY <2>1, <2>5, AdvancedPast
  <2>7. Imports(Top.path, p)
    BY <2>2, <2>6 DEF Imports
  <2> HIDE DEF p
  <2>8. CASE p \in parsed
    <3>1. stack' = Advanced /\ UNCHANGED <<parsed, status>>
      BY <1>2, <2>8 DEF ParseImport, p
    <3>2. \A i, k \in Nat : \A n : At(i, k, n)' <=> At(i, k, n)
      <4> SUFFICES ASSUME NEW i \in Nat, NEW k \in Nat, NEW n PROVE At(i, k, n)' <=> At(i, k, n)
        OBVIOUS
      <4>1. CASE i = 0
        BY <2>1, <2>3, <3>1, <4>1 DEF At, Row
      <4>2. CASE i # 0
        <5>1. i \in 0 .. Len(stack) => stack'[i].defs = stack[i].defs
          BY <2>3, <2>4, <3>1, <4>2
        <5>2. QED
          BY <2>3, <3>1, <4>2, <5>1 DEF At, Row
      <4>3. QED
        BY <4>1, <4>2
    <3>3. /\ \A n : Present(n)' <=> Present(n)
          /\ \A n, m : Led(n, m) => Led(n, m)'
      BY <3>2, StillLed
    <3>4. \A i \in 1 .. Len(stack') : Suffix(stack'[i])
      BY <2>3, <2>6, <3>1
    <3>5. \A i \in 1 .. Len(stack') - 1 : Imports(stack'[i].path, stack'[i + 1].path)
      <4> SUFFICES ASSUME NEW i \in 1 .. Len(stack') - 1 PROVE Imports(stack'[i].path, stack'[i + 1].path)
        OBVIOUS
      <4>1. i \in 1 .. Len(stack) /\ i + 1 \in 1 .. Len(stack) /\ i \in 1 .. Len(stack) - 1
        BY <2>3, <2>4, <3>1
      <4>2. QED
        BY <2>3, <3>1, <4>1 DEF OrderInv
    <3>6. \A i \in 1 .. Len(stack') : \A q : Past(stack'[i], Import(q)) => q \in parsed'
      <4> SUFFICES ASSUME NEW i \in 1 .. Len(stack'), NEW q, Past(stack'[i], Import(q)) PROVE q \in parsed'
        OBVIOUS
      <4>1. Past(stack[i], Import(q)) \/ Import(q) = Import(p)
        BY <2>2, <2>3, <2>6, <3>1
      <4>2. Import(q) = Import(p) => q = p
        BY DEF Import
      <4>3. QED
        BY <2>1, <2>3, <2>8, <3>1, <4>1, <4>2 DEF OrderInv
    <3>7. \A i \in 1 .. Len(stack') : \A n : Past(stack'[i], Def(n)) => Present(n)'
      <4> SUFFICES ASSUME NEW i \in 1 .. Len(stack'), NEW n, Past(stack'[i], Def(n)) PROVE Present(n)'
        OBVIOUS
      <4>1. Def(n) # Import(p)
        BY DEF Import, Def
      <4>2. Past(stack[i], Def(n))
        BY <2>2, <2>3, <2>6, <3>1, <4>1
      <4>3. QED
        BY <2>1, <2>3, <3>1, <3>3, <4>2 DEF OrderInv
    <3>8. \A q \in parsed' : \/ \E i \in 1 .. Len(stack') : stack'[i].path = q
                             \/ \A n \in DefNames(q) : Present(n)'
      BY <2>1, <2>3, <3>1, <3>3 DEF OrderInv
    <3>9. Acyclic => \A n, m : Follows(n, m) => Led(n, m)'
      BY <3>3 DEF OrderInv
    <3>10. parsed' \subseteq DOMAIN prog.files
      BY <2>1, <3>1 DEF OrderInv
    <3>11. QED
      BY <2>1, <3>4, <3>5, <3>6, <3>7, <3>8, <3>9, <3>10, OrderSame
  <2>9. CASE p \notin parsed
    <3>1. Mark(p) /\ OpenFile(p, Advanced)
      BY <1>2, <2>9 DEF ParseImport, p
    <3>2. stack' = stack \/ stack' = Append(Advanced, [path |-> p, rest |-> prog.files[p], defs |-> << >>])
      BY <3>1 DEF OpenFile
    <3>3. \A i \in 1 .. Len(stack) : \A d : Past(Advanced[i], d) => Past(stack[i], d) \/ d = Import(p)
      BY <2>2, <2>6
    <3>4. Len(stack) > 0 => Imports(stack[Len(stack)].path, p)
      BY <2>4, <2>7
    <3>5. p \in Paths /\ \A i \in 1 .. Len(stack) : Suffix(Advanced[i])
      BY <2>2, <2>6
    <3>6. QED
      BY <2>1, <2>3, <3>1, <3>2, <3>3, <3>4, <3>5, OpenOrder
  <2>10. QED
    BY <2>8, <2>9
<1>3. CASE ParseDef
  BY <1>3, ParseDefOrder
<1>4. CASE EndImport
  BY <1>4, EndImportOrder
<1>5. CASE MergeDef
  <2>1. Len(stack) = 1 /\ Top.defs # << >> /\ UNCHANGED <<prog, parsed, status>>
    BY <1>5 DEF MergeDef, Merging
  <2>2. /\ Len(stack') = 1
        /\ stack'[1].path = stack[1].path /\ stack'[1].rest = stack[1].rest
    BY <1>5, <2>1, MergeDefType DEF GatherType, MergeDef
  <2>3. \A i \in 1 .. Len(stack) : stack'[i].path = stack[i].path /\ stack'[i].rest = stack[i].rest
    BY <2>1, <2>2
  <2>4. /\ \A n : Present(n) => Present(n)'
        /\ \A n, m : Led(n, m) => Led(n, m)'
    BY <1>5, MergeDefLed
  <2>5. QED
    BY <2>1, <2>2, <2>3, <2>4, QuietOrder
<1>6. CASE EndArg
  BY <1>6, EndArgOrder
<1>7. CASE ParseFails \/ Finish \/ UNCHANGED vars
  <2>1. UNCHANGED <<prog, parsed, merged, stack>> /\ (status' # "failed" => status # "failed")
    BY <1>7 DEF ParseFails, Finish, vars, Reading, Running
  <2>2. \A i, k \in Nat : \A n : At(i, k, n)' <=> At(i, k, n)
    BY <2>1 DEF At, Row
  <2>3. QED
    BY <2>1, <2>2, StillLed, QuietOrder
<1>8. QED
  BY <1>1, <1>2, <1>3, <1>4, <1>5, <1>6, <1>7 DEF Next

-----------------------------------------------------------------------------
\* In any program whose imports have no cycle, all that an imported file defines
\* stands in the merged module before each name that is defined after the import
\* and nowhere else.
THEOREM ImportsComeFirstCorrect == DSpec => []ImportsComeFirst
<1>1. GatherType /\ ReadInv /\ WholeInv /\ MergeInv /\ OrderInv => ImportsComeFirst
  <2> SUFFICES ASSUME GatherType, ReadInv, WholeInv, MergeInv, OrderInv, status = "done", Acyclic,
                      NEW p \in Reach, NEW i \in DOMAIN prog.files[p], NEW j \in DOMAIN prog.files[p],
                      i < j, prog.files[p][i].kind = "import", prog.files[p][j].kind = "def", OnlyAt(p, j),
                      NEW n \in DefNames(prog.files[p][i].path)
               PROVE  IndexOf(n) < IndexOf(prog.files[p][j].name)
    BY DEF ImportsComeFirst
  <2> DEFINE m == prog.files[p][j].name
             q == prog.files[p][i].path
  <2>1. parsed = Reach
    BY AllParsed
  <2>2. p \in DOMAIN prog.files
    BY <2>1 DEF OrderInv
  <2>3. /\ prog.files[p] \in Seq(Declarations)
        /\ DOMAIN prog.files[p] = 1 .. Len(prog.files[p])
    BY <2>2, ProgramsAssumption, LenProperties DEF GatherType
  <2>4. prog.files[p][i] = Import(q) /\ q \in Paths /\ prog.files[p][j] = Def(m)
    BY <2>3, ElementOfSeq, Kinds3
  <2>5. q \in Reach
    <3>1. Imports(p, q)
      BY <2>2, <2>4 DEF Imports
    <3>2. QED
      BY <2>4, <3>1, ReachIs, ReachableClosed DEF Closed
  <2>6. Len(stack) = 0
    BY EmptySeq DEF WholeInv
  <2>7. n \in NamesOf(merged) /\ m \in NamesOf(merged)
    <3>1. m \in DefNames(p)
      BY <2>2, <2>3, <2>4, DefNamesIs
    <3>2. \A r \in Reach : \A x \in DefNames(r) : x \in NamesOf(merged)
      BY <2>1, <2>6 DEF MergeInv, Underway
    <3>3. QED
      BY <2>5, <3>1, <3>2
  <2>8. Follows(n, m)
    BY <2>2, <2>4 DEF Follows
  <2> HIDE DEF m, q
  <2>9. /\ DOMAIN merged = 1 .. Len(merged) /\ Len(merged) \in Nat
        /\ \A x \in NamesOf(merged) : /\ IndexOf(x) \in 1 .. Len(merged)
                                      /\ \A k \in 1 .. Len(merged) : merged[k].name = x <=> k = IndexOf(x)
    <3>1. DOMAIN merged = 1 .. Len(merged) /\ Len(merged) \in Nat
      BY LenProperties DEF MergeInv
    <3>2. ASSUME NEW x \in NamesOf(merged)
          PROVE  IndexOf(x) \in 1 .. Len(merged) /\ merged[IndexOf(x)].name = x
      <4>1. \E k \in DOMAIN merged : merged[k].name = x
        BY <3>2 DEF NamesOf
      <4>2. QED
        BY <3>1, <4>1 DEF IndexOf
    <3>3. QED
      BY <3>1, <3>2 DEF MergeInv, OncePerName
  <2>10. \A k \in Nat : \A x : At(0, k, x) <=> k \in 1 .. Len(merged) /\ merged[k].name = x
    BY <2>6 DEF At, Row
  <2>11. At(0, IndexOf(m), m) /\ IndexOf(m) \in Nat
    BY <2>7, <2>9, <2>10
  <2>12. PICK a \in Nat, k \in Nat : At(a, k, n) /\ Precedes(a, k, 0, IndexOf(m))
    BY <2>8, <2>11 DEF OrderInv, Led
  <2>13. a = 0 /\ k < IndexOf(m)
    BY <2>12 DEF Precedes
  <2>14. k = IndexOf(n)
    BY <2>7, <2>9, <2>10, <2>12, <2>13
  <2>15. QED
    BY <2>13, <2>14 DEF m
<1>2. QED
  BY <1>1, Gathers, MergeInit, MergeNext, OrderInit, OrderNext, OnlyGather, PTL DEF DSpec
=============================================================================
