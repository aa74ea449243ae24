----------------------------- MODULE LexerProofs ------------------------------
(***************************************************************************)
(* Proofs about Lexer, for every text: the loop of tokenize comes to the   *)
(* end of the text or raises, and the lines it gives to the tokens are     *)
(* those of the text.                                                      *)
(***************************************************************************)
EXTENDS Lexer, Induction, SequenceTheorems

-----------------------------------------------------------------------------
(***************************************************************************)
(* Line ends in a stretch of the text.                                     *)
(***************************************************************************)
LFIn(s, a, b) == \E q \in a .. b : q <= Len(s) /\ s[q] = LF

\* A stretch in two.
LEMMA LFSplit ==
    ASSUME NEW C, NEW s \in Seq(C), NEW a \in Nat, NEW b \in Nat, NEW c \in Nat,
           a <= b, b <= c + 1
    PROVE  LFIn(s, a, c) <=> LFIn(s, a, b - 1) \/ LFIn(s, b, c)
<1>1. Len(s) \in Nat
  BY LenProperties
<1>2. ASSUME NEW q \in a .. c PROVE q \in a .. b - 1 \/ q \in b .. c
  OBVIOUS
<1>3. ASSUME NEW q, q \in a .. b - 1 \/ q \in b .. c PROVE q \in a .. c
  BY <1>3
<1>4. QED
  BY <1>2, <1>3 DEF LFIn

\* Counting them.
LEMMA LFCount ==
    ASSUME NEW n \in Nat, NEW K \in SUBSET (1 .. n)
    PROVE  Cardinality(K) \in Nat /\ (Cardinality(K) > 0 <=> K # {})
<1>1. IsFiniteSet(1 .. n)
  BY FS_Interval
<1>2. IsFiniteSet(K)
  BY <1>1, FS_Subset
<1>3. Cardinality(K) \in Nat
  BY <1>2, FS_CardinalityType
<1>4. Cardinality(K) = 0 <=> K = {}
  BY <1>2, FS_EmptySet
<1>5. \A c \in Nat : c > 0 <=> c # 0
  OBVIOUS
<1>6. QED
  BY <1>3, <1>4, <1>5

\* An inner loop stops at the first character it does not take.
LEMMA PastIs ==
    ASSUME NEW C, NEW s \in Seq(C), NEW p \in 1 .. Len(s) + 1, NEW S, "EOF" \notin S
    PROVE  /\ Past(s, p, S) \in p .. Len(s) + 1
           /\ \A q \in p .. Past(s, p, S) - 1 : q \in 1 .. Len(s) /\ s[q] \in S
           /\ Past(s, p, S) <= Len(s) => s[Past(s, p, S)] \notin S
<1> DEFINE K == {q \in p .. Len(s) + 1 : Ch(s, q) \notin S}
<1>1. Len(s) \in Nat /\ Len(s) + 1 \in Nat /\ p \in Nat
  BY LenProperties
<1>2. Len(s) + 1 \in K
  BY <1>1 DEF Ch
<1>3. K \in SUBSET (1 .. Len(s) + 1)
  BY <1>1
<1>4. Past(s, p, S) = Min(K)
  BY DEF Past
<1> HIDE DEF K
<1>5. Min(K) \in K /\ \A y \in K : Min(K) <= y
  BY <1>1, <1>2, <1>3, MinIsThere
<1>6. PICK m \in p .. Len(s) + 1 : m = Past(s, p, S) /\ Ch(s, m) \notin S /\ \A y \in K : m <= y
  BY <1>4, <1>5 DEF K
<1>7. ASSUME NEW q \in p .. m - 1 PROVE q \in 1 .. Len(s) /\ s[q] \in S
  <2>1. q \in p .. Len(s) + 1 /\ ~(m <= q) /\ q \in 1 .. Len(s)
    BY <1>1
  <2>2. Ch(s, q) \in S
    BY <1>6, <2>1 DEF K
  <2>3. QED
    BY <2>1, <2>2 DEF Ch
<1>8. m <= Len(s) => s[m] \notin S
  BY <1>6 DEF Ch
<1>9. QED
  BY <1>6, <1>7, <1>8

-----------------------------------------------------------------------------
(***************************************************************************)
(* What the loop takes at a position.                                      *)
(***************************************************************************)
Kinds == {"1", "x", "T", ".."}
           \cup {w[1] : w \in SYMBOLS} \cup {w[1] \o w[2] : w \in {v \in SYMBOLS \cup KEYWORDS : Len(v) = 2}}

\* What is taken from p goes on to `to'.  It contains a line end exactly if the
\* line is counted up, unless a backslash is in it.
Reads(s, p, r) ==
    r.ok => /\ r.k \in Kinds /\ r.to \in p + 1 .. Len(s) + 1 /\ r.ends \in Nat
            /\ (\A q \in p .. r.to - 1 : s[q] # Escape) => (r.ends > 0 <=> LFIn(s, p, r.to - 1))

\* No line end is in a lexeme other than a string.
LEMMA ReadsNoLF ==
    ASSUME NEW C, NEW s \in Seq(C), NEW p \in 1 .. Len(s), NEW k \in Kinds,
           NEW to \in p + 1 .. Len(s) + 1, \A q \in p .. to - 1 : s[q] # LF
    PROVE  Reads(s, p, Took(k, to, 0))
BY DEF Reads, Took, LFIn

\* An identifier or a keyword.
LEMMA WordReads ==
    ASSUME NEW C, NEW s \in Seq(C), NEW p \in 1 .. Len(s), s[p] \in Letters
    PROVE  Reads(s, p, Word(s, p))
<1> DEFINE to == Past(s, p, Letters \cup Digits)
           w  == SubSeq(s, p, to - 1)
           k  == CASE w \in KEYWORDS -> w[1] \o w[2] [] w \in TYPES -> "T" [] OTHER -> "x"
<1>1. Len(s) \in Nat /\ p \in 1 .. Len(s) + 1
  BY LenProperties
<1>2. "EOF" \notin Letters \cup Digits /\ LF \notin Letters \cup Digits
  BY DEF Letters, Digits, LF
<1>3. /\ to \in p .. Len(s) + 1
      /\ \A q \in p .. to - 1 : s[q] \in Letters \cup Digits
      /\ to <= Len(s) => s[to] \notin Letters \cup Digits
  BY <1>1, <1>2, PastIs
<1>4. k \in Kinds
  <2>1. CASE w \in KEYWORDS
    <3>1. Len(w) = 2
      <4>1. \A v \in KEYWORDS : Len(v) = 2
        BY DEF KEYWORDS
      <4>2. QED
        BY <2>1, <4>1
    <3>2. w[1] \o w[2] \in Kinds
      <4> HIDE DEF w
      <4>1. QED
        BY <2>1, <3>1 DEF Kinds
    <3>3. w \notin TYPES
      BY <2>1 DEF KEYWORDS, TYPES
    <3>4. k = w[1] \o w[2]
      BY <2>1, <3>3
    <3>5. QED
      BY <3>2, <3>4
  <2>2. CASE w \notin KEYWORDS
    <3>1. k = "T" \/ k = "x"
      BY <2>2
    <3>2. QED
      BY <3>1 DEF Kinds
  <2>3. QED
    BY <2>1, <2>2
<1>5. Word(s, p) = Took(k, to, 0)
  BY DEF Word
<1> HIDE DEF to, k
<1>6. to # p
  BY <1>3
<1>7. QED
  BY <1>1, <1>2, <1>3, <1>4, <1>5, <1>6, ReadsNoLF

\* A symbol has one to three characters, none of them a line end.
LEMMA SymbolsAre ==
    ASSUME NEW w \in SYMBOLS
    PROVE  Len(w) \in 1 .. 3 /\ \A i \in 1 .. Len(w) : w[i] # LF
<1> DEFINE One == {"+", "-", "*", "/", "%", "&", "|", "^", "~", "<", ">", "!", "=",
                   ".", ":", ",", ";", "@", "(", ")", "{", "}", "[", "]"}
           Two == {"=", "-", "<", ">", "!", "&", "|", "+", "*", "/", "."}
<1>1. LF \notin One /\ LF \notin Two /\ LF # "."
  BY DEF LF
<1>2. \/ w = <<".", ".", ".">>
      \/ \E c \in One : w = <<c>>
      \/ \E c \in Two, d \in Two : w = <<c, d>>
  <2> HIDE DEF LF
  <2>1. ASSUME NEW c \in Two, NEW d \in Two, w = <<c, d>>
        PROVE  \E x \in Two, y \in Two : w = <<x, y>>
    BY <2>1
  <2>2. QED
    BY <2>1 DEF SYMBOLS
<1> HIDE DEF One, Two
<1>3. CASE w = <<".", ".", ".">>
  BY <1>1, <1>3
<1>4. ASSUME NEW c \in One, w = <<c>>
      PROVE  Len(w) \in 1 .. 3 /\ \A i \in 1 .. Len(w) : w[i] # LF
  BY <1>1, <1>4
<1>5. ASSUME NEW c \in Two, NEW d \in Two, w = <<c, d>>
      PROVE  Len(w) \in 1 .. 3 /\ \A i \in 1 .. Len(w) : w[i] # LF
  <2>1. c # LF /\ d # LF
    BY <1>1
  <2>2. Len(w) = 2 /\ w[1] = c /\ w[2] = d
    BY <1>5
  <2>3. \A i \in 1 .. 2 : i = 1 \/ i = 2
    OBVIOUS
  <2>4. QED
    BY <2>1, <2>2, <2>3
<1>6. QED
  BY <1>2, <1>3, <1>4, <1>5

\* Of the symbols that stand at a position there is a longest one.
LEMMA SymbolIs ==
    ASSUME NEW s, NEW p, \E w \in SYMBOLS : Starts(s, p, w)
    PROVE  Symbol(s, p) \in SYMBOLS /\ Starts(s, p, Symbol(s, p))
<1> DEFINE K == {Len(w) : w \in {v \in SYMBOLS : Starts(s, p, v)}}
<1>1. K \in SUBSET (1 .. 3) /\ K # {}
  BY SymbolsAre
<1>2. Max(K) \in K /\ \A y \in K : Max(K) >= y
  <2> HIDE DEF K
  <2>1. QED
    BY <1>1, MaxIsThere
<1>3. \E w \in SYMBOLS : Starts(s, p, w) /\ \A v \in SYMBOLS : Starts(s, p, v) => Len(w) >= Len(v)
  BY <1>2
<1>4. QED
  BY <1>3 DEF Symbol

LEMMA SymbolsRead ==
    ASSUME NEW C, NEW s \in Seq(C), NEW p \in 1 .. Len(s)
    PROVE  Reads(s, p, Symbols(s, p))
<1>1. CASE ~\E w \in SYMBOLS : Starts(s, p, w)
  BY <1>1 DEF Symbols, Reads, Raised
<1>2. CASE \E w \in SYMBOLS : Starts(s, p, w)
  <2> DEFINE w == Symbol(s, p)
             k == CASE Len(w) = 1 -> w[1] [] Len(w) = 2 -> w[1] \o w[2] [] Len(w) = 3 -> ".."
  <2>1. w \in SYMBOLS /\ Starts(s, p, w)
    BY <1>2, SymbolIs
  <2>2. Len(w) \in 1 .. 3 /\ \A i \in 1 .. Len(w) : w[i] # LF
    BY <2>1, SymbolsAre
  <2>3. Symbols(s, p) = Took(k, p + Len(w), 0)
    BY <1>2 DEF Symbols
  <2>4. k \in Kinds
    <3>1. w[1] \in Kinds /\ (Len(w) = 2 => w[1] \o w[2] \in Kinds) /\ ".." \in Kinds
      <4> HIDE DEF w
      <4>1. QED
        BY <2>1 DEF Kinds
    <3>2. k = w[1] \/ (Len(w) = 2 /\ k = w[1] \o w[2]) \/ k = ".."
      <4> HIDE DEF w
      <4>1. Len(w) = 1 \/ Len(w) = 2 \/ Len(w) = 3
        BY <2>2
      <4>2. CASE Len(w) = 1
        BY <4>2
      <4>3. CASE Len(w) = 2
        BY <4>3
      <4>4. CASE Len(w) = 3
        BY <4>4
      <4>5. QED
        BY <4>1, <4>2, <4>3, <4>4
    <3>3. QED
      BY <3>1, <3>2
  <2> HIDE DEF w, k
  <2>5. Len(s) \in Nat /\ p + Len(w) \in p + 1 .. Len(s) + 1
    BY <2>1, <2>2, LenProperties DEF Starts
  <2>6. w = SubSeq(s, p, p + Len(w) - 1)
    BY <2>1 DEF Starts
  <2>7. ASSUME NEW q \in p .. p + Len(w) - 1 PROVE s[q] # LF
    <3>1. q - p + 1 \in 1 .. Len(w) /\ p + (q - p + 1) - 1 = q
      BY <2>2
    <3>2. w[q - p + 1] = s[q]
      BY <2>2, <2>5, <2>6, <3>1, SubSeqProperties
    <3>3. QED
      BY <2>2, <3>1, <3>2
  <2>8. QED
    BY <2>3, <2>4, <2>5, <2>7, ReadsNoLF
<1>3. QED
  BY <1>1, <1>2

\* The characters of numbers.
Numeric == Digits \cup {"_", ".", "e", "+", "-", "x", "b", "o", "f"}

NumericTo(s, p, a) == a \in p .. Len(s) + 1 /\ \A q \in p .. a - 1 : s[q] \in Numeric

\* One of them more ...
LEMMA NumericNext ==
    ASSUME NEW C, NEW s \in Seq(C), NEW p \in 1 .. Len(s), NEW a, NumericTo(s, p, a),
           Ch(s, a) \in Numeric
    PROVE  NumericTo(s, p, a + 1)
<1>1. Len(s) \in Nat /\ a \in p .. Len(s) + 1
  BY LenProperties DEF NumericTo
<1>2. a <= Len(s) /\ s[a] \in Numeric
  BY <1>1 DEF Ch, Numeric, Digits
<1>3. QED
  BY <1>1, <1>2 DEF NumericTo

\* ... or as many as an inner loop takes.
LEMMA NumericOn ==
    ASSUME NEW C, NEW s \in Seq(C), NEW p \in 1 .. Len(s), NEW a, NumericTo(s, p, a),
           NEW S \in SUBSET Numeric
    PROVE  NumericTo(s, p, Past(s, a, S)) /\ a <= Past(s, a, S)
<1>1. Len(s) \in Nat /\ a \in p .. Len(s) + 1 /\ a \in 1 .. Len(s) + 1
  BY LenProperties DEF NumericTo
<1>2. "EOF" \notin S
  BY DEF Numeric, Digits
<1>3. /\ Past(s, a, S) \in a .. Len(s) + 1
      /\ \A q \in a .. Past(s, a, S) - 1 : s[q] \in S
  BY <1>1, <1>2, PastIs
<1>4. QED
  BY <1>1, <1>3 DEF NumericTo

\* A number that begins at a digit.
LEMMA NumberReads ==
    ASSUME NEW C, NEW s \in Seq(C), NEW p \in 1 .. Len(s), s[p] \in Digits
    PROVE  Reads(s, p, Number(s, p))
<1> DEFINE whole == Past(s, p, Digits \cup {"_"})
           dot   == Ch(s, whole) = "." /\ Ch(s, whole + 1) # "."
           frac  == IF dot THEN Past(s, whole + 1, Digits \cup {"_"}) ELSE whole
           sign  == IF Ch(s, frac + 1) \in {"+", "-"} THEN frac + 2 ELSE frac + 1
           exp   == Past(s, sign, Digits)
           base  == Ch(s, p + 1)
           after == Past(s, p + 2, Based[base] \cup {"_"})
<1> HIDE DEF whole, dot, frac, sign, exp, base, after
<1>0. Len(s) \in Nat /\ p \in Nat /\ p \in 1 .. Len(s) + 1 /\ p + 1 \in p .. Len(s) + 1
  BY LenProperties
<1>a. Digits \cup {"_"} \in SUBSET Numeric /\ Digits \in SUBSET Numeric
  BY DEF Numeric
<1>b. "." \in Numeric /\ "e" \in Numeric /\ "+" \in Numeric /\ "-" \in Numeric
  BY DEF Numeric
<1>1. NumericTo(s, p, p) /\ NumericTo(s, p, p + 1)
  <2>1. \A q \in p .. (p + 1) - 1 : q = p
    OBVIOUS
  <2>2. s[p] \in Numeric
    BY <1>a
  <2>3. NumericTo(s, p, p)
    BY <1>0 DEF NumericTo
  <2>4. QED
    BY <1>0, <2>1, <2>2, <2>3 DEF NumericTo
<1>2. NumericTo(s, p, whole) /\ whole >= p + 1
  <2>2. NumericTo(s, p, whole) /\ p <= whole
    BY <1>1, <1>a, NumericOn DEF whole
  <2>3. whole # p
    <3>1. "EOF" \notin Digits \cup {"_"}
      BY DEF Digits
    <3>2. whole <= Len(s) => s[whole] \notin Digits \cup {"_"}
      BY <1>0, <3>1, PastIs DEF whole
    <3>3. p <= Len(s)
      BY <1>0
    <3>4. s[p] \in Digits \cup {"_"}
      OBVIOUS
    <3>5. QED
      BY <3>2, <3>3, <3>4
  <2>4. whole \in Nat
    BY <2>2, <1>0 DEF NumericTo
  <2>5. whole >= p + 1
    BY <2>2, <2>3, <2>4, <1>0
  <2>6. QED
    BY <2>2, <2>5
<1>3. NumericTo(s, p, frac) /\ frac >= p + 1
  <2>1. CASE dot
    <3>1. NumericTo(s, p, whole + 1)
      BY <1>2, <1>b, <2>1, NumericNext DEF dot
    <3>2. NumericTo(s, p, frac) /\ whole + 1 <= frac
      BY <1>a, <2>1, <3>1, NumericOn DEF frac
    <3>3. QED
      BY <1>0, <1>2, <3>2 DEF NumericTo
  <2>2. CASE ~dot
    BY <1>2, <2>2 DEF frac
  <2>3. QED
    BY <2>1, <2>2
<1>4. ASSUME Ch(s, frac) = "e" PROVE NumericTo(s, p, exp) /\ exp >= p + 1
  <2>1. NumericTo(s, p, frac + 1)
    BY <1>b, <1>3, <1>4, NumericNext
  <2>2. NumericTo(s, p, sign) /\ sign >= p + 1
    <3>1. CASE Ch(s, frac + 1) \in {"+", "-"}
      <4>1. NumericTo(s, p, (frac + 1) + 1)
        BY <1>b, <2>1, <3>1, NumericNext
      <4>2. QED
        BY <1>0, <1>3, <3>1, <4>1 DEF NumericTo, sign
    <3>2. CASE Ch(s, frac + 1) \notin {"+", "-"}
      BY <1>0, <1>3, <2>1, <3>2 DEF NumericTo, sign
    <3>3. QED
      BY <3>1, <3>2
  <2>3. NumericTo(s, p, exp) /\ sign <= exp
    BY <1>a, <2>2, NumericOn DEF exp
  <2>4. QED
    BY <1>0, <2>2, <2>3 DEF NumericTo
<1>5. ASSUME base \in DOMAIN Based PROVE NumericTo(s, p, after) /\ after >= p + 1
  <2>1. base \in Numeric /\ Based[base] \cup {"_"} \in SUBSET Numeric
    <3>1. base \in {"x", "b", "o"}
      BY <1>5 DEF Based
    <3>2. base \in Numeric
      BY <3>1 DEF Numeric
    <3>3. Based["x"] = Digits \cup {"b", "e", "f"} /\ Based["b"] = {"0", "1"} /\ Based["o"] = {"0", "1"}
      BY DEF Based
    <3>4. {"0", "1"} \subseteq Digits
      BY DEF Digits
    <3>5. Based[base] \subseteq Numeric
      <4>1. CASE base = "x"
        BY <3>3, <4>1 DEF Numeric
      <4>2. CASE base = "b"
        BY <3>3, <3>4, <4>2 DEF Numeric
      <4>3. CASE base = "o"
        BY <3>3, <3>4, <4>3 DEF Numeric
      <4>4. QED
        BY <3>1, <4>1, <4>2, <4>3
    <3>6. QED
      BY <3>2, <3>5 DEF Numeric
  <2>2. NumericTo(s, p, p + 2)
    <3>1. NumericTo(s, p, (p + 1) + 1)
      BY <1>1, <2>1, NumericNext DEF base
    <3>2. (p + 1) + 1 = p + 2
      BY <1>0
    <3>3. QED
      BY <3>1, <3>2
  <2>3. NumericTo(s, p, after) /\ p + 2 <= after
    BY <2>1, <2>2, NumericOn DEF after
  <2>4. QED
    BY <1>0, <2>3 DEF NumericTo
<1>6. ASSUME NEW to, NumericTo(s, p, to), to >= p + 1
      PROVE  Reads(s, p, Took("1", to, 0))
  <2>1. LF \notin Numeric /\ "1" \in Kinds
    BY DEF LF, Numeric, Digits, Kinds
  <2>2. to \in p + 1 .. Len(s) + 1 /\ \A q \in p .. to - 1 : s[q] # LF
    BY <1>0, <1>6, <2>1 DEF NumericTo
  <2>3. QED
    BY <2>1, <2>2, ReadsNoLF
<1>7. Reads(s, p, Raised)
  BY DEF Reads, Raised
<1> DEFINE n == Number(s, p)
<1>8. \/ n = Raised
      \/ base \in DOMAIN Based /\ n = Took("1", after, 0)
      \/ n = Took("1", frac, 0)
      \/ Ch(s, frac) = "e" /\ n = Took("1", exp, 0)
  <2> DEFINE allUnder == ToSet(SubSeq(s, p + 2, after - 1)) \subseteq {"_"}
  <2>1. n = CASE Ch(s, p) = "0" /\ base \in DOMAIN Based ->
                   IF allUnder THEN Raised ELSE Took("1", after, 0)
              [] Ch(s, p) # "0" \/ base \notin DOMAIN Based ->
                   IF Ch(s, frac) # "e" THEN Took("1", frac, 0)
                   ELSE IF exp > sign THEN Took("1", exp, 0) ELSE Raised
    BY DEF Number, after, exp, sign, base, frac, dot, whole
  <2> HIDE DEF n, allUnder
  <2>2. CASE Ch(s, p) = "0" /\ base \in DOMAIN Based
    BY <2>1, <2>2
  <2>3. CASE ~(Ch(s, p) = "0" /\ base \in DOMAIN Based)
    BY <2>1, <2>3
  <2>4. QED
    BY <2>2, <2>3
<1> HIDE DEF n
<1>9. Reads(s, p, n)
  BY <1>3, <1>4, <1>5, <1>6, <1>7, <1>8
<1>10. QED
  BY <1>9 DEF n

\* A string, read from behind its first quote.  Without a backslash nothing is
\* escaped: the first quote closes it, and the line ends before it are counted.
LEMMA StringReads ==
    ASSUME NEW C, NEW s \in Seq(C), NEW i \in 1 .. Len(s), s[i] = Quote
    PROVE  Reads(s, i, String(s, i + 1))
<1> DEFINE p == i + 1
           D(f) == f = [j \in Nat |-> j > 0 /\ Ch(s, p + j - 1) = Escape /\ ~f[j - 1]]
           escaped == CHOOSE f : D(f)
           plain(c) == {q \in p .. Len(s) : s[q] = c /\ ~escaped[q - p]}
           end == Min(plain(Quote) \cup {Len(s) + 1})
           to  == Min({end, Len(s)}) + 1
           n   == Cardinality({q \in plain(LF) : q < end})
           h == [j \in Nat |-> [x \in BOOLEAN |-> Ch(s, p + j) = Escape /\ ~x]]
<1>0. Len(s) \in Nat /\ i \in Nat /\ p \in Nat /\ p \in 2 .. Len(s) + 1
  BY LenProperties
<1>1. String(s, p) = IF plain(Quote) = {} /\ escaped[Len(s) + 1 - p] THEN Raised
                     ELSE Took("1", to, n)
  BY DEF String
<1> HIDE DEF p, to, n
<1>2. \A j \in Nat : (j = 0 \/ Ch(s, p + j - 1) # Escape) => ~escaped[j]
  <2>1. h \in [Nat -> [BOOLEAN -> BOOLEAN]]
    OBVIOUS
  <2>2. \E f : D(f)
    <3> HIDE DEF h
    <3>1. PICK f : Goes(f, BOOLEAN, FALSE, h)
      BY <2>1, Recursion
    <3>2. f \in [Nat -> BOOLEAN] /\ f[0] = FALSE /\ \A j \in Nat : f[j + 1] = h[j][f[j]]
      BY <3>1 DEF Goes
    <3>3. ASSUME NEW j \in Nat, j > 0
          PROVE  f[j] = (Ch(s, p + j - 1) = Escape /\ ~f[j - 1])
      <4>1. j - 1 \in Nat /\ (j - 1) + 1 = j /\ p + (j - 1) = p + j - 1
        BY <1>0, <3>3
      <4>2. f[j] = h[j - 1][f[j - 1]] /\ f[j - 1] \in BOOLEAN
        BY <3>2, <4>1
      <4>3. h[j - 1][f[j - 1]] = (Ch(s, p + (j - 1)) = Escape /\ ~f[j - 1])
        BY <4>1, <4>2 DEF h
      <4>4. QED
        BY <4>1, <4>2, <4>3
    <3>4. ASSUME NEW j \in Nat
          PROVE  f[j] = (j > 0 /\ Ch(s, p + j - 1) = Escape /\ ~f[j - 1])
      <4>1. CASE j > 0
        BY <3>3, <4>1
      <4>2. CASE ~(j > 0)
        <5>1. j = 0
          BY <4>2
        <5>2. f[j] = FALSE
          BY <3>2, <5>1
        <5>3. QED
          BY <4>2, <5>2, Zenon
      <4>3. QED
        BY <4>1, <4>2
    <3>5. f = [j \in Nat |-> f[j]]
      BY <3>2
    <3>6. D(f)
      BY <3>4, <3>5, Zenon
    <3>7. QED
      BY <3>6
  <2>3. D(escaped)
    BY <2>2
  <2> HIDE DEF escaped
  <2>4. \A j \in Nat : escaped[j] = (j > 0 /\ Ch(s, p + j - 1) = Escape /\ ~escaped[j - 1])
    BY <2>3, Zenon
  <2>5. ASSUME NEW j \in Nat, j = 0 \/ Ch(s, p + j - 1) # Escape PROVE ~escaped[j]
    <3>1. ~(j > 0) \/ Ch(s, p + j - 1) # Escape
      BY <2>5
    <3>2. QED
      BY <2>4, <3>1, Zenon
  <2>6. QED
    BY <2>5
<1> HIDE DEF escaped, h
<1> DEFINE K == plain(Quote) \cup {Len(s) + 1}
           M == {end, Len(s)}
           N == {q \in plain(LF) : q < end}
<1>3. end \in p .. Len(s) + 1 /\ (end <= Len(s) => s[end] = Quote)
  <2>1. K \in SUBSET (1 .. Len(s) + 1) /\ K # {} /\ Len(s) + 1 \in Nat
    BY <1>0
  <2>2. Min(K) \in K
    <3> HIDE DEF K
    <3>1. QED
      BY <2>1, MinIsThere
  <2>3. QED
    BY <1>0, <2>2
<1> HIDE DEF end, K
<1>4. to \in i + 1 .. Len(s) + 1 /\ to - 1 <= end /\ (to - 1 = end \/ to - 1 = Len(s))
  <2>1. M \in SUBSET (1 .. Len(s) + 1) /\ M # {} /\ Len(s) + 1 \in Nat
    BY <1>0, <1>3
  <2>2. Min(M) \in M /\ \A y \in M : Min(M) <= y
    <3> HIDE DEF M
    <3>1. QED
      BY <2>1, MinIsThere
  <2>3. to = Min(M) + 1
    BY DEF to
  <2>4. i <= Len(s) /\ p = i + 1
    BY DEF p
  <2>5. QED
    BY <1>0, <1>3, <2>2, <2>3, <2>4
<1>5. n \in Nat /\ (n > 0 <=> N # {})
  <2>1. N \in SUBSET (1 .. Len(s))
    BY <1>0
  <2>2. n = Cardinality(N)
    BY DEF n
  <2> HIDE DEF N
  <2>3. QED
    BY <1>0, <2>1, <2>2, LFCount
<1>6. ASSUME \A q \in i .. to - 1 : s[q] # Escape
      PROVE  N # {} <=> LFIn(s, i, to - 1)
  <2>1. ASSUME NEW q \in N PROVE q \in i .. to - 1 /\ q <= Len(s) /\ s[q] = LF
    BY <1>0, <1>3, <1>4 DEF p
  <2>2. ASSUME NEW q \in i .. to - 1, q <= Len(s), s[q] = LF PROVE q \in N
    <3>1. q # i /\ q # end
      BY <1>3, <2>2 DEF LF, Quote
    <3>2. q \in p .. Len(s) /\ q < end
      BY <1>0, <1>3, <1>4, <2>2, <3>1 DEF p
    <3>3. q - p \in Nat /\ (q - p = 0 \/ q - 1 \in i .. to - 1)
      BY <1>0, <1>4, <3>2 DEF p
    <3>4. q - p = 0 \/ Ch(s, p + (q - p) - 1) # Escape
      <4>1. CASE q - p = 0
        BY <4>1
      <4>2. CASE q - 1 \in i .. to - 1
        <5>1. s[q - 1] # Escape
          BY <1>6, <4>2
        <5>2. p + (q - p) - 1 = q - 1 /\ q - 1 <= Len(s)
          BY <1>0, <3>2
        <5>3. QED
          BY <5>1, <5>2 DEF Ch
      <4>3. QED
        BY <3>3, <4>1, <4>2
    <3>5. ~escaped[q - p]
      BY <1>2, <3>3, <3>4
    <3>6. QED
      BY <2>2, <3>2, <3>5
  <2> HIDE DEF N
  <2>3. QED
    BY <2>1, <2>2 DEF LFIn
<1> HIDE DEF N, plain
<1>7. Reads(s, i, Took("1", to, n))
  <2>1. "1" \in Kinds
    BY DEF Kinds
  <2>2. QED
    BY <1>4, <1>5, <1>6, <2>1 DEF Reads, Took
<1>8. Reads(s, i, Raised)
  BY DEF Reads, Raised
<1>9. String(s, p) = Raised \/ String(s, p) = Took("1", to, n)
  BY <1>1
<1>10. QED
  BY <1>7, <1>8, <1>9 DEF p

\* A token of any kind.
LEMMA ScanReads ==
    ASSUME NEW C, NEW s \in Seq(C), NEW p \in 1 .. Len(s)
    PROVE  Reads(s, p, Scan(s, p))
<1>1. Quote \notin Digits /\ Quote \notin Letters /\ Digits \cap Letters = {}
  BY DEF Quote, Digits, Letters
<1>2. CASE s[p] = Quote
  <2>1. Scan(s, p) = String(s, p + 1)
    BY <1>1, <1>2 DEF Scan
  <2>2. QED
    BY <1>2, <2>1, StringReads
<1>3. CASE s[p] \in Digits
  <2>1. Scan(s, p) = Number(s, p)
    BY <1>1, <1>3 DEF Scan
  <2>2. QED
    BY <1>3, <2>1, NumberReads
<1>4. CASE s[p] \in Letters
  <2>1. Scan(s, p) = Word(s, p)
    BY <1>1, <1>4 DEF Scan
  <2>2. QED
    BY <1>4, <2>1, WordReads
<1>5. CASE s[p] # Quote /\ s[p] \notin Digits \cup Letters
  <2>1. Scan(s, p) = Symbols(s, p)
    BY <1>5 DEF Scan
  <2>2. QED
    BY <2>1, SymbolsRead
<1>6. QED
  BY <1>2, <1>3, <1>4, <1>5
-----------------------------------------------------------------------------
(***************************************************************************)
(* What the loop skips.                                                    *)
(***************************************************************************)
Skips(s, p, to, ends) == /\ to \in Nat /\ to > p /\ ends \in Nat
                         /\ ends > 0 <=> LFIn(s, p, to - 1)

\* Two characters that stand somewhere.
LEMMA StartsTwo ==
    ASSUME NEW C, NEW s \in Seq(C), NEW a \in 1 .. Len(s), NEW c, NEW d, Starts(s, a, <<c, d>>)
    PROVE  a + 1 <= Len(s) /\ s[a] = c /\ s[a + 1] = d
<1>1. Len(s) \in Nat
  BY LenProperties
<1>2. a + 2 <= Len(s) + 1 /\ SubSeq(s, a, a + 2 - 1) = <<c, d>>
  <2>1. Len(<<c, d>>) = 2
    OBVIOUS
  <2>2. QED
    BY <2>1 DEF Starts
<1>3. a + 2 - 1 = a + 1 /\ a + 1 <= Len(s)
  BY <1>1, <1>2
<1>4. SubSeq(s, a, a + 1) = <<c, d>>
  BY <1>2, <1>3
<1>5. SubSeq(s, a, a + 1)[1] = s[a + 1 - 1] /\ SubSeq(s, a, a + 1)[2] = s[a + 2 - 1]
  <2>1. \A k \in 1 .. (a + 1) - a + 1 : SubSeq(s, a, a + 1)[k] = s[a + k - 1]
    BY <1>1, <1>3, SubSeqProperties
  <2>2. 1 \in 1 .. (a + 1) - a + 1 /\ 2 \in 1 .. (a + 1) - a + 1
    OBVIOUS
  <2>3. QED
    BY <2>1, <2>2
<1>6. a + 1 - 1 = a /\ a + 2 - 1 = a + 1
  OBVIOUS
<1>7. <<c, d>>[1] = s[a] /\ <<c, d>>[2] = s[a + 1]
  BY <1>4, <1>5, <1>6, Zenon
<1>8. QED
  BY <1>3, <1>7

\* A line comment ends before the line end.
LEMMA LineCommentSkips ==
    ASSUME NEW C, NEW s \in Seq(C), NEW p \in 1 .. Len(s), Starts(s, p, <<"/", "/">>)
    PROVE  Skips(s, p, Min({q \in p .. Len(s) + 1 : Ch(s, q) \in {LF, "EOF"}}), 0)
<1> DEFINE K == {q \in p .. Len(s) + 1 : Ch(s, q) \in {LF, "EOF"}}
           to == Min(K)
<1>1. Len(s) \in Nat /\ Len(s) + 1 \in Nat
  BY LenProperties
<1>2. s[p] = "/"
  BY StartsTwo
<1>3. K \in SUBSET (1 .. Len(s) + 1) /\ Len(s) + 1 \in K
  BY <1>1 DEF Ch
<1>4. to \in K /\ \A y \in K : to <= y
  <2> HIDE DEF K
  <2>1. QED
    BY <1>1, <1>3, MinIsThere
<1>5. to # p
  BY <1>2, <1>4 DEF Ch, LF
<1>6. ASSUME NEW q \in p .. to - 1, q <= Len(s) PROVE s[q] # LF
  <2>1. q \in p .. Len(s) + 1 /\ ~(to <= q)
    BY <1>1, <1>4, <1>6
  <2>2. Ch(s, q) \notin {LF, "EOF"}
    BY <1>4, <2>1
  <2>3. QED
    BY <1>6, <2>2 DEF Ch
<1>7. to \in Nat /\ to > p
  BY <1>1, <1>4, <1>5
<1>8. Skips(s, p, to, 0)
  <2> HIDE DEF to
  <2>1. QED
    BY <1>6, <1>7 DEF Skips, LFIn
<1>9. QED
  BY <1>8

\* A block comment ends behind its mark, or with the text.
LEMMA BlockCommentSkips ==
    ASSUME NEW C, NEW s \in Seq(C), NEW p \in 1 .. Len(s), Starts(s, p, <<"/", "*">>)
    PROVE  LET q == CommentEnd(s, p + 2) IN Skips(s, p, q + 2, LineEnds(s, p + 2, q - 1))
<1> DEFINE K == {q \in p + 2 .. Len(s) : Starts(s, q, <<"*", "/">>)} \cup {Len(s) + 1}
           e == CommentEnd(s, p + 2)
           N == {i \in p + 2 .. e - 1 : s[i] = LF}
<1>1. Len(s) \in Nat /\ Len(s) + 1 \in Nat
  BY LenProperties
<1>3. p + 1 <= Len(s) /\ s[p] = "/" /\ s[p + 1] = "*"
  BY StartsTwo
<1>4. K \in SUBSET (1 .. Len(s) + 1) /\ K # {}
  BY <1>1
<1>5. e \in K
  <2>1. e = Min(K)
    BY DEF CommentEnd
  <2> HIDE DEF K, e
  <2>2. QED
    BY <1>1, <1>4, <2>1, MinIsThere
<1> HIDE DEF e
<1>6. e \in p + 2 .. Len(s) + 1 /\ (e <= Len(s) => s[e] = "*" /\ s[e + 1] = "/")
  <2>1. CASE e = Len(s) + 1
    BY <1>1, <1>3, <2>1
  <2>2. CASE e # Len(s) + 1
    <3>1. e \in p + 2 .. Len(s) /\ Starts(s, e, <<"*", "/">>)
      BY <1>5, <2>2
    <3>2. e \in 1 .. Len(s)
      BY <3>1
    <3>3. QED
      BY <3>1, <3>2, StartsTwo
  <2>3. QED
    BY <2>1, <2>2
<1>7. LineEnds(s, p + 2, e - 1) \in Nat /\ (LineEnds(s, p + 2, e - 1) > 0 <=> N # {})
  <2>1. N \in SUBSET (1 .. Len(s))
    BY <1>1, <1>6
  <2>2. LineEnds(s, p + 2, e - 1) = Cardinality(N)
    BY DEF LineEnds
  <2> HIDE DEF N
  <2>3. QED
    BY <1>1, <2>1, <2>2, LFCount
<1>8. N # {} <=> LFIn(s, p, e + 1)
  <2>1. ASSUME NEW q \in N PROVE q \in p .. e + 1 /\ q <= Len(s) /\ s[q] = LF
    BY <1>1, <1>6
  <2>2. ASSUME NEW q \in p .. e + 1, q <= Len(s), s[q] = LF PROVE q \in N
    <3>1. q # p /\ q # p + 1
      BY <1>3, <2>2 DEF LF
    <3>2. q # e
      BY <1>6, <2>2 DEF LF
    <3>3. q # e + 1
      <4>1. q = e + 1 => e <= Len(s)
        BY <1>6, <2>2
      <4>2. QED
        BY <1>6, <2>2, <4>1 DEF LF
    <3>4. q \in p + 2 .. e - 1
      BY <1>6, <3>1, <3>2, <3>3
    <3>5. QED
      BY <2>2, <3>4
  <2> HIDE DEF N
  <2>3. QED
    BY <2>1, <2>2 DEF LFIn
<1>9. e + 2 \in Nat /\ e + 2 > p /\ (e + 2) - 1 = e + 1
  BY <1>6
<1>10. Skips(s, p, e + 2, LineEnds(s, p + 2, e - 1))
  BY <1>7, <1>8, <1>9 DEF Skips
<1>11. QED
  BY <1>10 DEF e
-----------------------------------------------------------------------------
(***************************************************************************)
(* The loop's state: what it has taken lies in order in the text before    *)
(* its position, and where the lines it counted change, a line end is.     *)
(***************************************************************************)
Toks   == [k : Kinds, from : Nat, to : Nat, line : Nat]
States == [ok : BOOLEAN, p : Nat, line : Nat, toks : Seq(Toks)]

\* From line m up to line n, exactly if a line end stands in the stretch from a to b.
Between(m, n, s, a, b) == m <= n /\ (m # n <=> LFIn(s, a, b))

Lies(s, t)   == t.from >= 1 /\ t.from < t.to /\ t.to <= Len(s) + 1
Plain(s, t)  == \A q \in t.from .. t.to - 1 : s[q] # Escape
Follows(s, t, u) == t.to <= u.from /\ (Plain(s, u) => Between(t.line, u.line, s, t.to, u.to - 1))

Good(s, r) ==
    LET n == Len(r.toks) IN
    /\ r.p >= 1
    /\ \A i \in 1 .. n : Lies(s, r.toks[i])
    /\ \A i \in 1 .. n - 1 : Follows(s, r.toks[i], r.toks[i + 1])
    /\ n > 0 => r.toks[n].to <= r.p /\ Between(r.toks[n].line, r.line, s, r.toks[n].to, r.p - 1)
\* What is skipped and counted may lie before or behind such a stretch.
LEMMA BetweenMore ==
    ASSUME NEW C, NEW s \in Seq(C), NEW m \in Nat, NEW n \in Nat, NEW a \in Nat, NEW p \in Nat,
           NEW to, NEW ends, a <= p, Between(m, n, s, a, p - 1), Skips(s, p, to, ends)
    PROVE  Between(m, n + ends, s, a, to - 1)
<1>1. to \in Nat /\ to > p /\ ends \in Nat /\ (ends > 0 <=> LFIn(s, p, to - 1))
  BY DEF Skips
<1>2. m <= n /\ (m # n <=> LFIn(s, a, p - 1))
  BY DEF Between
<1>3. LFIn(s, a, to - 1) <=> LFIn(s, a, p - 1) \/ LFIn(s, p, to - 1)
  <2>1. to - 1 \in Nat /\ p <= (to - 1) + 1
    BY <1>1
  <2>2. QED
    BY <2>1, LFSplit
<1>4. m <= n + ends /\ (m # n + ends <=> m # n \/ ends > 0)
  BY <1>1, <1>2
<1>5. QED
  BY <1>1, <1>2, <1>3, <1>4 DEF Between

LEMMA SkipKeeps ==
    ASSUME NEW C, NEW s \in Seq(C), NEW r \in States, Good(s, r), NEW to, NEW ends,
           Skips(s, r.p, to, ends)
    PROVE  LET x == Skip(r, to, ends) IN
           x \in States /\ Good(s, x) /\ x.p = to /\ x.line = r.line + ends /\ x.toks = r.toks /\ x.ok = r.ok
<1> DEFINE x == Skip(r, to, ends)
           n == Len(r.toks)
<1>1. r.ok \in BOOLEAN /\ r.p \in Nat /\ r.line \in Nat /\ r.toks \in Seq(Toks)
  BY DEF States
<1>2. to \in Nat /\ to > r.p /\ ends \in Nat
  BY DEF Skips
<1>3. x \in States /\ x.p = to /\ x.line = r.line + ends /\ x.toks = r.toks /\ x.ok = r.ok
  <2>1. r.line + ends \in Nat
    BY <1>1, <1>2
  <2>2. x = [r EXCEPT !.p = to, !.line = r.line + ends]
    BY DEF Skip
  <2>3. QED
    BY <1>1, <1>2, <2>1, <2>2 DEF States
<1>4. n \in Nat /\ \A i \in 1 .. n : r.toks[i] \in Toks
  BY <1>1, LenProperties, ElementOfSeq
<1>5. /\ r.p >= 1
      /\ \A i \in 1 .. n : Lies(s, r.toks[i])
      /\ \A i \in 1 .. n - 1 : Follows(s, r.toks[i], r.toks[i + 1])
      /\ n > 0 => r.toks[n].to <= r.p /\ Between(r.toks[n].line, r.line, s, r.toks[n].to, r.p - 1)
  BY DEF Good
<1>6. ASSUME n > 0
      PROVE  r.toks[n].to <= to /\ Between(r.toks[n].line, r.line + ends, s, r.toks[n].to, to - 1)
  <2>1. r.toks[n].line \in Nat /\ r.toks[n].to \in Nat
    <3>1. r.toks[n] \in Toks
      BY <1>4, <1>6
    <3>2. QED
      BY <3>1 DEF Toks
  <2>2. r.toks[n].to <= r.p /\ Between(r.toks[n].line, r.line, s, r.toks[n].to, r.p - 1)
    BY <1>5, <1>6
  <2>3. Between(r.toks[n].line, r.line + ends, s, r.toks[n].to, to - 1)
    BY <1>1, <2>1, <2>2, BetweenMore
  <2>4. QED
    BY <1>1, <1>2, <2>1, <2>2, <2>3
<1> HIDE DEF x
<1>7. Good(s, x)
  <2>1. x.p >= 1
    BY <1>1, <1>2, <1>3, <1>5
  <2>2. QED
    BY <1>3, <1>5, <1>6, <2>1 DEF Good
<1>8. QED
  BY <1>3, <1>7 DEF x

LEMMA TakeKeeps ==
    ASSUME NEW C, NEW s \in Seq(C), NEW r \in States, Good(s, r), r.p <= Len(s), NEW t,
           Reads(s, r.p, t)
    PROVE  LET x == Take(r, t) IN x \in States /\ Good(s, x) /\ (x.ok => x.p > r.p)
<1> DEFINE x == Take(r, t)
           n == Len(r.toks)
           u == [k |-> t.k, from |-> r.p, to |-> t.to, line |-> r.line + t.ends]
<1>1. r.ok \in BOOLEAN /\ r.p \in Nat /\ r.line \in Nat /\ r.toks \in Seq(Toks)
  BY DEF States
<1>2. n \in Nat /\ \A i \in 1 .. n : r.toks[i] \in Toks
  BY <1>1, LenProperties, ElementOfSeq
<1>3. /\ r.p >= 1
      /\ \A i \in 1 .. n : Lies(s, r.toks[i])
      /\ \A i \in 1 .. n - 1 : Follows(s, r.toks[i], r.toks[i + 1])
      /\ n > 0 => r.toks[n].to <= r.p /\ Between(r.toks[n].line, r.line, s, r.toks[n].to, r.p - 1)
  BY DEF Good
<1>4. CASE ~t.ok
  <2>1. x = [r EXCEPT !.ok = FALSE]
    BY <1>4 DEF Take
  <2>2. x \in States /\ x.ok = FALSE /\ x.p = r.p /\ x.line = r.line /\ x.toks = r.toks
    BY <1>1, <2>1 DEF States
  <2> HIDE DEF x
  <2>3. Good(s, x)
    BY <1>3, <2>2 DEF Good
  <2>4. QED
    BY <2>2, <2>3 DEF x
<1>5. CASE t.ok
  <2>1. /\ t.k \in Kinds /\ t.to \in r.p + 1 .. Len(s) + 1 /\ t.ends \in Nat
        /\ (\A q \in r.p .. t.to - 1 : s[q] # Escape) => (t.ends > 0 <=> LFIn(s, r.p, t.to - 1))
    BY <1>5 DEF Reads
  <2>2. Len(s) \in Nat /\ t.to \in Nat /\ t.to > r.p /\ t.to <= Len(s) + 1
    BY <1>1, <2>1, LenProperties
  <2>3. u \in Toks /\ u.from = r.p /\ u.to = t.to /\ u.line = r.line + t.ends
    BY <1>1, <2>1, <2>2 DEF Toks
  <2>4. Lies(s, u)
    BY <1>3, <2>2, <2>3 DEF Lies
  <2> HIDE DEF u
  <2>5. Append(r.toks, u) \in Seq(Toks) /\ Len(Append(r.toks, u)) = n + 1
    BY <1>1, <2>3, AppendProperties
  <2>6. (\A i \in 1 .. n : Append(r.toks, u)[i] = r.toks[i]) /\ Append(r.toks, u)[n + 1] = u
    BY <1>1, <2>3, AppendProperties
  <2>7. /\ x \in States /\ x.ok = r.ok /\ x.p = t.to /\ x.line = r.line + t.ends
        /\ x.toks = Append(r.toks, u)
    <3>1. x = [[r EXCEPT !.p = t.to, !.line = @ + t.ends] EXCEPT !.toks = Append(@, u)]
      BY <1>5 DEF Take, Skip, u
    <3>2. r.line + t.ends \in Nat
      BY <1>1, <2>1
    <3>3. QED
      BY <1>1, <2>2, <2>5, <3>1, <3>2 DEF States
  <2> HIDE DEF x
  <2>8. ASSUME n > 0 PROVE Follows(s, r.toks[n], u)
    <3>1. r.toks[n].line \in Nat /\ r.toks[n].to \in Nat
      <4>1. r.toks[n] \in Toks
        BY <1>2, <2>8
      <4>2. QED
        BY <4>1 DEF Toks
    <3>2. r.toks[n].to <= r.p /\ Between(r.toks[n].line, r.line, s, r.toks[n].to, r.p - 1)
      BY <1>3, <2>8
    <3>3. ASSUME Plain(s, u)
          PROVE  Between(r.toks[n].line, u.line, s, r.toks[n].to, u.to - 1)
      <4>1. \A q \in r.p .. t.to - 1 : s[q] # Escape
        BY <2>3, <3>3 DEF Plain
      <4>2. Skips(s, r.p, t.to, t.ends)
        BY <2>1, <2>2, <4>1 DEF Skips
      <4>3. Between(r.toks[n].line, r.line + t.ends, s, r.toks[n].to, t.to - 1)
        BY <1>1, <3>1, <3>2, <4>2, BetweenMore
      <4>4. QED
        BY <2>3, <4>3
    <3>4. QED
      BY <2>3, <3>2, <3>3 DEF Follows
  <2>9. \A i \in 1 .. n + 1 : Lies(s, x.toks[i])
    <3>1. \A i \in 1 .. n + 1 : i \in 1 .. n \/ i = n + 1
      BY <1>2
    <3>2. QED
      BY <1>3, <2>4, <2>6, <2>7, <3>1
  <2>10. \A i \in 1 .. n : Follows(s, x.toks[i], x.toks[i + 1])
    <3>1. ASSUME NEW i \in 1 .. n - 1 PROVE Follows(s, x.toks[i], x.toks[i + 1])
      <4>1. i \in 1 .. n /\ i + 1 \in 1 .. n
        BY <1>2
      <4>2. QED
        BY <1>3, <2>6, <2>7, <4>1
    <3>2. ASSUME n > 0 PROVE Follows(s, x.toks[n], x.toks[n + 1])
      <4>1. n \in 1 .. n
        BY <1>2, <3>2
      <4>2. QED
        BY <2>6, <2>7, <2>8, <3>2, <4>1
    <3>3. \A i \in 1 .. n : i \in 1 .. n - 1 \/ (i = n /\ n > 0)
      BY <1>2
    <3>4. QED
      BY <3>1, <3>2, <3>3
  <2>11. Between(u.line, x.line, s, u.to, x.p - 1) /\ u.to <= x.p
    <3>1. ~LFIn(s, t.to, t.to - 1)
      BY <2>2 DEF LFIn
    <3>2. r.line + t.ends \in Nat
      BY <1>1, <2>1
    <3>3. QED
      BY <2>2, <2>3, <2>7, <3>1, <3>2 DEF Between
  <2>12. Len(x.toks) = n + 1 /\ x.toks[n + 1] = u /\ (n + 1) - 1 = n
    BY <1>2, <2>5, <2>6, <2>7
  <2>13. x.p >= 1 /\ x.p > r.p
    BY <1>1, <2>2, <2>7
  <2>14. Good(s, x)
    BY <2>9, <2>10, <2>11, <2>12, <2>13 DEF Good
  <2>15. QED
    BY <2>7, <2>13, <2>14 DEF x
<1>6. QED
  BY <1>4, <1>5
\* One turn of the loop keeps it so, and goes on unless it raises.
LEMMA TurnKeeps ==
    ASSUME NEW C, NEW s \in Seq(C), NEW r \in States, Good(s, r)
    PROVE  LET x == Turn(s, r) IN
           x \in States /\ Good(s, x) /\ (x.ok => x.p > r.p \/ r.p > Len(s)) /\ x.p >= r.p /\ (x.ok => r.ok)
<1> DEFINE x == Turn(s, r)
           p == r.p
           e == CommentEnd(s, p + 2)
           Kept(y) == y \in States /\ Good(s, y) /\ y.ok = r.ok /\ y.p > p
<1>1. Len(s) \in Nat /\ p \in Nat /\ p >= 1 /\ r.ok \in BOOLEAN
  BY LenProperties DEF States, Good
<1>2. CASE ~r.ok \/ p > Len(s)
  <2>1. x = r
    BY <1>2 DEF Turn
  <2>2. QED
    BY <1>1, <1>2, <2>1
<1>3. CASE r.ok /\ p <= Len(s)
  <2>1. p \in 1 .. Len(s)
    BY <1>1, <1>3
  <2>2. ASSUME NEW to, NEW ends, Skips(s, p, to, ends) PROVE Kept(Skip(r, to, ends))
    BY <2>2, SkipKeeps DEF Skips
  <2>3. ASSUME s[p] # LF PROVE Skips(s, p, p + 1, 0)
    BY <1>1, <2>1, <2>3 DEF Skips, LFIn
  <2>4. ASSUME s[p] = LF PROVE Skips(s, p, p + 1, 1)
    BY <1>1, <2>1, <2>4 DEF Skips, LFIn
  <2>5. \/ x = Skip(r, p + 1, 0) /\ s[p] # LF
        \/ x = Skip(r, p + 1, 1) /\ s[p] = LF
        \/ /\ x = Skip(r, Min({q \in p .. Len(s) + 1 : Ch(s, q) \in {LF, "EOF"}}), 0)
           /\ Starts(s, p, <<"/", "/">>)
        \/ x = Skip(r, e + 2, LineEnds(s, p + 2, e - 1)) /\ Starts(s, p, <<"/", "*">>)
        \/ x = Take(r, Scan(s, p))
    <3> DEFINE lc == Min({q \in p .. Len(s) + 1 : Ch(s, q) \in {LF, "EOF"}})
               bl == LineEnds(s, p + 2, e - 1)
    <3>1. x = CASE s[p] \in Blank -> Skip(r, p + 1, 0)
                [] s[p] = LF      -> Skip(r, p + 1, 1)
                [] Starts(s, p, <<"/", "/">>) -> Skip(r, lc, 0)
                [] Starts(s, p, <<"/", "*">>) -> Skip(r, e + 2, bl)
                [] OTHER -> Take(r, Scan(s, p))
      BY <1>1, <1>3 DEF Turn
    <3>2. LF \notin Blank
      BY DEF LF, Blank
    <3> HIDE DEF x, lc, e, bl, p
    <3>3. QED
      BY <3>1, <3>2 DEF lc, bl
  <2>6. CASE x = Take(r, Scan(s, p))
    <3>1. Reads(s, p, Scan(s, p))
      BY <2>1, ScanReads
    <3>2. Good(s, x) /\ x \in States /\ (x.ok => x.p > p)
      BY <2>1, <2>6, <3>1, TakeKeeps
    <3>3. x.p >= p
      <4>1. CASE x.ok
        BY <1>1, <3>2, <4>1 DEF States
      <4>2. CASE ~x.ok
        <5>1. Scan(s, p).ok => x.ok = r.ok
          BY <2>6 DEF Take, Skip, States
        <5>2. ~Scan(s, p).ok
          BY <1>3, <4>2, <5>1
        <5>3. x = [r EXCEPT !.ok = FALSE]
          BY <2>6, <5>2 DEF Take
        <5>4. x.p = p
          BY <5>3 DEF States
        <5>5. QED
          BY <1>1, <5>4
      <4>3. QED
        BY <4>1, <4>2
    <3>4. QED
      BY <1>3, <3>2, <3>3
  <2>7. CASE Kept(x)
    <3>1. x.p \in Nat
      BY <2>7 DEF States
    <3>2. QED
      BY <1>1, <2>7, <3>1
  <2>8. Kept(x) \/ x = Take(r, Scan(s, p))
    <3> HIDE DEF x, e, Kept
    <3>1. ASSUME Starts(s, p, <<"/", "/">>)
          PROVE  Skips(s, p, Min({q \in p .. Len(s) + 1 : Ch(s, q) \in {LF, "EOF"}}), 0)
      BY <2>1, <3>1, LineCommentSkips
    <3>2. ASSUME Starts(s, p, <<"/", "*">>) PROVE Skips(s, p, e + 2, LineEnds(s, p + 2, e - 1))
      BY <2>1, <3>2, BlockCommentSkips DEF e
    <3>3. QED
      BY <2>2, <2>3, <2>4, <2>5, <3>1, <3>2
  <2>9. QED
    BY <2>6, <2>7, <2>8
<1>4. QED
  BY <1>1, <1>2, <1>3

\* The whole loop: it ends with what it has taken in order, and if it does not raise
\* then it has come to the end of the text.
LEMMA LexIs ==
    ASSUME NEW C, NEW s \in Seq(C)
    PROVE  Lex(s) \in States /\ Good(s, Lex(s)) /\ (Lex(s).ok => Lex(s).p > Len(s))
<1> DEFINE a == [ok |-> TRUE, p |-> 1, line |-> 1, toks |-> << >>]
           S == {r \in States : Good(s, r)}
           D(f) == f = [n \in Nat |-> IF n = 0 THEN a ELSE Turn(s, f[n - 1])]
           run == CHOOSE f : D(f)
           h == [n \in Nat |-> [r \in S |-> Turn(s, r)]]
<1>1. Len(s) \in Nat
  BY LenProperties
<1>2. a \in S
  <2>1. a \in States
    BY DEF States
  <2>2. Len(a.toks) = 0 /\ a.p = 1
    OBVIOUS
  <2> HIDE DEF a
  <2>3. Good(s, a)
    BY <2>2 DEF Good
  <2>4. QED
    BY <2>1, <2>3
<1>3. \A r \in S : Turn(s, r) \in S
  BY TurnKeeps
<1> HIDE DEF a, S
<1>4. h \in [Nat -> [S -> S]]
  BY <1>3
<1>5. \E f : D(f)
  <2> HIDE DEF h, run
  <2>1. PICK f : Goes(f, S, a, h)
    BY <1>2, <1>4, Recursion
  <2>2. f \in [Nat -> S] /\ f[0] = a /\ \A n \in Nat : f[n + 1] = h[n][f[n]]
    BY <2>1 DEF Goes
  <2>3. ASSUME NEW n \in Nat, n # 0 PROVE f[n] = Turn(s, f[n - 1])
    <3>1. n - 1 \in Nat /\ (n - 1) + 1 = n
      BY <2>3
    <3>2. f[n] = h[n - 1][f[n - 1]] /\ f[n - 1] \in S
      BY <2>2, <3>1
    <3>3. QED
      BY <3>1, <3>2 DEF h
  <2>4. D(f)
    BY <2>2, <2>3
  <2>5. QED
    BY <2>4
<1>6. D(run)
  BY <1>5
<1>7. Lex(s) = run[Len(s)]
  BY DEF Lex, a
<1> HIDE DEF run
<1>8. run[0] = a /\ \A n \in Nat : run[n + 1] = Turn(s, run[n])
  <2>1. \A n \in Nat : run[n] = IF n = 0 THEN a ELSE Turn(s, run[n - 1])
    BY <1>6, Zenon
  <2>2. QED
    BY <2>1
<1> DEFINE K == {n \in Nat : run[n] \in S /\ (run[n].ok => run[n].p > n \/ run[n].p > Len(s))}
<1>9. 0 \in K
  <2>1. a.p > 0
    BY DEF a
  <2>2. QED
    BY <1>2, <1>8, <2>1
<1>10. ASSUME NEW n \in Nat, n \in K PROVE n + 1 \in K
  <2> DEFINE r == run[n]
             x == run[n + 1]
  <2>1. r \in States /\ Good(s, r) /\ x = Turn(s, r)
    BY <1>8, <1>10 DEF S
  <2>2. r.ok => r.p > n \/ r.p > Len(s)
    BY <1>10
  <2> HIDE DEF r, x
  <2>3. x \in States /\ Good(s, x) /\ (x.ok => x.p > r.p \/ r.p > Len(s)) /\ x.p >= r.p /\ (x.ok => r.ok)
    BY <2>1, TurnKeeps
  <2>4. x.p \in Nat /\ r.p \in Nat
    BY <2>1, <2>3 DEF States
  <2>5. x.ok => x.p > n + 1 \/ x.p > Len(s)
    BY <1>1, <2>2, <2>3, <2>4
  <2>6. QED
    BY <2>3, <2>5 DEF S, x
<1> HIDE DEF K
<1>11. Len(s) \in K
  BY <1>1, <1>9, <1>10, AllNumbers
<1>12. QED
  BY <1>7, <1>11 DEF K, S
\* The loop of tokenize ends: with an exception, or at the end of the text after no more
\* turns than characters, and then its tokens stand in the text one behind another
\* (lexer.py:93-188).
THEOREM LexEnds ==
    ASSUME NEW C, NEW s \in Seq(C), Lex(s).ok
    PROVE  /\ Lex(s).p > Len(s)
           /\ \A i \in 1 .. Len(Lex(s).toks) : Lies(s, Lex(s).toks[i])
           /\ \A i \in 1 .. Len(Lex(s).toks) - 1 : Lex(s).toks[i].to <= Lex(s).toks[i + 1].from
BY LexIs DEF Good, Follows

-----------------------------------------------------------------------------
(***************************************************************************)
(* The lines.                                                              *)
(***************************************************************************)

\* A text consists of its characters.
TextIs == src \in Seq(charset.chars)

LEMMA TextIsAlways == LSpec => []TextIs
<1>1. LInit => TextIs
  BY DEF LInit, TextIs
<1>2. TextIs /\ [LNext]_lvars => TextIs'
  <2> SUFFICES ASSUME TextIs, [LNext]_lvars
               PROVE  TextIs'
    OBVIOUS
  <2>1. ASSUME NEW c \in charset.chars, WriteChar(c) PROVE TextIs'
    <3>1. src' = Append(src, c) /\ charset' = charset
      BY <2>1 DEF WriteChar
    <3>2. Append(src, c) \in Seq(charset.chars)
      BY AppendProperties DEF TextIs
    <3>3. QED
      BY <3>1, <3>2 DEF TextIs
  <2>2. CASE UNCHANGED lvars
    BY <2>2 DEF TextIs, lvars
  <2>3. QED
    BY <2>1, <2>2 DEF LNext
<1>3. QED
  BY <1>1, <1>2, PTL DEF LSpec

\* Whether a token is on another line than the one before it is told truly of every
\* text, whatever blanks, comments and strings stand between and in them
\* (lexer.py:96-131).
THEOREM LinesTrueCorrect == LSpec => []LinesTrue
<1>1. TextIs => LinesTrue
  <2> SUFFICES ASSUME TextIs
               PROVE  LinesTrue
    OBVIOUS
  <2> DEFINE t    == Lex(src).toks
             text == TextOf(src)
  <2>1. Lex(src) \in States /\ Good(src, Lex(src)) /\ Len(src) \in Nat
    BY LexIs, LenProperties DEF TextIs
  <2>2. /\ t \in Seq(Toks) /\ Len(t) \in Nat /\ DOMAIN t = 1 .. Len(t)
        /\ \A i \in 1 .. Len(t) : Lies(src, t[i])
        /\ \A i \in 1 .. Len(t) - 1 : Follows(src, t[i], t[i + 1])
    BY <2>1, LenProperties DEF States, Good
  <2>3. text = [i \in DOMAIN t |-> [k |-> t[i].k, nl |-> i > 1 /\ t[i].line # t[i - 1].line]]
    BY DEF TextOf
  <2> HIDE DEF t, text
  <2>4. ASSUME NEW i \in DOMAIN t \ {1},
               Escape \notin ToSet(SubSeq(src, t[i].from, t[i].to - 1))
        PROVE  text[i].nl <=> \E p \in t[i - 1].to .. t[i].to - 1 : src[p] = LF
    <3>1. i \in 1 .. Len(t) /\ i - 1 \in 1 .. Len(t) - 1 /\ i - 1 \in 1 .. Len(t) /\ (i - 1) + 1 = i /\ i > 1
      BY <2>2
    <3>2. Lies(src, t[i]) /\ Follows(src, t[i - 1], t[i])
      BY <2>2, <3>1
    <3>3. t[i].from \in Nat /\ t[i].to \in Nat
      <4>1. t[i] \in Toks
        BY <2>2, <3>1, ElementOfSeq
      <4>2. QED
        BY <4>1 DEF Toks
    <3>4. Plain(src, t[i])
      <4>1. ASSUME NEW q \in t[i].from .. t[i].to - 1 PROVE src[q] # Escape
        <5> DEFINE a == t[i].from
                   b == t[i].to - 1
                   w == SubSeq(src, a, b)
        <5>1. a \in 1 .. Len(src) + 1 /\ b \in 0 .. Len(src) /\ a <= b
          BY <2>1, <3>2, <3>3 DEF Lies
        <5>2. Len(w) = b - a + 1 /\ \A j \in 1 .. b - a + 1 : w[j] = src[a + j - 1]
          BY <2>1, <5>1, SubSeqProperties DEF TextIs
        <5>3. w \in Seq(charset.chars) /\ q \in a .. b
          <6> HIDE DEF a, b
          <6>1. \A j \in a .. b : j \in 1 .. Len(src)
            BY <2>1, <5>1
          <6>2. \A j \in a .. b : src[j] \in charset.chars
            BY <6>1, ElementOfSeq DEF TextIs
          <6>3. a \in Int /\ b \in Int
            BY <2>1, <5>1
          <6>4. w \in Seq(charset.chars)
            BY <6>2, <6>3, SubSeqProperties
          <6>5. QED
            BY <4>1, <6>4 DEF a, b
        <5>4. DOMAIN w = 1 .. b - a + 1
          BY <5>2, <5>3, LenProperties
        <5> HIDE DEF a, b, w
        <5>5. q - a + 1 \in 1 .. b - a + 1 /\ a + (q - a + 1) - 1 = q
          BY <5>1, <5>3
        <5>6. w[q - a + 1] = src[q]
          BY <5>2, <5>5
        <5>7. w[q - a + 1] \in ToSet(w)
          BY <5>4, <5>5 DEF ToSet
        <5>8. QED
          BY <2>4, <5>6, <5>7 DEF w, a, b
      <4>2. QED
        BY <4>1 DEF Plain
    <3>5. t[i - 1].line # t[i].line <=> LFIn(src, t[i - 1].to, t[i].to - 1)
      BY <3>1, <3>2, <3>4 DEF Follows, Between
    <3>6. LFIn(src, t[i - 1].to, t[i].to - 1) <=> \E p \in t[i - 1].to .. t[i].to - 1 : src[p] = LF
      <4>1. \A p \in t[i - 1].to .. t[i].to - 1 : p <= Len(src)
        BY <2>1, <3>2, <3>3 DEF Lies
      <4>2. QED
        BY <4>1 DEF LFIn
    <3>7. text[i].nl <=> t[i].line # t[i - 1].line
      <4>1. text[i] = [k |-> t[i].k, nl |-> i > 1 /\ t[i].line # t[i - 1].line]
        BY <2>3
      <4>2. text[i].nl = (i > 1 /\ t[i].line # t[i - 1].line)
        BY <4>1
      <4>3. QED
        BY <3>1, <4>2
    <3>8. QED
      BY <3>5, <3>6, <3>7
  <2>5. QED
    BY <2>4 DEF LinesTrue, t, text
<1>2. QED
  BY <1>1, TextIsAlways, PTL
=============================================================================
