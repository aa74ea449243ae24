--------------------------------- MODULE Lexer --------------------------------
(***************************************************************************)
(* tokenize of vex/lexer.py: a text, `src', is a row of characters, and    *)
(* the row of tokens that the parser reads, TextOf(src), follows from it.  *)
(* The characters that mean something are the ones of this module; a       *)
(* position is that of the next character.                                 *)
(***************************************************************************)
EXTENDS Integers, Sequences, FiniteSets, SequencesExt, FiniteSetsExt

CONSTANTS CharSets     \* records [chars, len]: characters to write with, and
                       \* how many (bound)

VARIABLES charset, src

lvars == <<charset, src>>

LF      == "\n"
Quote   == "\""
Escape  == "\\"
Blank   == {" ", "\t", "\r"}
Digits  == {"0", "1", "8"}
Letters == {"b", "e", "f", "i", "n", "o", "x", "_"}

\* The digits of a number that begins with 0x, 0b and 0o.
Based == [x |-> Digits \cup {"b", "e", "f"}, b |-> {"0", "1"}, o |-> {"0", "1"}]

\* The keywords that can be written with these letters.
KEYWORDS == {<<"f", "n">>, <<"i", "f">>, <<"i", "n">>}
TYPES    == {<<"i", "8">>}

SYMBOLS == {<<".", ".", ".">>, <<".", ".">>, <<"=", ">">>, <<"-", ">">>, <<"<", "<">>, <<">", ">">>,
            <<"=", "=">>, <<"!", "=">>, <<"<", "=">>, <<">", "=">>, <<"&", "&">>, <<"|", "|">>,
            <<"+", "=">>, <<"-", "=">>, <<"*", "=">>, <<"/", "=">>}
             \cup {<<c>> : c \in {"+", "-", "*", "/", "%", "&", "|", "^", "~", "<", ">", "!", "=",
                                  ".", ":", ",", ";", "@", "(", ")", "{", "}", "[", "]"}}

-----------------------------------------------------------------------------
Ch(s, p)      == IF p <= Len(s) THEN s[p] ELSE "EOF"
Past(s, p, S) == Min({q \in p .. Len(s) + 1 : Ch(s, q) \notin S})
Starts(s, p, w)  == p + Len(w) <= Len(s) + 1 /\ SubSeq(s, p, p + Len(w) - 1) = w

\* Mutant: the lines of a block comment are not counted.
NoLineEnds(s, p, q) == 0

LineEnds(s, p, q) == Cardinality({i \in p .. q : s[i] = LF})

\* What ends before position `to', on which line, or an exception.
Took(k, to, ends) == [ok |-> TRUE, k |-> k, to |-> to, ends |-> ends]
Raised            == [ok |-> FALSE]

\* The end of the text closes a comment.
CommentEnd(s, p) == Min({q \in p .. Len(s) : Starts(s, q, <<"*", "/">>)} \cup {Len(s) + 1})

\* A string, from within: the first quote that is not escaped closes it, and so does
\* the end of the text, but not behind a backslash.  A line end behind a
\* backslash is not counted.
String(s, p) ==
    LET escaped[j \in Nat] == j > 0 /\ Ch(s, p + j - 1) = Escape /\ ~escaped[j - 1]
        plain(c) == {q \in p .. Len(s) : s[q] = c /\ ~escaped[q - p]}
        end      == Min(plain(Quote) \cup {Len(s) + 1})
    IN  IF plain(Quote) = {} /\ escaped[Len(s) + 1 - p] THEN Raised
        ELSE Took("1", Min({end, Len(s)}) + 1, Cardinality({q \in plain(LF) : q < end}))

\* A dot belongs to the number unless another dot follows.  int() and float() want a
\* digit behind the base and the exponent.
Number(s, p) ==
    LET whole == Past(s, p, Digits \cup {"_"})
        dot   == Ch(s, whole) = "." /\ Ch(s, whole + 1) # "."
        frac  == IF dot THEN Past(s, whole + 1, Digits \cup {"_"}) ELSE whole
        sign  == IF Ch(s, frac + 1) \in {"+", "-"} THEN frac + 2 ELSE frac + 1
        exp   == Past(s, sign, Digits)
        base  == Ch(s, p + 1)
        after == Past(s, p + 2, Based[base] \cup {"_"})
    IN  CASE Ch(s, p) = "0" /\ base \in DOMAIN Based ->
               IF ToSet(SubSeq(s, p + 2, after - 1)) \subseteq {"_"} THEN Raised ELSE Took("1", after, 0)
          [] Ch(s, p) # "0" \/ base \notin DOMAIN Based ->
               IF Ch(s, frac) # "e" THEN Took("1", frac, 0)
               ELSE IF exp > sign THEN Took("1", exp, 0) ELSE Raised

Word(s, p) ==
    LET to == Past(s, p, Letters \cup Digits)
        w  == SubSeq(s, p, to - 1)
    IN  Took(CASE w \in KEYWORDS -> w[1] \o w[2] [] w \in TYPES -> "T" [] OTHER -> "x", to, 0)

\* Mutant: the symbols are tried in another order.
FirstSymbol(s, p) == CHOOSE w \in SYMBOLS : Starts(s, p, w) /\ \A v \in SYMBOLS : Starts(s, p, v) => Len(w) <= Len(v)

\* Longest first.
Symbol(s, p) == CHOOSE w \in SYMBOLS : Starts(s, p, w) /\ \A v \in SYMBOLS : Starts(s, p, v) => Len(w) >= Len(v)

\* .. and ... are one kind.
Symbols(s, p) ==
    IF ~\E w \in SYMBOLS : Starts(s, p, w) THEN Raised
    ELSE LET w == Symbol(s, p)
             k == CASE Len(w) = 1 -> w[1] [] Len(w) = 2 -> w[1] \o w[2] [] Len(w) = 3 -> ".."
         IN  Took(k, p + Len(w), 0)

Scan(s, p) == CASE s[p] = Quote   -> String(s, p + 1)
                [] s[p] \in Digits  -> Number(s, p)
                [] s[p] \in Letters -> Word(s, p)
                [] OTHER -> Symbols(s, p)

\* One turn of the loop takes a blank, a line end, a comment or a token, or raises.
Skip(r, to, ends) == [r EXCEPT !.p = to, !.line = @ + ends]

\* A token is on the line it ends on.
Take(r, t) ==
    IF ~t.ok THEN [r EXCEPT !.ok = FALSE]
    ELSE [Skip(r, t.to, t.ends) EXCEPT !.toks =
            Append(@, [k |-> t.k, from |-> r.p, to |-> t.to, line |-> r.line + t.ends])]

Turn(s, r) ==
    LET p == r.p IN
    IF ~r.ok \/ p > Len(s) THEN r
    ELSE CASE s[p] \in Blank -> Skip(r, p + 1, 0)
           [] s[p] = LF      -> Skip(r, p + 1, 1)
           [] Starts(s, p, <<"/", "/">>) ->
                 Skip(r, Min({q \in p .. Len(s) + 1 : Ch(s, q) \in {LF, "EOF"}}), 0)
           [] Starts(s, p, <<"/", "*">>) ->
                 LET q == CommentEnd(s, p + 2) IN Skip(r, q + 2, LineEnds(s, p + 2, q - 1))
           [] OTHER -> Take(r, Scan(s, p))

\* No turn stays where it was, so that there are no more of them than characters.
Lex(s) ==
    LET run[n \in Nat] == IF n = 0 THEN [ok |-> TRUE, p |-> 1, line |-> 1, toks |-> << >>]
                                   ELSE Turn(s, run[n - 1])
    IN  run[Len(s)]

\* The tokens as the parser sees them.
TextOf(s) == LET t == Lex(s).toks IN
             [i \in DOMAIN t |-> [k |-> t[i].k, nl |-> i > 1 /\ t[i].line # t[i - 1].line]]

-----------------------------------------------------------------------------
LInit == charset \in CharSets /\ src = << >>

WriteChar(c) == /\ Len(src) < charset.len
                /\ src' = Append(src, c)
                /\ UNCHANGED charset

LNext == \E c \in charset.chars : WriteChar(c)

LSpec == LInit /\ [][LNext]_lvars

-----------------------------------------------------------------------------
(***************************************************************************)
(* The lexemes of the language, as sets of rows of characters.             *)
(***************************************************************************)
Digital(w)  == w # << >> /\ w[1] \in Digits /\ ToSet(w) \subseteq Digits \cup {"_"}
IsBased(w)  == /\ Len(w) > 2 /\ w[1] = "0" /\ w[2] \in DOMAIN Based
               /\ LET d == ToSet(SubSeq(w, 3, Len(w))) IN d \subseteq Based[w[2]] \cup {"_"} /\ ~(d \subseteq {"_"})
Mantissa(w) == \/ Digital(w)
               \/ \E i \in DOMAIN w : /\ w[i] = "." /\ Digital(SubSeq(w, 1, i - 1))
                                      /\ ToSet(SubSeq(w, i + 1, Len(w))) \subseteq Digits \cup {"_"}
Exponent(w) == LET d == IF w # << >> /\ w[1] \in {"+", "-"} THEN Tail(w) ELSE w IN
               d # << >> /\ ToSet(d) \subseteq Digits
IsNumber(w) == \/ IsBased(w) \/ Mantissa(w)
               \/ \E i \in DOMAIN w : /\ w[i] = "e" /\ Mantissa(SubSeq(w, 1, i - 1))
                                      /\ Exponent(SubSeq(w, i + 1, Len(w)))
IsWord(w)   == w # << >> /\ w[1] \in Letters /\ ToSet(w) \subseteq Letters \cup Digits
\* The only quote behind the first that has an even number of backslashes before
\* it is the last character.
Escaped(w, i) == \E n \in 1 .. i - 2 : n % 2 = 1 /\ w[i - n - 1] # Escape /\ \A j \in i - n .. i - 1 : w[j] = Escape
IsString(w)   == w[1] = Quote /\ {i \in 2 .. Len(w) : w[i] = Quote /\ ~Escaped(w, i)} = {Len(w)}
IsLexeme(w) == IsNumber(w) \/ IsWord(w) \/ IsString(w) \/ w \in SYMBOLS

\* Blanks and comments from p up to q; the end of the text closes a comment.
IsGap(p, q) ==
    LET gap[i \in p .. q] ==
          \/ i = q
          \/ i < q /\ src[i] \in Blank \cup {LF} /\ gap[i + 1]
          \/ \E e \in i + 2 .. q :
                LET w == SubSeq(src, i, e - 1) IN
                /\ gap[e]
                /\ \/ Starts(w, 1, <<"/", "/">>) /\ LF \notin ToSet(w) /\ Ch(src, e) \in {LF, "EOF"}
                   \/ /\ Starts(w, 1, <<"/", "*">>)
                      /\ CommentEnd(w, 3) = Len(w) - 1 \/ (CommentEnd(w, 3) > Len(w) /\ e > Len(src))
    IN  p <= q /\ gap[p]

\* Every token is the longest lexeme that begins where it begins, but that `1..' is a number
\* and a range: what stands before and between tokens are blanks and comments, and the
\* end of the text closes what is open there (lexer.py:93-187).
LongestLexemes ==
    LET r    == Lex(src)
        n    == Len(src)
        to(i)   == IF i = 0 THEN 1 ELSE r.toks[i].to
        from(i) == IF i > Len(r.toks) THEN n + 1 ELSE r.toks[i].from
    IN  r.ok => /\ \A i \in 0 .. Len(r.toks) : IsGap(to(i), from(i + 1))
                /\ \A t \in ToSet(r.toks) :
                     LET lexemes == {q \in t.from .. n : IsLexeme(SubSeq(src, t.from, q))} IN
                     \/ lexemes # {} /\ t.to - 1 = Max(lexemes)
                     \/ lexemes # {} /\ t.to = Max(lexemes) /\ Starts(src, t.to, <<".", ".">>)
                     \/ lexemes = {} /\ t.to > n /\ src[t.from] = Quote

\* The parser takes a bracket for the start of a statement if it is not on the line of the token
\* before it.  It is told so exactly if a line end stands between the two, in
\* a comment too (lexer.py:96-131); of a string it is told the line it ends on, if no line
\* end stands behind a backslash.
LinesTrue ==
    LET t    == Lex(src).toks
        text == TextOf(src)
    IN  \A i \in DOMAIN t \ {1} :
        Escape \notin ToSet(SubSeq(src, t[i].from, t[i].to - 1)) =>
            (text[i].nl <=> \E p \in t[i - 1].to .. t[i].to - 1 : src[p] = LF)
=============================================================================
