--------------------------------- MODULE Parser -------------------------------
(***************************************************************************)
(* The parser of vex/parser.py, from a row of tokens: recursive descent    *)
(* for declarations, types, statements, operands and suffixes, precedence  *)
(* climbing for binary operators, and neither semicolons nor line ends     *)
(* between statements.                                                     *)
(*                                                                         *)
(* A token is its kind and whether it is the first on its line.  "x"       *)
(* stands for an identifier, "1" for an integer and any other literal, "T" *)
(* for i32 and the other types of one word.  A position is the number of   *)
(* tokens consumed.                                                        *)
(***************************************************************************)
EXTENDS Integers, Sequences, FiniteSets, SequencesExt, FiniteSetsExt

CONSTANTS Alphabets    \* records [start, more, len]: a row of tokens, those that
                       \* may follow, and how many (bound)

VARIABLES alphabet, text

vars == <<alphabet, text>>

Tok(k)  == [k |-> k, nl |-> FALSE]
Line(k) == [k |-> k, nl |-> TRUE]      \* begins a line

K(s, p)      == IF p < Len(s) THEN s[p + 1].k ELSE "EOF"
NewLine(s, p) == p < Len(s) /\ s[p + 1].nl

Ok(p, t) == [ok |-> TRUE, pos |-> p, tree |-> t]
Err(p)   == [ok |-> FALSE, pos |-> p, tree |-> << >>]    \* p: the offending token

Then(r, F(_, _))    == IF r.ok THEN F(r.pos, r.tree) ELSE r
Expect(s, p, k)     == IF K(s, p) = k THEN Ok(p + 1, << >>) ELSE Err(p)
Closed(s, r, k)     == Then(r, LAMBDA q, e : Then(Expect(s, q, k), LAMBDA p, x : Ok(p, e)))
Match(s, p, k)      == IF K(s, p) = k THEN p + 1 ELSE p

\* The three rules of the grammar that others come back to: a type, an expression
\* whose operators bind tighter than min, and a statement.
RECURSIVE Rule(_, _, _, _)
Type(s, p)      == Rule("type", s, p, 0)
Expr(s, p, min) == Rule("expr", s, p, min)
Stmt(s, p)      == Rule("stmt", s, p, 0)

-----------------------------------------------------------------------------
(***************************************************************************)
(* Types.                                                                  *)
(***************************************************************************)
TypeKinds == {"T", "x"}

RECURSIVE Types(_, _)
Types(s, p) ==
    IF K(s, p) \in {")", "EOF"} THEN Ok(p, << >>)
    ELSE Then(Type(s, p), LAMBDA q, x : IF K(s, q) = "," THEN Types(s, q + 1) ELSE Ok(q, << >>))

\* The token >> closes no type.
ParseType(s, p) ==
    LET k == K(s, p) IN
    CASE k \in TypeKinds -> Ok(p + 1, << >>)
      [] k \in {"ptr", "slice"} ->
            Then(Expect(s, p + 1, "<"), LAMBDA q, x :
              Closed(s, Type(s, IF k = "ptr" THEN Match(s, q, "mut") ELSE q), ">"))
      [] k = "["  -> Then(Closed(s, Type(s, p + 1), ";"), LAMBDA q, x : Closed(s, Expect(s, q, "1"), "]"))
      [] k = "fn" ->
            Then(Expect(s, p + 1, "("), LAMBDA q, x :
              Then(Closed(s, Types(s, q), ")"), LAMBDA q1, x1 :
                Then(Expect(s, q1, "->"), LAMBDA q2, x2 : Type(s, q2))))
      [] OTHER    -> Err(p)

-----------------------------------------------------------------------------
(***************************************************************************)
(* Expressions.                                                            *)
(***************************************************************************)
Levels == <<{"||"}, {"&&"}, {"|"}, {"^"}, {"&"}, {"==", "!="}, {"<", ">", "<=", ">="}, {"<<", ">>"},
            {"+", "-"}, {"*", "/", "%"}>>
Prec   == [k \in UNION ToSet(Levels) |-> CHOOSE i \in DOMAIN Levels : k \in Levels[i]]

UnaryOps == {"-", "!", "~", "*", "&"}
Atoms    == {"x", "1"}

\* Mutant: every brace after a name begins a struct literal.
AnyBrace(s, p) == TRUE

\* _looks_like_struct_lit, at the brace after a name.
LooksLikeStructLit(s, p) == K(s, p + 1) = "}" \/ (K(s, p + 1) = "x" /\ K(s, p + 2) = ":")

\* Mutant: an operator of the same precedence is taken into the right operand.
BindsRight(k, min) == k \in DOMAIN Prec /\ Prec[k] >= min

Binds(k, min) == k \in DOMAIN Prec /\ Prec[k] > min

RECURSIVE Climb(_, _, _, _), ParseUnary(_, _), Postfixes(_, _, _), Exprs(_, _, _, _), Fields(_, _, _)

\* Expressions with commas between them, and perhaps after the last.
Exprs(s, p, close, done) ==
    IF K(s, p) \in {close, "EOF"} THEN Ok(p, done)
    ELSE Then(Expr(s, p, 0), LAMBDA q, e :
           IF K(s, q) = "," THEN Exprs(s, q + 1, close, Append(done, e))
                            ELSE Ok(q, Append(done, e)))

\* The fields of a struct literal.
Fields(s, p, done) ==
    IF K(s, p) \in {"}", "EOF"} THEN Ok(p, done)
    ELSE Then(Expect(s, p, "x"), LAMBDA q, x :
           Then(Expect(s, q, ":"), LAMBDA q1, x1 :
             Then(Expr(s, q1, 0), LAMBDA q2, e :
               IF K(s, q2) = "," THEN Fields(s, q2 + 1, done \o <<<<"x">>, e>>)
                                 ELSE Ok(q2, done \o <<<<"x">>, e>>))))

ParsePrimary(s, p) ==
    LET k == K(s, p) IN
    CASE k = "x" /\ K(s, p + 1) = "{" /\ LooksLikeStructLit(s, p + 1) ->
            Then(Closed(s, Fields(s, p + 2, << >>), "}"),
                 LAMBDA q, fields : Ok(q, <<"struct", <<"x">>>> \o fields))
      [] k = "(" -> Closed(s, Expr(s, p + 1, 0), ")")
      [] k = "[" -> Then(Closed(s, Exprs(s, p + 1, "]", << >>), "]"),
                         LAMBDA q, items : Ok(q, <<"array">> \o items))
      [] k \in Atoms /\ ~(k = "x" /\ K(s, p + 1) = "{" /\ LooksLikeStructLit(s, p + 1)) ->
            Ok(p + 1, <<k>>)
      [] OTHER -> Err(p)

\* Mutant: a call or an index may begin on the next line.
OnAnyLine(s, p) == TRUE

\* A bracket on a new line does not continue the expression.
SameLine(s, p) == ~NewLine(s, p)

Postfixes(s, p, e) ==
    CASE K(s, p) = "(" /\ SameLine(s, p) ->
            Then(Closed(s, Exprs(s, p + 1, ")", << >>), ")"),
                 LAMBDA q, args : Postfixes(s, q, <<"call", e>> \o args))
      [] K(s, p) = "[" /\ SameLine(s, p) ->
            Then(Closed(s, Expr(s, p + 1, 0), "]"),
                 LAMBDA q, i : Postfixes(s, q, <<"index", e, i>>))
      [] K(s, p) = "." ->
            Then(Expect(s, p + 1, "x"), LAMBDA q, x : Postfixes(s, q, <<"field", e, <<"x">>>>))
      [] K(s, p) = "as" ->
            Then(Type(s, p + 1), LAMBDA q, x : Postfixes(s, q, <<"cast", e>>))
      [] OTHER -> Ok(p, e)

ParsePostfix(s, p) == Then(ParsePrimary(s, p), LAMBDA q, e : Postfixes(s, q, e))

ParseUnary(s, p) ==
    LET op == K(s, p) IN
    CASE op = "alloc" ->
            Then(Expect(s, p + 1, "<"), LAMBDA q, x :
              Then(Type(s, q), LAMBDA q1, x1 :
                Then(Expect(s, q1, ">"), LAMBDA q2, x2 :
                  Then(Expect(s, q2, "("), LAMBDA q3, x3 :
                    Closed(s, IF K(s, q3) = ")" THEN Ok(q3, <<"alloc">>)
                              ELSE Then(Expr(s, q3, 0), LAMBDA q4, n : Ok(q4, <<"alloc", n>>)),
                           ")")))))
      [] op \in UnaryOps ->
            Then(IF op = "&" THEN ParsePostfix(s, p + 1) ELSE ParseUnary(s, p + 1),
                 LAMBDA q, e : Ok(q, <<op, e>>))
      [] OTHER -> ParsePostfix(s, p)

Climb(s, p, min, left) ==
    LET op == K(s, p) IN
    IF ~Binds(op, min) THEN Ok(p, left)
    ELSE Then(Expr(s, p + 1, Prec[op]),
              LAMBDA q, right : Climb(s, q, min, <<op, left, right>>))

ParseExpr(s, p, min) ==
    Then(ParseUnary(s, p), LAMBDA q, left : Climb(s, q, min, left))

-----------------------------------------------------------------------------
(***************************************************************************)
(* Statements.                                                             *)
(***************************************************************************)
AssignOps == {"=", "+=", "-=", "*=", "/="}

RECURSIVE Stmts(_, _, _), ParseIf(_, _)

Stmts(s, p, done) ==
    IF K(s, p) \in {"}", "EOF"} THEN Ok(p, done)
    ELSE Then(Stmt(s, p), LAMBDA q, t : Stmts(s, q, Append(done, t)))

ParseBlock(s, p) ==
    Then(Expect(s, p, "{"), LAMBDA q, x :
      Then(Closed(s, Stmts(s, q, << >>), "}"), LAMBDA r, body : Ok(r, <<"block">> \o body)))

\* A statement that ends after its expression, with or without a semicolon.
Ended(s, r) == Then(r, LAMBDA q, t : Ok(Match(s, q, ";"), t))

ParseLet(s, p) ==
    Then(Expect(s, Match(s, p + 1, "mut"), "x"), LAMBDA q, x :
      Then(IF K(s, q) = ":" THEN Type(s, q + 1) ELSE Ok(q, << >>), LAMBDA q1, x1 :
        Then(Expect(s, q1, "="), LAMBDA q2, x2 :
          Ended(s, Then(Expr(s, q2, 0), LAMBDA q3, e : Ok(q3, <<"let", <<"x">>, e>>))))))

ParseIf(s, p) ==
    Then(Expr(s, p + 1, 0), LAMBDA q, c :
      Then(ParseBlock(s, q), LAMBDA q1, then :
        IF K(s, q1) # "else" THEN Ok(q1, <<"if", c, then>>)
        ELSE Then(IF K(s, q1 + 1) = "if" THEN ParseIf(s, q1 + 1) ELSE ParseBlock(s, q1 + 1),
                  LAMBDA q2, els : Ok(q2, <<"if", c, then, els>>))))

NoValue(s, p) == K(s, p) \in {";", "}"}

ParseStmt(s, p) ==
    LET k == K(s, p) IN
    CASE k = "let"    -> ParseLet(s, p)
      [] k = "return" ->
            Ended(s, IF NoValue(s, p + 1) THEN Ok(p + 1, <<"return">>)
                     ELSE Then(Expr(s, p + 1, 0), LAMBDA q, e : Ok(q, <<"return", e>>)))
      [] k = "if"     -> ParseIf(s, p)
      [] k = "while"  ->
            Then(Expr(s, p + 1, 0), LAMBDA q, c :
              Then(ParseBlock(s, q), LAMBDA q1, body : Ok(q1, <<"while", c, body>>)))
      [] k = "for"    ->
            Then(Expect(s, p + 1, "x"), LAMBDA q, x :
              Then(Expect(s, q, "in"), LAMBDA q1, x1 :
                Then(Expr(s, q1, 0), LAMBDA q2, e :
                  Then(ParseBlock(s, q2), LAMBDA q3, body : Ok(q3, <<"for", <<"x">>, e, body>>)))))
      [] k \in {"break", "continue"} -> Ended(s, Ok(p + 1, <<k>>))
      [] k = "free"   ->
            Ended(s, Then(Expr(s, p + 1, 0), LAMBDA q, e : Ok(q, <<"free", e>>)))
      [] k = "{"      -> ParseBlock(s, p)
      [] OTHER        ->
            Ended(s, Then(Expr(s, p, 0), LAMBDA q, e :
              IF K(s, q) \notin AssignOps THEN Ok(q, <<"expr", e>>)
              ELSE Then(Expr(s, q + 1, 0), LAMBDA q1, v : Ok(q1, <<K(s, q), e, v>>))))

Rule(rule, s, p, min) == CASE rule = "type" -> ParseType(s, p)
                           [] rule = "expr" -> ParseExpr(s, p, min)
                           [] rule = "stmt" -> ParseStmt(s, p)

\* The statements of a function body.
Whole(s, r) == IF r.ok /\ r.pos < Len(s) THEN Err(r.pos) ELSE r
Parse(s)    == Whole(s, Stmts(s, 0, << >>))

-----------------------------------------------------------------------------
(***************************************************************************)
(* Declarations; module Imports models what an import does.                *)
(***************************************************************************)
RECURSIVE Params(_, _), StructFields(_, _), Decls(_, _, _)

Params(s, p) ==
    IF K(s, p) \in {")", "EOF"} THEN Ok(p, << >>)
    ELSE Then(Expect(s, Match(s, p, "mut"), "x"), LAMBDA q, x :
           Then(Expect(s, q, ":"), LAMBDA q1, x1 :
             Then(Type(s, q1), LAMBDA q2, x2 :
               IF K(s, q2) = "," THEN Params(s, q2 + 1) ELSE Ok(q2, << >>))))

\* Commas between the fields are optional.
StructFields(s, p) ==
    IF K(s, p) \in {"}", "EOF"} THEN Ok(p, << >>)
    ELSE Then(Expect(s, p, "x"), LAMBDA q, x :
           Then(Expect(s, q, ":"), LAMBDA q1, x1 :
             Then(Type(s, q1), LAMBDA q2, x2 : StructFields(s, Match(s, q2, ",")))))

ParseStruct(s, p) ==
    Then(Expect(s, p + 1, "x"), LAMBDA q, x :
      Then(Expect(s, q, "{"), LAMBDA q1, x1 :
        Then(Closed(s, StructFields(s, q1), "}"), LAMBDA q2, x2 : Ok(q2, <<"struct">>))))

\* Mutant: the arrow before a result may be left out.
ResultNoArrow(s, p) == IF K(s, Match(s, p, "->")) \in {"T", "x", "fn"} THEN Type(s, Match(s, p, "->")) ELSE Ok(p, << >>)

Result(s, p) == IF K(s, p) = "->" THEN Type(s, p + 1) ELSE Ok(p, << >>)

ParseFn(s, p) ==
    LET extern == K(s, p) = "extern"
        head   == Match(s, Match(s, p, "extern"), "inline")
    IN  Then(Expect(s, head, "fn"), LAMBDA q, x :
          Then(Expect(s, q, "x"), LAMBDA q1, x1 :
            Then(Expect(s, q1, "("), LAMBDA q2, x2 :
              Then(Closed(s, Params(s, q2), ")"), LAMBDA q3, x3 :
                Then(Result(s, q3), LAMBDA q4, x4 :
                  IF extern THEN Ok(Match(s, q4, ";"), <<"extern">>)
                  ELSE Then(ParseBlock(s, q4), LAMBDA q5, body : Ok(q5, <<"fn", body>>)))))))

Decls(s, p, done) ==
    LET k == K(s, p) IN
    IF k = "EOF" THEN Ok(p, done)
    ELSE Then(CASE k = "import" -> Then(Expect(s, p + 1, "1"), LAMBDA q, x : Ok(Match(s, q, ";"), <<"import">>))
                [] k = "struct" -> ParseStruct(s, p)
                [] k \in {"fn", "extern", "inline"} -> ParseFn(s, p)
                [] OTHER -> Err(p),
              LAMBDA q, d : Decls(s, q, Append(done, d)))

ParseModule(s) == Decls(s, 0, << >>)

-----------------------------------------------------------------------------
(***************************************************************************)
(* Texts are written token by token.  A text is not continued once the     *)
(* parser objects to one of its tokens, rather than to its end.            *)
(***************************************************************************)
Viable(r) == r.ok \/ r.pos = Len(text)

Init == alphabet \in Alphabets /\ text = alphabet.start

Write(t) == /\ Len(text) < Len(alphabet.start) + alphabet.len
            /\ Viable(Parse(text)) \/ Viable(ParseModule(text))
            /\ text' = Append(text, t)
            /\ UNCHANGED alphabet

Next == \E t \in alphabet.more : Write(t)

Spec == Init /\ [][Next]_vars

-----------------------------------------------------------------------------
(***************************************************************************)
(* The expression of a row of kinds, by its shape alone: its root is the   *)
(* last of the loosest binary operators outside all brackets, else the     *)
(* first prefix operator, else the last suffix.                            *)
(***************************************************************************)
Bad == <<"bad">>

Depth(w, i) == Cardinality({j \in 1 .. i : w[j] \in {"(", "["}})
                 - Cardinality({j \in 1 .. i : w[j] \in {")", "]"}})

Top(w) == {i \in DOMAIN w : Depth(w, i) = 0 /\ w[i] \notin {")", "]"}}

\* An operator is binary when an operand ends before it.
Binary(w) == {i \in Top(w) : i > 1 /\ w[i] \in DOMAIN Prec /\ w[i - 1] \in Atoms \cup {")", "]", "T"}}

\* The bracket that the last token closes.
Opening(w) == Max({i \in 1 .. Len(w) - 1 : w[i] \in {"(", "["} /\ Depth(w, i) = 1
                                           /\ \A j \in i .. Len(w) - 1 : Depth(w, j) >= 1})

Part(w, a, b) == SubSeq(w, a, b)

RECURSIVE Tree(_), Trees(_)

\* Rows with commas between them; an empty row has none, and a last comma may
\* follow the last.
Trees(w) ==
    LET commas == {i \in Top(w) : w[i] = ","} IN
    CASE w = << >>    -> << >>
      [] commas = {} /\ w # << >> -> <<Tree(w)>>
      [] OTHER        -> LET i == Min(commas) IN <<Tree(Part(w, 1, i - 1))>> \o Trees(Part(w, i + 1, Len(w)))

Sound(t) == IF \E i \in DOMAIN t \ {1} : t[i] = Bad THEN Bad ELSE t

Tree(w) ==
    LET n == Len(w) IN
    IF n = 0 \/ Depth(w, n) # 0 \/ \E i \in DOMAIN w : Depth(w, i) < 0 THEN Bad
    ELSE IF Binary(w) # {}
    THEN LET loosest == {i \in Binary(w) : \A j \in Binary(w) : Prec[w[i]] <= Prec[w[j]]}
             i       == Max(loosest)
         IN  Sound(<<w[i], Tree(Part(w, 1, i - 1)), Tree(Part(w, i + 1, n))>>)
    ELSE IF w[1] \in UnaryOps
    THEN IF n > 1 /\ w[1] = "&" /\ w[2] \in UnaryOps THEN Bad
         ELSE Sound(<<w[1], Tree(Part(w, 2, n))>>)
    ELSE CASE n = 1 /\ w[1] \in Atoms -> <<w[1]>>
           [] n > 2 /\ w[n] \in TypeKinds /\ w[n - 1] = "as" -> Sound(<<"cast", Tree(Part(w, 1, n - 2))>>)
           [] n > 2 /\ w[n] = "x" /\ w[n - 1] = "." ->
                 Sound(<<"field", Tree(Part(w, 1, n - 2)), <<"x">>>>)
           [] n > 1 /\ w[n] = ")" ->
                 LET i == Opening(w) IN
                 IF w[i] # "(" THEN Bad
                 ELSE IF i = 1 THEN Tree(Part(w, 2, n - 1))
                 ELSE Sound(<<"call", Tree(Part(w, 1, i - 1))>> \o Trees(Part(w, i + 1, n - 1)))
           [] n > 1 /\ w[n] = "]" ->
                 LET i == Opening(w) IN
                 IF w[i] # "[" THEN Bad
                 ELSE IF i = 1 THEN Sound(<<"array">> \o Trees(Part(w, 2, n - 1)))
                 ELSE Sound(<<"index", Tree(Part(w, 1, i - 1)), Tree(Part(w, i + 1, n - 1))>>)
           [] OTHER -> Bad

Kinds(s) == [i \in DOMAIN s |-> s[i].k]
ExprKinds == DOMAIN Prec \cup UnaryOps \cup Atoms \cup {"(", ")", "[", "]", ",", ".", "as", "T"}

\* On one line, the parser takes a text for one expression exactly when it has
\* the shape of one, and then with the tree of that shape: operators group by
\* their level and to the left, prefixes bind tighter and suffixes tightest.
ReadsByShape ==
    LET w == Kinds(text)
        r == Parse(text)
        t == Tree(w)
    IN  (text # << >> /\ ToSet(w) \subseteq ExprKinds /\ \A i \in DOMAIN text : ~text[i].nl) =>
            /\ t # Bad => r.ok /\ r.tree = <<<<"expr", t>>>>
            /\ (r.ok /\ Len(r.tree) = 1) => t # Bad

\* Two texts that are statements each, one below the other, are the statements
\* of the first and then those of the second, without any semicolon; unless
\* the second begins with an operator that may be binary or with a brace.
LinesSplit ==
    \A i \in DOMAIN text :
        LET above == Parse(SubSeq(text, 1, i - 1))
            below == Parse(SubSeq(text, i, Len(text)))
        IN  (text[i].nl /\ text[i].k \notin DOMAIN Prec \cup {"{"} /\ above.ok /\ below.ok) =>
                Parse(text) = Ok(Len(text), above.tree \o below.tree)

\* Two texts that are modules each are, one after the other, the declarations of the
\* first and then those of the second: `fn' begins a type and a declaration,
\* and an extern function ends at its result, its brackets or its semicolon.
DeclsSplit ==
    \A i \in DOMAIN text :
        LET above == ParseModule(SubSeq(text, 1, i - 1))
            below == ParseModule(SubSeq(text, i, Len(text)))
        IN  (above.ok /\ below.ok) => ParseModule(text) = Ok(Len(text), above.tree \o below.tree)

\* `while x { ... }': what is between the braces is the body, unless it is empty
\* or begins as a struct literal does, and an identifier with a colon is no
\* statement.
BracesAreBody ==
    LET body == SubSeq(text, 4, Len(text) - 1)
        r    == Parse(body)
    IN  (/\ Len(text) > 4
         /\ Kinds(SubSeq(text, 1, 3)) = <<"while", "x", "{">> /\ text[Len(text)].k = "}"
         /\ r.ok)
            => Parse(text) = Ok(Len(text), <<<<"while", <<"x">>, <<"block">> \o r.tree>>>>)
=============================================================================
