--------------------------------- MODULE Types --------------------------------
(***************************************************************************)
(* The type rules of vex/typeck.py next to the types that C gives to the   *)
(* text vex/codegen.py emits.  The checker records one type per expression *)
(* and lets statements through by _compat; the generator writes the same   *)
(* tree as C, declares variables with the recorded types, and gcc applies  *)
(* its own rules, with its warnings about pointers switched off.           *)
(*                                                                         *)
(* An expression is <<kind, detail>> followed by its operands.  It grows   *)
(* from a leaf by one node at a time, over the parameters of one function. *)
(***************************************************************************)
EXTENDS Integers, Sequences, FiniteSets, SequencesExt

CONSTANTS Params,     \* name of a parameter -> its type
          Fns,        \* name of a function -> <<"fn", parameter types, result>>
          Structs,    \* name of a struct -> field -> type
          Declared,   \* types that declarations and casts name
          BinOps,     \* the binary operators that occur
          MaxNodes    \* bound: nodes on top of a leaf

VARIABLES e, nodes

vars == <<e, nodes>>

-----------------------------------------------------------------------------
(***************************************************************************)
(* Types.                                                                  *)
(***************************************************************************)
TInt(bits, signed) == <<"int", bits, signed>>
TFloat(bits) == <<"float", bits>>
TPtr(t, mutable) == <<"ptr", t, mutable>>
TSlice(t) == <<"slice", t>>
TArray(t, n) == <<"array", t, n>>
TStruct(n) == <<"struct", n>>
TFn(ps, ret) == <<"fn", ps, ret>>
BOOL == <<"bool">>
STR  == <<"str">>
VOID == <<"void">>
NIL  == <<"nil">>
I32  == TInt(32, TRUE)
I64  == TInt(64, TRUE)
Err  == <<"error">>         \* a TypeError

Is(t, kinds) == t[1] \in kinds
Number  == {"int", "float"}
Pointer == {"ptr", "slice"}

\* resolve_type: a struct must be known.
RECURSIVE Known(_)
Known(t) == CASE Is(t, Pointer \cup {"array"}) -> Known(t[2])
              [] Is(t, {"struct"}) -> t[2] \in DOMAIN Structs
              [] Is(t, {"fn"})     -> Known(t[3]) /\ \A i \in DOMAIN t[2] : Known(t[2][i])
              [] OTHER -> TRUE

\* Mutant: numbers convert either way.
CompatAnyNumber(got, expected) ==
    got = expected \/ (Is(got, Number) /\ Is(expected, Number)) \/ (Is(got, Pointer) /\ Is(expected, Pointer))

\* _compat: what may stand where a type is expected.
Compat(got, expected) ==
    \/ got = expected
    \/ Is(got, {"nil"}) /\ Is(expected, Pointer)
    \/ Is(got, {"int"}) /\ Is(expected, Number)
    \/ Is(got, {"float"}) /\ Is(expected, {"float"})
    \/ Is(got, Pointer) /\ Is(expected, Pointer)

-----------------------------------------------------------------------------
(***************************************************************************)
(* The checker: the type _infer records for a node, from those of its      *)
(* operands.                                                               *)
(***************************************************************************)
\* Literals by the range of their value: below 2^31, 2^63 and 2^64.
Literals == [small |-> I32, wide |-> I64, huge |-> TInt(64, FALSE), frac |-> TFloat(64),
             yes |-> BOOL, text |-> STR, nil |-> NIL]

Logical == {"==", "<", "&&"}

\* Mutant: the right operand decides.
InferBinRight(op, l, r) == IF op \in Logical THEN BOOL ELSE IF Compat(l, r) THEN r ELSE Err

\* The left operand decides.
InferBin(op, l, r) ==
    CASE op \in Logical -> BOOL
      [] op \in {"+", "-"} /\ Is(l, Pointer) /\ Is(r, {"int"}) -> l
      [] op \notin Logical /\ ~(op \in {"+", "-"} /\ Is(l, Pointer) /\ Is(r, {"int"})) ->
            IF Compat(l, r) THEN l ELSE Err

Variadic(callee) == callee = <<"ident", "print">>

InferCall(callee, f, args) ==
    IF /\ Is(f, {"fn"})
       /\ Variadic(callee) \/ (/\ Len(args) = Len(f[2])
                               /\ \A i \in DOMAIN args : Compat(args[i], f[2][i]))
    THEN f[3] ELSE Err

\* A literal names any of the fields, in any order.
InferStruct(name, fields, ts) ==
    IF /\ name \in DOMAIN Structs
       /\ \A i \in DOMAIN fields : /\ fields[i] \in DOMAIN Structs[name]
                                   /\ Compat(ts[i], Structs[name][fields[i]])
    THEN TStruct(name) ELSE Err

InferIdent(n) == CASE n \in DOMAIN Params -> Params[n]
                   [] n \in DOMAIN Fns \ DOMAIN Params -> Fns[n]
                   [] n = "print" -> TFn(<< >>, VOID)
                   [] OTHER -> Err

InferNode(x, ts) ==
    LET d == x[2] IN
    CASE x[1] = "lit"    -> Literals[d]
      [] x[1] = "ident"  -> InferIdent(d)
      [] x[1] = "cast"   -> IF Known(d) THEN d ELSE Err
      [] x[1] = "alloc"  -> IF ~Known(d) THEN Err ELSE IF ts = << >> THEN TPtr(d, TRUE) ELSE TSlice(d)
      [] x[1] = "&"      -> TPtr(ts[1], FALSE)
      [] x[1] = "deref"  -> IF Is(ts[1], {"ptr"}) THEN ts[1][2] ELSE Err
      [] x[1] = "field"  -> IF Is(ts[1], {"struct"}) /\ d \in DOMAIN Structs[ts[1][2]]
                            THEN Structs[ts[1][2]][d] ELSE Err
      [] x[1] = "index"  -> IF Is(ts[1], Pointer \cup {"array"}) THEN ts[1][2] ELSE Err
      [] x[1] = "call"   -> InferCall(x[3], ts[1], Tail(ts))
      [] x[1] = "bin"    -> InferBin(d, ts[1], ts[2])
      [] x[1] = "un"     -> ts[1]
      [] x[1] = "struct" -> InferStruct(d[1], d[2], ts)
      [] x[1] = "array"  -> IF ts = << >> THEN TArray(VOID, 0) ELSE TArray(ts[1], Len(ts))

Operands(x) == SubSeq(x, 3, Len(x))

RECURSIVE Infer(_)
Infer(x) == LET ts == [i \in DOMAIN Operands(x) |-> Infer(Operands(x)[i])] IN
            IF Err \in ToSet(ts) THEN Err ELSE InferNode(x, ts)

-----------------------------------------------------------------------------
(***************************************************************************)
(* C.  A C type is an integer, a floating type, <<"ptr", type, const>> with *)
(* whether what it points to is const, <<"arr", type, size>>, a struct, a  *)
(* function or void.  A C expression has a type, may be an lvalue and may  *)
(* be read-only; Bad is one that gcc rejects.                              *)
(***************************************************************************)
CPtr(t, const) == <<"ptr", t, const>>
CInt == I32

\* Mutant: ptr<T> and ptr<mut T> are the same.
NeverConst(p) == p

\* A `const' in front of a pointer's text lands on what the innermost pointer
\* points to.
RECURSIVE ConstInFront(_)
ConstInFront(p) == IF Is(p[2], {"ptr"}) THEN CPtr(ConstInFront(p[2]), p[3]) ELSE CPtr(p[2], TRUE)

\* rtype_to_c.
RECURSIVE RToC(_)
RToC(t) ==
    CASE Is(t, {"bool"})  -> CInt
      [] Is(t, {"str"})   -> CPtr(<<"char">>, TRUE)
      [] Is(t, {"nil"})   -> CPtr(VOID, FALSE)
      [] Is(t, {"ptr"})   -> IF t[3] THEN CPtr(RToC(t[2]), FALSE)
                             ELSE ConstInFront(CPtr(RToC(t[2]), FALSE))
      [] Is(t, {"slice", "array"}) -> CPtr(RToC(t[2]), FALSE)
      [] Is(t, {"fn"})    -> <<"fn", [i \in DOMAIN t[2] |-> RToC(t[2][i])], RToC(t[3])>>
      [] OTHER            -> t

\* _gen_struct: an array in a struct is an array.
FieldC(t) == IF Is(t, {"array"}) THEN <<"arr", RToC(t[2]), t[3]>> ELSE RToC(t)

Bad    == [t |-> Err, lv |-> FALSE, ro |-> FALSE]
Val(t) == [t |-> t, lv |-> FALSE, ro |-> FALSE]

\* An array is used as a pointer to its first element.
Decay(c) == IF Is(c.t, {"arr"}) THEN CPtr(c.t[2], c.ro)
            ELSE IF Is(c.t, {"fn"}) THEN CPtr(c.t, FALSE) ELSE c.t

Scalar(t)  == Is(t, Number \cup {"ptr"})
Promote(t) == IF Is(t, {"int"}) /\ t[2] < 32 THEN CInt ELSE t

\* The usual arithmetic conversions.
Usual(a, b) ==
    LET p == Promote(a)
        q == Promote(b)
    IN  CASE Is(p, {"float"}) \/ Is(q, {"float"}) ->
               TFloat(IF TFloat(64) \in {p, q} THEN 64 ELSE 32)
          [] Is(p, {"int"}) /\ Is(q, {"int"}) ->
               IF p[2] # q[2] THEN (IF p[2] > q[2] THEN p ELSE q)
               ELSE TInt(p[2], p[3] /\ q[3])

RECURSIVE NoConst(_)
NoConst(t) == IF Is(t, {"ptr"}) THEN CPtr(NoConst(t[2]), FALSE) ELSE t

\* Initialising or assigning a `to' with a `from' is no error.
Converts(from, to) ==
    \/ Is(from, Number) /\ Is(to, Number)
    \/ Is(from, {"ptr"}) /\ Is(to, {"ptr", "int"})
    \/ Is(from, {"int"}) /\ Is(to, {"ptr"})
    \/ Is(from, {"struct"}) /\ from = to

Fits(c, to) == Converts(Decay(c), to)

CBin(op, l, r) ==
    LET num == Is(l, Number) /\ Is(r, Number)
        int == Is(l, {"int"}) /\ Is(r, {"int"})
    IN  CASE op \in {"==", "<"} -> IF Scalar(l) /\ Scalar(r) /\ Converts(l, r) THEN CInt ELSE Err
          [] op = "&&" -> IF Scalar(l) /\ Scalar(r) THEN CInt ELSE Err
          [] op = "%"  -> IF int THEN Usual(l, r) ELSE Err
          [] op = "<<" -> IF int THEN Promote(l) ELSE Err
          [] op = "*"  -> IF num THEN Usual(l, r) ELSE Err
          [] op = "+"  -> CASE num -> Usual(l, r)
                            [] Is(l, {"ptr"}) /\ Is(r, {"int"}) -> l
                            [] Is(l, {"int"}) /\ Is(r, {"ptr"}) -> r
                            [] OTHER -> Err
          [] op = "-"  -> CASE num -> Usual(l, r)
                            [] Is(l, {"ptr"}) /\ Is(r, {"int"}) -> l
                            [] Is(l, {"ptr"}) /\ Is(r, {"ptr"}) /\ NoConst(l) = NoConst(r) -> I64
                            [] OTHER -> Err

CUn(op, a) == CASE op = "-" -> IF Is(a, Number) THEN Promote(a) ELSE Err
                [] op = "~" -> IF Is(a, {"int"}) THEN Promote(a) ELSE Err
                [] op = "!" -> IF Scalar(a) THEN CInt ELSE Err

CCast(a, to) == IF \/ Scalar(a) /\ Scalar(to) /\ {a[1], to[1]} # {"float", "ptr"}
                   \/ Is(a, {"struct"}) /\ a = to
                THEN to ELSE Err

\* A list in braces only initializes a variable or a field: a pointer takes its
\* first element, and an array without a list of its own takes the value for
\* its first element.
Braces(ts) == <<"braces", ts>>
InitFits(c, to) ==
    CASE Is(to, {"arr"}) -> IF Is(c.t, {"braces"}) THEN \A i \in DOMAIN c.t[2] : Converts(c.t[2][i], to[2])
                                                   ELSE Fits(c, to[2])
      [] ~Is(to, {"arr"}) /\ Is(c.t, {"braces"}) -> c.t[2] # << >> /\ Converts(c.t[2][1], to)
      [] OTHER -> Fits(c, to)

CCall(callee, f, args) ==
    LET to == IF Variadic(callee) THEN <<RToC(STR)>> ELSE f[2] IN
    IF /\ Is(f, {"fn"}) /\ Len(args) >= Len(to)
       /\ \A i \in DOMAIN args : IF i <= Len(to) THEN Fits(args[i], to[i])
                                 ELSE ~Is(args[i].t, {"void", "braces"})
    THEN Val(f[3]) ELSE Bad

\* C's a[i] is i[a].
CIndex(p, i) == CASE Is(p, {"ptr"}) /\ Is(i, {"int"}) /\ ~Is(p[2], {"fn"}) -> [t |-> p[2], lv |-> TRUE, ro |-> p[3]]
                  [] Is(p, {"int"}) /\ Is(i, {"ptr"}) /\ ~Is(i[2], {"fn"}) -> [t |-> i[2], lv |-> TRUE, ro |-> i[3]]
                  [] OTHER -> Bad

\* What C makes of the text _gen_expr emits for a node.
CNode(x, cs) ==
    LET d == x[2]
        a == cs[1]
        p == Decay(a)
    IN
    CASE x[1] = "lit"    -> IF d = "text" THEN [t |-> <<"arr", <<"char">>, 3>>, lv |-> TRUE, ro |-> FALSE]
                                            ELSE Val(RToC(Literals[d]))
      [] x[1] = "ident"  -> IF d \in DOMAIN Params THEN [t |-> RToC(Params[d]), lv |-> TRUE, ro |-> FALSE]
                            ELSE IF d = "print" THEN Val(<<"fn", <<RToC(STR)>>, CInt>>) ELSE Val(RToC(Fns[d]))
      [] x[1] = "cast"   -> Val(CCast(p, RToC(d)))
      [] x[1] = "alloc"  -> IF cs # << >> /\ ~Is(a.t, Number) THEN Bad ELSE Val(CPtr(RToC(d), FALSE))
      [] x[1] = "&"      -> IF a.lv \/ Is(a.t, {"fn"}) THEN Val(CPtr(a.t, a.ro)) ELSE Bad
      [] x[1] = "deref"  -> IF Is(p, {"ptr"}) THEN [t |-> p[2], lv |-> TRUE, ro |-> p[3]] ELSE Bad
      [] x[1] = "field"  -> IF Is(a.t, {"struct"}) THEN [a EXCEPT !.t = FieldC(Structs[a.t[2]][d])] ELSE Bad
      [] x[1] = "index"  -> CIndex(p, Decay(cs[2]))
      [] x[1] = "call"   -> CCall(x[3], a.t, Tail(cs))
      [] x[1] = "bin"    -> Val(CBin(d, p, Decay(cs[2])))
      [] x[1] = "un"     -> Val(CUn(d, p))
      [] x[1] = "struct" -> IF \A i \in DOMAIN d[2] : InitFits(cs[i], FieldC(Structs[d[1]][d[2][i]]))
                            THEN [t |-> TStruct(d[1]), lv |-> TRUE, ro |-> FALSE] ELSE Bad
      [] x[1] = "array"  -> Val(Braces([i \in DOMAIN cs |-> Decay(cs[i])]))

\* For an expression that the checker accepts.
RECURSIVE C(_)
C(x) ==
    LET cs == [i \in DOMAIN Operands(x) |-> C(Operands(x)[i])] IN
    IF \E i \in DOMAIN cs : cs[i].t = Err \/ (x[1] # "struct" /\ Is(cs[i].t, {"braces"})) THEN Bad
    ELSE CNode(x, cs)

Accepted(x) == Infer(x) # Err
Compiles(x) == Accepted(x) /\ C(x).t # Err

-----------------------------------------------------------------------------
(***************************************************************************)
(* Statements: what check_stmt and gcc ask of the expressions in them.     *)
(***************************************************************************)
\* `let x: t = x', a return where t is the result, an argument where t is the parameter:
\* the variable is declared with the type t.
StoreChecked(x, t)  == Accepted(x) /\ Compat(Infer(x), t)
StoreCompiles(x, t) == Compiles(x) /\ InitFits(C(x), RToC(t))

\* `x = v': check_stmt does not look at mutability, gcc does.
AssignChecked(x, v)  == Accepted(x) /\ Accepted(v) /\ Compat(Infer(v), Infer(x))
AssignCompiles(x, v) == /\ Compiles(x) /\ Compiles(v)
                        /\ C(x).lv /\ ~C(x).ro /\ Fits(C(v), C(x).t)

\* `for v in x': the checker's elements, and how many C visits.
ForChecked(x) == Accepted(x) /\ Is(Infer(x), {"slice", "array"})
RECURSIVE SizeOf(_)
SizeOf(t) == CASE Is(t, Number) -> t[2] \div 8
               [] Is(t, {"ptr"}) -> 8
               [] Is(t, {"arr"}) -> t[3] * SizeOf(t[2])
               [] OTHER -> 1
Visits(x) == SizeOf(C(x).t) \div SizeOf(Decay(C(x))[2])

-----------------------------------------------------------------------------
Leaves == {<<"lit", l>> : l \in DOMAIN Literals}
            \cup {<<"ident", n>> : n \in DOMAIN Params \cup DOMAIN Fns \cup {"print"}}

FieldNames == UNION {DOMAIN Structs[s] : s \in DOMAIN Structs}

\* The nodes that have x as an operand and leaves as the others; a list is an
\* operand of a struct literal only.
Struct(x) == {<<"struct", <<s, <<f>>>>, x>> : s \in DOMAIN Structs, f \in FieldNames}
Over(x) ==
    IF x[1] = "array" THEN Struct(x) ELSE
    {<<k, t, x>> : k \in {"cast", "alloc"}, t \in Declared}
      \cup {<<"&", "", x>>, <<"deref", "", x>>, <<"array", "", x>>, <<"array", "", x, x, x>>}
      \cup {<<"field", f, x>> : f \in FieldNames}
      \cup {<<"un", op, x>> : op \in {"-", "~", "!"}}
      \cup UNION {{<<"bin", op, x, y>>, <<"bin", op, y, x>>} : op \in BinOps, y \in Leaves}
      \cup UNION {{<<"index", "", x, y>>, <<"index", "", y, x>>, <<"call", "", y, x>>} : y \in Leaves}
      \cup Struct(x)

Init == /\ e \in Leaves \cup {<<"alloc", t>> : t \in Declared} \cup {<<"array", "">>}
        /\ nodes = 0

\* An expression that the checker rejects does not grow: check_expr raises.
Grow == /\ nodes < MaxNodes /\ Accepted(e)
        /\ e' \in Over(e)
        /\ nodes' = nodes + 1

Spec == Init /\ [][Grow]_vars

-----------------------------------------------------------------------------
(***************************************************************************)
(* Properties.                                                             *)
(***************************************************************************)
RECURSIVE Nodes(_)
Nodes(x) == {x} \cup UNION {Nodes(Operands(x)[i]) : i \in DOMAIN Operands(x)}

\* The nodes at which the recorded type is not the one C computes: arithmetic
\* whose left operand has not the type of the usual arithmetic conversions (it is
\* narrower than the right one or than int, signed next to an unsigned, an integer next
\* to a floating value); ! of anything but a bool; the difference of two pointers;
\* the address of an array that C lays out; print.
Drifts(n) ==
    LET t(i) == Infer(n[i]) IN
    CASE n[1] = "bin"   -> \/ /\ n[2] \notin Logical /\ Is(t(3), Number) /\ Is(t(4), Number)
                              /\ Usual(t(3), t(4)) # t(3)
                           \/ n[2] = "-" /\ Is(Decay(C(n[3])), {"ptr"}) /\ Is(Decay(C(n[4])), {"ptr"})
      [] n[1] = "un"    -> IF n[2] = "!" THEN t(3) # BOOL ELSE t(3) # BOOL /\ Promote(t(3)) # t(3)
      [] n[1] = "&"     -> Is(C(n[3]).t, {"arr"})
      [] n[1] = "ident" -> Variadic(n)
      [] OTHER          -> FALSE

Steady(x) == Compiles(x) /\ \A n \in Nodes(x) : ~Drifts(n)
List(x)   == Is(C(x).t, {"braces"})

\* Wherever the checker accepts an expression and gcc compiles it, the type the checker
\* records (typeck.py:237-349), which becomes the type of the C variable of a `let'
\* without a type (codegen.py:140-150), is the type C computes, but
\* for const.  The exceptions are Drifts, and these only: nothing built from other
\* nodes disagrees.
TypesAgree ==
    Steady(e) /\ ~List(e) =>
        NoConst(Decay(Val(RToC(Infer(e))))) = NoConst(Decay(C(e)))

\* A value and the type that it is stored as: variables, arguments, fields.
Stores(x) ==
    {<<x, t>> : t \in Declared}
      \cup (IF x[1] = "call" THEN {<<x[i], Infer(x[3])[2][i - 3]>> : i \in 4..Len(x)} ELSE {})
      \cup (IF x[1] = "struct" THEN {<<x[i], Structs[x[2][1]][x[2][2][i - 2]]>> : i \in 3..Len(x)} ELSE {})

\* What _compat lets through, at a let, an argument or a field, C stores without an error
\* and in one of these ways only: as the very type it has, but for const; as a floating
\* value, if it is a number; as another pointer, if it is a pointer
\* (typeck.py:351-362 against codegen.py:14-36).  So no floating value becomes an
\* integer, no pointer a number, no number a pointer, no truth value an i64.  Integers of
\* another width or sign pass too, and are left out: docs/vex.md:519 says that no width
\* is converted without an `as'.  So are arrays: a list in braces cannot initialise the pointer an array variable is.
StoredAsChecked ==
    Steady(e) => \A s \in Stores(e) :
        LET got  == Infer(s[1])
            from == Decay(C(s[1]))
            to   == RToC(s[2])
        IN  /\ StoreChecked(s[1], s[2]) /\ ~Is(s[2], {"array", "fn", "void"})
            /\ ~(Is(got, {"int"}) /\ Is(s[2], {"int"}) /\ got # s[2])
            => /\ StoreCompiles(s[1], s[2])
               /\ \/ NoConst(from) = NoConst(to)
                  \/ Is(from, Number) /\ Is(to, {"float"})
                  \/ Is(from, {"ptr"}) /\ Is(to, {"ptr"})

\* ptr<T> and ptr<mut T> reach C: whatever an expression goes through, gcc
\* refuses an assignment behind a pointer recorded as ptr<T>, and takes one
\* behind ptr<mut T> (the checker never looks, typeck.py:181-185).  An & is
\* recorded as ptr<T> of something C may write (typeck.py:266-268), and of nested
\* pointers the `const' is printed at the innermost (codegen.py:23-26).
MutabilityKept ==
    LET t == Infer(e) IN
    /\ Steady(e) /\ Is(t, {"ptr"}) /\ ~Is(t[2], Pointer \cup {"str", "array", "fn"})
    /\ \A n \in Nodes(e) : n[1] # "&"
    => AssignCompiles(<<"deref", "", e>>, <<"deref", "", e>>) = t[3]

\* docs/vex.md: `for val in arr' visits the elements of a fixed array.  The
\* emitted loop (codegen.py:187-206) divides the size of a pointer, the type
\* array variables have, by that of an element.
ForVisitsAll ==
    Compiles(e) /\ ForChecked(e) /\ Is(Infer(e), {"array"}) /\ ~List(e) => Visits(e) = Infer(e)[3]
=============================================================================
