--------------------------------- MODULE Names --------------------------------
(***************************************************************************)
(* What the names of a Vex function mean to the type checker and to the C  *)
(* compiler that reads the generated code.                                 *)
(*                                                                         *)
(* typeck.py walks the body with a chain of Scope objects and resolves     *)
(* each identifier in it; codegen.py emits the identifiers under C names,  *)
(* in C blocks, without looking at those scopes.  The module walks one     *)
(* body, statement by statement, with both chains side by side.  The       *)
(* statements are chosen freely: every body of at most MaxStmts statements *)
(* and MaxDepth nested blocks is walked.                                   *)
(***************************************************************************)
EXTENDS Integers, Sequences, FiniteSetsExt

CONSTANTS Locals,      \* names a body may declare
          VexFns,      \* functions of the module with a body
          ExternFns,   \* its extern functions
          Builtins,    \* those built-in functions of the checker it uses
          LoopIndex,   \* the name `_i' of the index in generated for loops
          SelfRef,     \* TRUE if `let x = ..x..' and `for x in x' may occur
          MaxStmts, MaxDepth, MaxUses

Printers  == {"print", "println"}
Variadics == Printers \cup {"printf", "fprintf", "sprintf"}
Functions == VexFns \cup ExternFns
Names     == Locals \cup Functions \cup Builtins

ASSUME FnAssumption == VexFns \cap ExternFns = {} /\ Builtins \subseteq Variadics

VARIABLES scopes,    \* the Scope chain, outermost first: name -> declaration
          blocks,    \* the C blocks open at this point: name -> declaration
          pops,      \* for every open block, how many scopes it opened
          decls,     \* declarations so far
          stmts,     \* statements so far
          typeOk,    \* FALSE: the checker has raised TypeError
          cOk,       \* FALSE: the C compiler rejects a redefinition
          uses       \* every use so far: its meaning to the checker and in C

vars == <<scopes, blocks, pops, decls, stmts, typeOk, cOk, uses>>

Fn(n)   == <<"fn", n>>
Var(d)  == <<"var", d>>
Unknown == <<"unknown">>

NoNames == [n \in {} |-> Unknown]
Declare(scope, n, d) == [m \in DOMAIN scope \cup {n} |-> IF m = n THEN d ELSE scope[m]]
Last(s)       == s[Len(s)]
SetLast(s, e) == [s EXCEPT ![Len(s)] = e]

Lookup(chain, n) ==
    LET at == {i \in DOMAIN chain : n \in DOMAIN chain[i]}
    IN  IF at = {} THEN Unknown ELSE chain[Max(at)][n]

\* The printers stand for printf.
BuiltIn(n) == Fn(IF n \in Printers THEN "printf" ELSE n)

\* The checker: the innermost Scope that knows the name, else a function of
\* the module, which replaces a built-in one of its name, else a built-in one.
Infer(chain, n) ==
    LET local == Lookup(chain, n)
    IN  CASE local # Unknown                                     -> local
          [] local = Unknown /\ n \in Functions                  -> Fn(n)
          [] local = Unknown /\ n \in Variadics \ Functions      -> BuiltIn(n)
          [] OTHER                                               -> Unknown

\* Mutant: the emitter leaves the prefix out.
EmittedBare(n) == [vex |-> FALSE, name |-> IF n \in Printers THEN "printf" ELSE n]

\* The identifier codegen emits, whatever scope it is in: with the prefix for
\* every other function the checker knows ...
Emitted(n) ==
    [vex  |-> n \in (VexFns \cup Variadics) \ (Printers \cup ExternFns),
     name |-> IF n \in Printers THEN "printf" ELSE n]

\* ... and what that identifier is in C: only functions of the module have a
\* name with the prefix.
InC(chain, n) ==
    LET e     == Emitted(n)
        local == Lookup(chain, e.name)
    IN  CASE e.vex /\ n \in VexFns                -> Fn(n)
          [] ~e.vex /\ local # Unknown            -> local
          [] /\ ~e.vex /\ local = Unknown
             /\ e.name \in ExternFns \cup {"printf"} -> Fn(e.name)
          [] OTHER                               -> Unknown

Meanings(used, chain, cchain) ==
    {[name |-> n, vex |-> Infer(chain, n), c |-> InC(cchain, n)] : n \in used}

Init == /\ \E ps \in SUBSET Locals :
              LET params == [n \in ps |-> <<"param", n>>] IN
              /\ scopes = <<params, NoNames>>
              /\ blocks = <<params>>
        /\ pops = << >> /\ decls = 0 /\ stmts = 0
        /\ typeOk = TRUE /\ cOk = TRUE /\ uses = {}

Going == typeOk /\ cOk /\ stmts < MaxStmts
Statement == Going /\ stmts' = stmts + 1

\* Identifiers of an expression: the checker raises at an unknown one, and
\* codegen emits the others where the C chain is cchain.
Check(used, cchain) ==
    LET seen == Meanings(used, scopes, cchain) IN
    IF \E u \in seen : u.vex = Unknown
    THEN typeOk' = FALSE /\ UNCHANGED uses
    ELSE typeOk' = TRUE /\ uses' = uses \cup seen

\* let x = e: the checker looks at e before x exists; in the C declaration
\* `T x = e;' the x is in scope in e.
Let(x, used) ==
    /\ Statement
    /\ x \in used => SelfRef
    /\ LET d == Var(decls + 1) IN
       /\ scopes' = SetLast(scopes, Declare(Last(scopes), x, d))
       /\ blocks' = SetLast(blocks, Declare(Last(blocks), x, d))
       /\ decls' = decls + 1
       /\ Check(used, blocks')
    /\ cOk' = (x \notin DOMAIN Last(blocks))
    /\ UNCHANGED pops

\* Assign, Return, free and expression statements, and conditions.
Use(used) ==
    /\ Statement
    /\ Check(used, blocks)
    /\ UNCHANGED <<scopes, blocks, pops, decls, cOk>>

\* The block of an if, an else or a while, or a block of its own.
Enter(used) ==
    /\ Statement /\ Len(pops) < MaxDepth
    /\ Check(used, blocks)
    /\ scopes' = Append(scopes, NoNames)
    /\ blocks' = Append(blocks, NoNames)
    /\ pops' = Append(pops, 1)
    /\ UNCHANGED <<decls, cOk>>

\* for x in e: the checker binds x in a scope around the body's; in C the for
\* statement declares the index and the body block starts with `T x = e[_i];'.
For(x, used) ==
    /\ Statement /\ Len(pops) < MaxDepth
    /\ x \in used => SelfRef
    /\ LET d     == Var(decls + 1)
           index == [n \in {LoopIndex} |-> <<"index", decls + 1>>]
           body  == Declare(NoNames, x, d)
       IN  /\ scopes' = scopes \o <<body, NoNames>>
           /\ blocks' = blocks \o <<index, body>>
           /\ decls' = decls + 1
           /\ Check(used, blocks')
    /\ pops' = Append(pops, 2)
    /\ UNCHANGED cOk

\* Mutant: the scope of the loop variable is never left.
LeaveOne ==
    /\ Going /\ pops # << >>
    /\ scopes' = SubSeq(scopes, 1, Len(scopes) - 1)
    /\ blocks' = SubSeq(blocks, 1, Len(blocks) - Last(pops))
    /\ pops' = SubSeq(pops, 1, Len(pops) - 1)
    /\ UNCHANGED <<decls, stmts, typeOk, cOk, uses>>

Leave ==
    /\ Going /\ pops # << >>
    /\ scopes' = SubSeq(scopes, 1, Len(scopes) - Last(pops))
    /\ blocks' = SubSeq(blocks, 1, Len(blocks) - Last(pops))
    /\ pops' = SubSeq(pops, 1, Len(pops) - 1)
    /\ UNCHANGED <<decls, stmts, typeOk, cOk, uses>>

Exprs == {s \in SUBSET Names : Cardinality(s) <= MaxUses}

Next == \/ \E x \in Locals, used \in Exprs : Let(x, used) \/ For(x, used)
        \/ \E used \in Exprs \ {{}} : Use(used)
        \/ \E used \in Exprs : Enter(used)
        \/ Leave

Spec == Init /\ [][Next]_vars

-----------------------------------------------------------------------------
\* docs/vex.md on the vex_ prefix: "The prefix is transparent to Vex code - you
\* always use the bare name."  Whatever the checker takes a name for, the C
\* compiler takes the emitted identifier for the same thing.
SameMeaning == (typeOk /\ cOk) => \A u \in uses : u.vex = u.c

\* Both chains agree on every local name at every point of an accepted body,
\* after any nesting, shadowing and leaving of blocks.
ChainsAgree ==
    (typeOk /\ cOk) => \A n \in Locals : Lookup(scopes, n) = Lookup(blocks, n)
=============================================================================
