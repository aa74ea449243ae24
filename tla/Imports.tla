-------------------------------- MODULE Imports -------------------------------
(***************************************************************************)
(* How vexc gathers one module from the files on its command line and the  *)
(* files they import: parse_files, parse_file and parse_module of          *)
(* vex/parser.py.  A file is its row of top-level declarations; the paths  *)
(* in them are already made absolute.  The recursion of parse_file is the  *)
(* variable `stack'.                                                       *)
(***************************************************************************)
EXTENDS Integers, Sequences, FiniteSets, SequencesExt

CONSTANTS Paths,      \* the absolute paths that may be named
          Idents,     \* the names that may be defined
          Programs    \* the programs to compile: records [cli, files] where
                      \* files maps the paths that can be opened to rows of
                      \* declarations

Import(p) == [kind |-> "import", path |-> p]
Def(n)    == [kind |-> "def", name |-> n]
Bad       == [kind |-> "bad"]           \* text that does not parse

Declarations == {Import(p) : p \in Paths} \cup {Def(n) : n \in Idents} \cup {Bad}

ASSUME ProgramsAssumption ==
    \A p \in Programs : /\ p.cli \in Seq(Paths)
                        /\ DOMAIN p.files \subseteq Paths
                        /\ \A f \in DOMAIN p.files : p.files[f] \in Seq(Declarations)

VARIABLES prog,       \* the program compiled
          args,       \* command-line paths not yet looked at
          parsed,     \* already_parsed
          stack,      \* files being parsed, outermost first: path, rest, defs
          merged,     \* the definitions of the merged module
          status,     \* "running", "done" or "failed"
          opened      \* ghost: how often each path was opened

vars == <<prog, args, parsed, stack, merged, status, opened>>

\* A definition is its name and the file it stands in.
Definition(n, p) == [name |-> n, path |-> p]
NamesOf(defs)    == {defs[i].name : i \in DOMAIN defs}

Init == /\ prog \in Programs
        /\ args = prog.cli
        /\ parsed = {} /\ stack = << >> /\ merged = << >>
        /\ status = "running"
        /\ opened = [p \in Paths |-> 0]

Running == status = "running"
Top     == stack[Len(stack)]

\* parse_file: a path that cannot be opened ends the compilation.
OpenFile(p, below) ==
    /\ opened' = [opened EXCEPT ![p] = @ + 1]
    /\ IF p \in DOMAIN prog.files
       THEN /\ stack' = Append(below, [path |-> p, rest |-> prog.files[p], defs |-> << >>])
            /\ UNCHANGED status
       ELSE /\ status' = "failed"
            /\ UNCHANGED stack

\* Mutant: the path is not noted before its file is parsed.
MarkLater(p) == UNCHANGED parsed

Mark(p) == parsed' = parsed \cup {p}

\* Mutant: a path that has been parsed is looked at again.
NextArgStays ==
    /\ Running /\ stack = << >> /\ args # << >>
    /\ IF Head(args) \in parsed
       THEN UNCHANGED <<args, parsed, stack, status, opened>>
       ELSE /\ args' = Tail(args)
            /\ Mark(Head(args))
            /\ OpenFile(Head(args), << >>)
    /\ UNCHANGED <<prog, merged>>

\* parse_files, the next path of the command line: one that has been parsed
\* already, as an import of an earlier one, is skipped.
NextArg ==
    /\ Running /\ stack = << >> /\ args # << >>
    /\ args' = Tail(args)
    /\ IF Head(args) \in parsed
       THEN UNCHANGED <<parsed, stack, status, opened>>
       ELSE /\ Mark(Head(args))
            /\ OpenFile(Head(args), << >>)
    /\ UNCHANGED <<prog, merged>>

Reading(kind) == Running /\ stack # << >> /\ Top.rest # << >> /\ Head(Top.rest).kind = kind

Advanced == [stack EXCEPT ![Len(stack)].rest = Tail(@)]

\* parse_module at an import of a .vex file: it is parsed at this very point,
\* unless it has been begun before.
ParseImport ==
    /\ Reading("import")
    /\ LET p == Head(Top.rest).path IN
       IF p \in parsed
       THEN stack' = Advanced /\ UNCHANGED <<parsed, status, opened>>
       ELSE /\ Mark(p)
            /\ OpenFile(p, Advanced)
    /\ UNCHANGED <<prog, args, merged>>

\* parse_module at a struct or a function.
ParseDef ==
    /\ Reading("def")
    /\ stack' = [Advanced EXCEPT ![Len(stack)].defs =
                    Append(@, Definition(Head(Top.rest).name, Top.path))]
    /\ UNCHANGED <<prog, args, parsed, merged, status, opened>>

\* Mutant: an import of a file that is being parsed is an error.
FailsOnCycle ==
    /\ \/ Reading("bad")
       \/ Reading("import") /\ \E i \in DOMAIN stack : stack[i].path = Head(Top.rest).path
    /\ status' = "failed"
    /\ UNCHANGED <<prog, args, parsed, stack, merged, opened>>

\* A ParseError or LexError goes through every caller to vexc.
ParseFails ==
    /\ Reading("bad")
    /\ status' = "failed"
    /\ UNCHANGED <<prog, args, parsed, stack, merged, opened>>

\* The end of an imported file: the importer takes its definitions over.
EndImport ==
    /\ Running /\ Len(stack) > 1 /\ Top.rest = << >>
    /\ stack' = [Front(stack) EXCEPT ![Len(stack) - 1].defs = @ \o Top.defs]
    /\ UNCHANGED <<prog, args, parsed, merged, status, opened>>

\* Mutant: a definition is merged without looking at its name.
KeptAlways(d) == Append(merged, d)

\* Mutant: a definition is put in front of the others.
KeptInFront(d) == IF d.name \in NamesOf(merged) THEN merged ELSE <<d>> \o merged

\* Of several definitions of a name the first is kept, whichever file it is in.
Kept(d) == IF d.name \in NamesOf(merged) THEN merged ELSE Append(merged, d)

\* The end of a file of the command line: its definitions, and those it took
\* over, are merged one by one ...
Merging == Running /\ Len(stack) = 1 /\ Top.rest = << >>

MergeDef ==
    /\ Merging /\ Top.defs # << >>
    /\ merged' = Kept(Head(Top.defs))
    /\ stack' = [stack EXCEPT ![1].defs = Tail(@)]
    /\ UNCHANGED <<prog, args, parsed, status, opened>>

\* ... and parse_files goes on to the next path.
EndArg ==
    /\ Merging /\ Top.defs = << >>
    /\ stack' = << >>
    /\ UNCHANGED <<prog, args, parsed, merged, status, opened>>

Finish ==
    /\ Running /\ stack = << >> /\ args = << >>
    /\ status' = "done"
    /\ UNCHANGED <<prog, args, parsed, stack, merged, opened>>

Next == NextArg \/ ParseImport \/ ParseDef \/ ParseFails \/ EndImport
          \/ MergeDef \/ EndArg \/ Finish

-----------------------------------------------------------------------------
Imports(p, q) == p \in DOMAIN prog.files /\ \E i \in DOMAIN prog.files[p] :
                                             prog.files[p][i] = Import(q)

\* The files a program consists of: those on the command line and those that
\* they import, at any distance.
Closed(S)  == \A p \in S, q \in Paths : Imports(p, q) => q \in S
IsReach(S) == /\ ToSet(prog.cli) \subseteq S /\ Closed(S)
              /\ \A T \in SUBSET S : (ToSet(prog.cli) \subseteq T /\ Closed(T)) => T = S
Reach      == CHOOSE S \in SUBSET Paths : IsReach(S)

DefNames(p) == {prog.files[p][i].name :
                  i \in {j \in DOMAIN prog.files[p] : prog.files[p][j].kind = "def"}}

\* No file is opened twice, however the imports cross: in diamonds, in cycles,
\* and when an imported file is also on the command line.
OpenedOnce == \A p \in Paths : opened[p] <= 1

\* A compilation that succeeds has opened the files of the program and no others.
OpensReach == status = "done" => \A p \in Paths : opened[p] = 1 <=> p \in Reach

\* A compilation that succeeds has, from exactly the program's files, every name
\* that any of them defines, once.
MergesAll ==
    /\ OpensReach
    /\ status = "done" =>
        /\ NamesOf(merged) = UNION {DefNames(p) : p \in Reach}
        /\ Cardinality(DOMAIN merged) = Cardinality(NamesOf(merged))

\* A compilation that fails has met a file of the program that cannot be opened
\* or parsed: no import graph makes it fail by itself.
FailsForAReason ==
    status = "failed" =>
        \E p \in Reach : p \notin DOMAIN prog.files \/ Bad \in ToSet(prog.files[p])

Acyclic == \A S \in (SUBSET Paths) \ {{}} : \E p \in S : \A q \in S : ~Imports(p, q)
OnlyAt(p, j) == \A q \in DOMAIN prog.files : \A k \in DOMAIN prog.files[q] :
                   prog.files[q][k] = prog.files[p][j] => q = p /\ k = j
IndexOf(n) == CHOOSE i \in DOMAIN merged : merged[i].name = n

\* Without cycles, all that an imported file defines stands before what follows
\* the import, as C needs it for structs held by value: before each name that is
\* defined there and nowhere else.
ImportsComeFirst ==
    (status = "done" /\ Acyclic) =>
        \A p \in Reach : \A i, j \in DOMAIN prog.files[p] :
            (i < j /\ prog.files[p][i].kind = "import" /\ prog.files[p][j].kind = "def" /\ OnlyAt(p, j)) =>
                \A n \in DefNames(prog.files[p][i].path) :
                    IndexOf(n) < IndexOf(prog.files[p][j].name)
=============================================================================
