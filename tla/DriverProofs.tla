----------------------------- MODULE DriverProofs ------------------------------
(***************************************************************************)
(* Theorems of Imports and Driver, for every set of paths and every set of *)
(* programs: what vexc opens and why it fails, and what it leaves behind.  *)
(***************************************************************************)
EXTENDS Driver, SequenceTheorems, FiniteSetTheorems, TLAPS

-----------------------------------------------------------------------------
(***************************************************************************)
(* The driver around the gathering.                                        *)
(***************************************************************************)
Codes == {0, 1, 130}

\* What each stage of main has done, and has not.
DriverInv ==
    /\ pc \in {"front", "checked", "generated", "writing", "made", "finally", "exited"}
    /\ code \in Codes
    /\ emit \in BOOLEAN
    /\ pc \notin {"finally", "exited"} => code = 0
    /\ pc \notin {"front", "exited"} => status = "done"
    /\ pc \in {"front", "checked", "generated"} => tmp = "none" /\ out = "old"
    /\ pc = "writing" => IF emit THEN tmp = "none" /\ out = "part" ELSE tmp = "part" /\ out = "old"
    /\ pc = "made" => tmp = "whole" /\ out = "old"
    /\ pc = "finally" => tmp = "whole" /\ (code = 0 => out = "new")
    /\ ExitCodeTells /\ TempRemoved

\* main begins with nothing done.
LEMMA DriverInit == DInit => DriverInv
BY DEF DInit, DriverInv, Codes, ExitCodeTells, TempRemoved, Exited

\* Every step of main keeps it.
LEMMA DriverNext == DriverInv /\ [DNext]_<<vars, dvars>> => DriverInv'
<1> SUFFICES ASSUME DriverInv, [DNext]_<<vars, dvars>> PROVE DriverInv'
  OBVIOUS
<1> USE DEF DriverInv, Codes, ExitCodeTells, TempRemoved, Exited, Go, Raise
<1>1. CASE Gather
  BY <1>1 DEF Gather, dvars
<1>2. CASE FrontFails
  BY <1>2 DEF FrontFails, vars
<1>3. CASE Typecheck
  BY <1>3 DEF Typecheck, vars
<1>4. CASE Generate
  BY <1>4 DEF Generate, vars
<1>5. CASE OpenOut
  BY <1>5 DEF OpenOut, vars
<1>6. CASE WriteOut
  BY <1>6 DEF WriteOut, vars
<1>7. CASE OpenOutFails
  BY <1>7 DEF OpenOutFails, vars
<1>8. CASE MakeTemp
  BY <1>8 DEF MakeTemp, vars
<1>9. CASE WriteTemp
  BY <1>9 DEF WriteTemp, vars
<1>10. CASE Gcc
  BY <1>10 DEF Gcc, vars
<1>11. CASE Unlink
  BY <1>11 DEF Unlink, vars
<1>12. CASE Interrupt
  BY <1>12 DEF Interrupt, vars
<1>13. CASE UNCHANGED <<vars, dvars>>
  BY <1>13 DEF vars, dvars
<1>14. QED
  BY <1>1, <1>2, <1>3, <1>4, <1>5, <1>6, <1>7, <1>8, <1>9, <1>10, <1>11, <1>12, <1>13
     DEF DNext, Step

\* Whatever the programs, the devices, gcc, os.unlink and Ctrl-C do: 0 means that
\* the output is the compiled text of the whole program and no file is left beside it.
THEOREM ExitCodeCorrect == DSpec => []ExitCodeTells
<1>1. DriverInv => ExitCodeTells
  BY DEF DriverInv
<1>2. QED
  BY <1>1, DriverInit, DriverNext, PTL DEF DSpec

\* The temporary file is gone in the end, but for a Ctrl-C, a device that refuses
\* its text and a system that refuses its removal; vexc ends with 0 in none of these.
THEOREM TempRemovedCorrect == DSpec => []TempRemoved
<1>1. DriverInv => TempRemoved
  BY DEF DriverInv
<1>2. QED
  BY <1>1, DriverInit, DriverNext, PTL DEF DSpec

\* An output and a temporary file are touched for a checked program only.
LEMMA StepKeepsOutput ==
    DriverInv /\ [DNext]_<<vars, dvars>> =>
        [out' # out \/ tmp' # tmp => status = "done" /\ pc \notin {"front", "checked"}]_<<vars, dvars>>
<1> SUFFICES ASSUME DriverInv, DNext, out' # out \/ tmp' # tmp
             PROVE  status = "done" /\ pc \notin {"front", "checked"}
  OBVIOUS
<1>1. ~Gather /\ ~FrontFails /\ ~Typecheck
  BY DEF Gather, FrontFails, Typecheck, dvars
<1>2. CASE pc = "exited"
  BY <1>2, <1>1 DEF DNext, Step, Generate, OpenOut, WriteOut, OpenOutFails, MakeTemp, WriteTemp,
                    Gcc, Unlink, Interrupt, Go, Raise
<1>3. CASE pc \in {"front", "checked"}
  BY <1>3, <1>1 DEF DNext, Step, Generate, OpenOut, WriteOut, OpenOutFails, MakeTemp, WriteTemp,
                    Gcc, Unlink, Interrupt, Go, Raise
<1>4. QED
  BY <1>2, <1>3 DEF DriverInv

\* A program with an error leaves the output of the last compilation as it was.
THEOREM OutputKeptCorrect == DSpec => OutputKept
BY DriverInit, DriverNext, StepKeepsOutput, PTL DEF DSpec, OutputKept

-----------------------------------------------------------------------------
(***************************************************************************)
(* The gathering.                                                          *)
(***************************************************************************)
Frames == [path : Paths, rest : Seq(Declarations), defs : Seq([name : Idents, path : Paths])]

GatherType ==
    /\ prog \in Programs
    /\ args \in Seq(Paths)
    /\ parsed \subseteq Paths
    /\ stack \in Seq(Frames)
    /\ status \in {"running", "done", "failed"}
    /\ opened = [p \in Paths |-> IF p \in parsed THEN 1 ELSE 0]

\* Of the driver's steps only parse_files moves the state of the gathering.
LEMMA OnlyGather == [DNext]_<<vars, dvars>> => [Next]_vars
BY DEF DNext, Step, Gather, FrontFails, Typecheck, Generate, OpenOut, WriteOut, OpenOutFails,
       MakeTemp, WriteTemp, Gcc, Unlink, Interrupt, vars

\* The gathering begins with nothing parsed.
LEMMA GatherInitType == DInit => GatherType
BY ProgramsAssumption DEF DInit, Init, GatherType

\* A declaration is one of its three kinds.
LEMMA Kinds3 ==
    ASSUME NEW d \in Declarations
    PROVE  /\ d.kind = "import" => d.path \in Paths /\ d = Import(d.path)
           /\ d.kind = "def" => d.name \in Idents /\ d = Def(d.name)
           /\ d.kind = "bad" => d = Bad
BY DEF Declarations, Import, Def, Bad

\* The file being parsed, and what remains of it.
LEMMA TopType ==
    ASSUME stack \in Seq(Frames), stack # << >>
    PROVE  /\ Len(stack) \in Nat \ {0}
           /\ Top \in Frames
           /\ Top.rest # << >> => /\ Head(Top.rest) \in Declarations
                                  /\ Tail(Top.rest) \in Seq(Declarations)
                                  /\ Len(Tail(Top.rest)) = Len(Top.rest) - 1
                                  /\ Len(Top.rest) \in Nat \ {0}
                                  /\ \A j \in 1 .. Len(Top.rest) - 1 : Tail(Top.rest)[j] = Top.rest[j + 1]
<1>1. Len(stack) \in Nat \ {0}
  BY EmptySeq
<1>2. Top \in Frames
  BY <1>1, ElementOfSeq DEF Top
<1>3. Top.rest \in Seq(Declarations)
  BY <1>2 DEF Frames
<1>4. ASSUME Top.rest # << >>
      PROVE  /\ Head(Top.rest) \in Declarations
             /\ Tail(Top.rest) \in Seq(Declarations)
             /\ Len(Tail(Top.rest)) = Len(Top.rest) - 1
             /\ Len(Top.rest) \in Nat \ {0}
             /\ \A j \in 1 .. Len(Top.rest) - 1 : Tail(Top.rest)[j] = Top.rest[j + 1]
  BY <1>3, <1>4, HeadTailProperties, EmptySeq
<1>5. QED
  BY <1>1, <1>2, <1>4

\* Reading a declaration shortens the row of the file being parsed.
LEMMA AdvancedType ==
    ASSUME stack \in Seq(Frames), stack # << >>, Top.rest # << >>
    PROVE  /\ Advanced \in Seq(Frames)
           /\ Len(Advanced) = Len(stack)
           /\ \A i \in 1 .. Len(stack) :
                 /\ Advanced[i].path = stack[i].path
                 /\ Advanced[i].rest = IF i = Len(stack) THEN Tail(Top.rest) ELSE stack[i].rest
                 /\ Advanced[i].defs = stack[i].defs
<1> DEFINE f == [Top EXCEPT !.rest = Tail(@)]
<1>1. Len(stack) \in 1 .. Len(stack) /\ Top \in Frames
  BY TopType
<1>2. f \in Frames
  BY <1>1, TopType DEF Frames
<1>3. DOMAIN stack = 1 .. Len(stack)
  BY LenProperties
<1>4. Advanced = [stack EXCEPT ![Len(stack)] = f]
  BY <1>1, <1>3 DEF Advanced, Top
<1>5. /\ Advanced \in Seq(Frames)
      /\ Len(Advanced) = Len(stack)
      /\ \A i \in 1 .. Len(stack) : Advanced[i] = IF i = Len(stack) THEN f ELSE stack[i]
  BY <1>1, <1>2, <1>4, ExceptSeq
<1>6. f.path = stack[Len(stack)].path /\ f.rest = Tail(Top.rest) /\ f.defs = stack[Len(stack)].defs
  BY <1>1 DEF Frames, Top
<1>7. QED
  BY <1>5, <1>6

\* Noting a definition changes the definitions of the file being parsed only.
LEMMA NoteDefType ==
    ASSUME stack \in Seq(Frames), stack # << >>, Top.rest # << >>, NEW d \in [name : Idents, path : Paths],
           NEW st, st = [Advanced EXCEPT ![Len(stack)].defs = Append(@, d)]
    PROVE  /\ st \in Seq(Frames)
           /\ Len(st) = Len(stack)
           /\ \A i \in 1 .. Len(stack) : st[i].path = stack[i].path /\ st[i].rest = Advanced[i].rest
           /\ \A i \in 1 .. Len(stack) : i # Len(stack) => st[i].defs = stack[i].defs
           /\ st[Len(stack)].defs = Append(stack[Len(stack)].defs, d)
<1> DEFINE n == Len(stack)
           f == [Advanced[n] EXCEPT !.defs = Append(@, d)]
<1>1. /\ n \in 1 .. n
      /\ Advanced \in Seq(Frames)
      /\ Len(Advanced) = n
      /\ Advanced[n] \in Frames
  BY TopType, AdvancedType, ElementOfSeq
<1>2. f \in Frames
  <2>1. Append(Advanced[n].defs, d) \in Seq([name : Idents, path : Paths])
    BY <1>1 DEF Frames
  <2>2. QED
    BY <1>1, <2>1 DEF Frames
<1>3. DOMAIN Advanced = 1 .. n
  BY <1>1, LenProperties
<1>4. st = [Advanced EXCEPT ![n] = f]
  BY <1>1, <1>3
<1>5. /\ st \in Seq(Frames)
      /\ Len(st) = n
      /\ \A i \in 1 .. n : st[i] = IF i = n THEN f ELSE Advanced[i]
  BY <1>1, <1>2, <1>4, ExceptSeq
<1>6. \A i \in 1 .. n : Advanced[i].path = stack[i].path /\ Advanced[i].defs = stack[i].defs
  BY AdvancedType
<1>7. f.path = Advanced[n].path /\ f.rest = Advanced[n].rest /\ f.defs = Append(Advanced[n].defs, d)
  BY <1>1 DEF Frames
<1> HIDE DEF f
<1>8. \A i \in 1 .. n : st[i].path = stack[i].path /\ st[i].rest = Advanced[i].rest
  BY <1>5, <1>6, <1>7
<1>9. \A i \in 1 .. n : i # n => st[i].defs = stack[i].defs
  BY <1>5, <1>6
<1>10. st[n].defs = Append(stack[n].defs, d)
  <2>1. n \in 1 .. n /\ st[n] = f
    BY <1>1, <1>5
  <2>2. Advanced[n].defs = stack[n].defs
    BY <1>6, <2>1
  <2>3. QED
    BY <1>7, <2>1, <2>2
<1>11. QED
  BY <1>5, <1>8, <1>9, <1>10

\* What reading a definition does to the files being parsed.
LEMMA ParseDefStack ==
    ASSUME stack \in Seq(Frames), ParseDef
    PROVE  /\ Definition(Head(Top.rest).name, Top.path) \in [name : Idents, path : Paths]
           /\ stack' \in Seq(Frames)
           /\ Len(stack') = Len(stack)
           /\ \A i \in 1 .. Len(stack) : stack'[i].path = stack[i].path /\ stack'[i].rest = Advanced[i].rest
           /\ \A i \in 1 .. Len(stack) : i # Len(stack) => stack'[i].defs = stack[i].defs
           /\ stack'[Len(stack)].defs = Append(stack[Len(stack)].defs, Definition(Head(Top.rest).name, Top.path))
<1> DEFINE d == Definition(Head(Top.rest).name, Top.path)
<1>1. stack # << >> /\ Top.rest # << >> /\ Head(Top.rest).kind = "def"
  BY DEF ParseDef, Reading
<1>2. d \in [name : Idents, path : Paths]
  BY <1>1, TopType, Kinds3 DEF Definition, Frames
<1>3. stack # << >> /\ Top.rest # << >> /\ stack' = [Advanced EXCEPT ![Len(stack)].defs = Append(@, d)]
  BY <1>1 DEF ParseDef
<1> HIDE DEF d
<1>4. /\ stack' \in Seq(Frames)
      /\ Len(stack') = Len(stack)
      /\ \A i \in 1 .. Len(stack) : stack'[i].path = stack[i].path /\ stack'[i].rest = Advanced[i].rest
      /\ \A i \in 1 .. Len(stack) : i # Len(stack) => stack'[i].defs = stack[i].defs
      /\ stack'[Len(stack)].defs = Append(stack[Len(stack)].defs, d)
  BY <1>2, <1>3, NoteDefType, Zenon
<1>5. QED
  BY <1>2, <1>4, Zenon DEF d

\* The importer goes on with what the import brought.
LEMMA EndImportType ==
    ASSUME stack \in Seq(Frames), Len(stack) > 1,
           NEW st, st = [Front(stack) EXCEPT ![Len(stack) - 1].defs = @ \o Top.defs]
    PROVE  /\ st \in Seq(Frames)
           /\ Len(st) = Len(stack) - 1
           /\ \A i \in 1 .. Len(stack) - 1 : st[i].path = stack[i].path /\ st[i].rest = stack[i].rest
           /\ \A i \in 1 .. Len(stack) - 1 :
                 st[i].defs = IF i = Len(stack) - 1 THEN stack[i].defs \o Top.defs ELSE stack[i].defs
<1> DEFINE n == Len(stack) - 1
           f == [Front(stack)[n] EXCEPT !.defs = @ \o Top.defs]
<1>0. Len(stack) \in Nat
  BY LenProperties
<1>1. n \in Nat \ {0} /\ n \in 1 .. n /\ Len(stack) \in Nat
  BY <1>0
<1>2. \A i \in 1 .. n : stack[i] \in Frames
  BY <1>1, ElementOfSeq
<1>3. /\ Front(stack) \in Seq(Frames)
      /\ Len(Front(stack)) = n
      /\ \A i \in 1 .. n : Front(stack)[i] = stack[i]
  <2>1. Front(stack) = SubSeq(stack, 1, n)
    BY DEF Front
  <2>2. QED
    BY <1>1, <1>2, <2>1, SubSeqProperties
<1>4. Top \in Frames
  BY <1>1, ElementOfSeq DEF Top
<1>5. f \in Frames
  <2>1. /\ Front(stack)[n].defs \in Seq([name : Idents, path : Paths])
        /\ Top.defs \in Seq([name : Idents, path : Paths])
    BY <1>1, <1>2, <1>3, <1>4 DEF Frames
  <2>2. Front(stack)[n].defs \o Top.defs \in Seq([name : Idents, path : Paths])
    BY <2>1, ConcatProperties
  <2>3. QED
    BY <1>1, <1>2, <1>3, <2>2 DEF Frames
<1>6. DOMAIN Front(stack) = 1 .. n
  BY <1>3, LenProperties
<1>7. st = [Front(stack) EXCEPT ![n] = f]
  BY <1>1, <1>6
<1>8. /\ st \in Seq(Frames)
      /\ Len(st) = n
      /\ \A i \in 1 .. n : st[i] = IF i = n THEN f ELSE stack[i]
  BY <1>1, <1>3, <1>5, <1>7, ExceptSeq
<1>9. f.path = stack[n].path /\ f.rest = stack[n].rest /\ f.defs = stack[n].defs \o Top.defs
  BY <1>1, <1>2, <1>3 DEF Frames
<1>10. QED
  <2>1. \A i \in 1 .. n : st[i].path = stack[i].path /\ st[i].rest = stack[i].rest
    BY <1>8, <1>9
  <2>2. ASSUME NEW i \in 1 .. n
        PROVE  st[i].defs = IF i = n THEN stack[i].defs \o Top.defs ELSE stack[i].defs
    <3> HIDE DEF f
    <3>1. CASE i = n
      BY <1>8, <1>9, <3>1
    <3>2. CASE i # n
      BY <1>8, <3>2
    <3>3. QED
      BY <3>1, <3>2
  <2>3. QED
    BY <1>8, <2>1, <2>2

\* Merging a definition takes it off the file that is merged.
LEMMA MergeDefType ==
    ASSUME stack \in Seq(Frames), Len(stack) = 1, Top.defs # << >>,
           NEW st, st = [stack EXCEPT ![1].defs = Tail(@)]
    PROVE  /\ st \in Seq(Frames)
           /\ Len(st) = 1
           /\ st[1].path = stack[1].path /\ st[1].rest = stack[1].rest
           /\ st[1].defs = Tail(stack[1].defs)
           /\ stack[1] \in Frames /\ Top = stack[1]
<1> DEFINE f == [stack[1] EXCEPT !.defs = Tail(@)]
<1>1. stack[1] \in Frames /\ Top = stack[1]
  BY ElementOfSeq DEF Top
<1>2. f \in Frames
  <2>1. stack[1].defs \in Seq([name : Idents, path : Paths]) /\ stack[1].defs # << >>
    BY <1>1 DEF Frames
  <2>2. Tail(stack[1].defs) \in Seq([name : Idents, path : Paths])
    BY <2>1, HeadTailProperties
  <2>3. QED
    BY <1>1, <2>2 DEF Frames
<1>3. DOMAIN stack = 1 .. Len(stack) /\ 1 \in 1 .. Len(stack)
  BY LenProperties
<1>4. st = [stack EXCEPT ![1] = f]
  BY <1>3
<1>5. st \in Seq(Frames) /\ Len(st) = 1 /\ st[1] = f
  BY <1>2, <1>3, <1>4, ExceptSeq
<1>6. f.path = stack[1].path /\ f.rest = stack[1].rest /\ f.defs = Tail(stack[1].defs)
  BY <1>1 DEF Frames
<1>7. QED
  BY <1>1, <1>5, <1>6

\* Opening a path that is noted keeps the types and the count.
LEMMA OpenType ==
    ASSUME GatherType, NEW p \in Paths, p \notin parsed, NEW below \in Seq(Frames),
           Mark(p), OpenFile(p, below), stack' = stack => stack \in Seq(Frames)
    PROVE  /\ parsed' \subseteq Paths
           /\ stack' \in Seq(Frames)
           /\ status' \in {status, "failed"}
           /\ opened' = [q \in Paths |-> IF q \in parsed' THEN 1 ELSE 0]
<1>1. parsed' = parsed \cup {p}
  BY DEF Mark
<1>2. opened' = [opened EXCEPT ![p] = @ + 1]
  BY DEF OpenFile
<1>3. opened' = [q \in Paths |-> IF q \in parsed' THEN 1 ELSE 0]
  BY <1>1, <1>2 DEF GatherType
<1>4. CASE p \in DOMAIN prog.files
  <2>1. prog.files[p] \in Seq(Declarations)
    BY <1>4, ProgramsAssumption DEF GatherType
  <2>2. [path |-> p, rest |-> prog.files[p], defs |-> << >>] \in Frames
    BY <2>1, EmptySeq DEF Frames
  <2>3. stack' \in Seq(Frames) /\ status' = status
    BY <1>4, <2>2 DEF OpenFile
  <2>4. QED
    BY <1>1, <1>3, <2>3 DEF GatherType
<1>5. CASE p \notin DOMAIN prog.files
  BY <1>1, <1>3, <1>5 DEF OpenFile, GatherType
<1>6. QED
  BY <1>4, <1>5

\* Every step of the gathering keeps its types, and opens a path only when it
\* notes it for the first time.
LEMMA GatherNextType == GatherType /\ [Next]_vars => GatherType'
<1> SUFFICES ASSUME GatherType, [Next]_vars PROVE GatherType'
  OBVIOUS
<1>1. CASE NextArg
  <2>1. /\ Head(args) \in Paths /\ Tail(args) \in Seq(Paths)
        /\ prog' = prog /\ args' = Tail(args)
    BY <1>1, HeadTailProperties DEF NextArg, GatherType
  <2>2. CASE Head(args) \in parsed
    BY <1>1, <2>1, <2>2 DEF NextArg, GatherType
  <2>3. CASE Head(args) \notin parsed
    <3>1. Mark(Head(args)) /\ OpenFile(Head(args), << >>) /\ << >> \in Seq(Frames)
      BY <1>1, <2>3, EmptySeq DEF NextArg
    <3>2. QED
      BY <2>1, <2>3, <3>1, OpenType DEF GatherType
  <2>4. QED
    BY <2>2, <2>3
<1>2. CASE ParseImport
  <2> DEFINE p == Head(Top.rest).path
  <2>1. stack # << >> /\ Top.rest # << >> /\ Head(Top.rest).kind = "import"
    BY <1>2 DEF ParseImport, Reading
  <2>2. p \in Paths /\ Advanced \in Seq(Frames)
    BY <2>1, TopType, Kinds3, AdvancedType DEF GatherType
  <2>3. prog' = prog /\ args' = args
    BY <1>2 DEF ParseImport
  <2>4. CASE p \in parsed
    BY <1>2, <2>2, <2>3, <2>4 DEF ParseImport, GatherType
  <2>5. CASE p \notin parsed
    <3>1. Mark(p) /\ OpenFile(p, Advanced)
      BY <1>2, <2>5 DEF ParseImport
    <3>2. QED
      BY <2>2, <2>3, <2>5, <3>1, OpenType DEF GatherType
  <2>6. QED
    BY <2>4, <2>5
<1>3. CASE ParseDef
  <2>1. stack' \in Seq(Frames)
    BY <1>3, ParseDefStack DEF GatherType
  <2>2. QED
    BY <1>3, <2>1 DEF ParseDef, GatherType
<1>4. CASE ParseFails
  BY <1>4 DEF ParseFails, GatherType
<1>5. CASE EndImport
  <2>1. stack' \in Seq(Frames)
    BY <1>5, EndImportType DEF EndImport, GatherType
  <2>2. QED
    BY <1>5, <2>1 DEF EndImport, GatherType
<1>6. CASE EndArg
  BY <1>6, EmptySeq DEF EndArg, GatherType
<1>7. CASE Finish
  BY <1>7 DEF Finish, GatherType
<1>8. CASE UNCHANGED vars
  BY <1>8 DEF vars, GatherType
<1>9. CASE MergeDef
  <2>1. stack' \in Seq(Frames)
    BY <1>9, MergeDefType DEF MergeDef, Merging, GatherType
  <2>2. QED
    BY <1>9, <2>1 DEF MergeDef, GatherType
<1>10. QED
  BY <1>1, <1>2, <1>3, <1>4, <1>5, <1>6, <1>7, <1>8, <1>9 DEF Next

\* No file is opened twice, in any import graph.
THEOREM OpenedOnceCorrect == DSpec => []OpenedOnce
<1>1. GatherType => OpenedOnce
  BY DEF GatherType, OpenedOnce
<1>2. QED
  BY <1>1, GatherInitType, OnlyGather, GatherNextType, PTL DEF DSpec

-----------------------------------------------------------------------------
(***************************************************************************)
(* What is opened, and why a compilation fails.                            *)
(***************************************************************************)
\* What every closed set of files with the command line has.
Reachable == {p \in Paths : \A S \in SUBSET Paths : (ToSet(prog.cli) \subseteq S /\ Closed(S)) => p \in S}

\* A file that is being parsed, and one of its imports that is still to come.
BeingRead(f) == /\ f.path \in Reachable /\ f.path \in DOMAIN prog.files
                /\ \A j \in 1 .. Len(f.rest) : f.rest[j] \in ToSet(prog.files[f.path])
Waits(f, p, q) == f.path = p /\ \E j \in 1 .. Len(f.rest) : f.rest[j] = Import(q)

Reason == \E p \in Reachable : p \notin DOMAIN prog.files \/ Bad \in ToSet(prog.files[p])

\* Nothing is opened that no file of the program leads to.
ReadInv == /\ \A j \in 1 .. Len(args) : args[j] \in ToSet(prog.cli)
           /\ parsed \subseteq Reachable
           /\ \A i \in 1 .. Len(stack) : BeingRead(stack[i])
           /\ status = "failed" => Reason

\* Nothing is forgotten.
WholeInv == /\ \A p \in ToSet(prog.cli) : p \in parsed \/ \E j \in 1 .. Len(args) : args[j] = p
            /\ status # "failed" => \A p \in parsed, q \in Paths :
                  Imports(p, q) => q \in parsed \/ \E i \in 1 .. Len(stack) : Waits(stack[i], p, q)
            /\ status = "done" => stack = << >> /\ args = << >>

\* The command line names paths.
LEMMA CliPaths == GatherType => ToSet(prog.cli) \subseteq Paths
<1> SUFFICES ASSUME GatherType PROVE ToSet(prog.cli) \subseteq Paths
  OBVIOUS
<1>1. prog.cli \in Seq(Paths)
  BY ProgramsAssumption DEF GatherType
<1>2. QED
  BY <1>1, LenProperties, ElementOfSeq DEF ToSet

\* The files of the command line are reachable, and what a reachable file imports.
LEMMA ReachableClosed ==
    ASSUME GatherType
    PROVE  /\ ToSet(prog.cli) \subseteq Reachable
           /\ Closed(Reachable)
<1>1. ToSet(prog.cli) \subseteq Reachable
  BY CliPaths DEF Reachable
<1>2. Closed(Reachable)
  <2> SUFFICES ASSUME NEW p \in Reachable, NEW q \in Paths, Imports(p, q) PROVE q \in Reachable
    BY DEF Closed
  <2>1. ASSUME NEW S \in SUBSET Paths, ToSet(prog.cli) \subseteq S, Closed(S) PROVE q \in S
    <3>1. p \in S
      BY <2>1 DEF Reachable
    <3>2. QED
      BY <2>1, <3>1 DEF Closed
  <2>2. QED
    BY <2>1 DEF Reachable
<1>3. QED
  BY <1>1, <1>2

\* The smallest closed set of files is what every closed set has.
LEMMA ReachIs == GatherType => Reach = Reachable
<1> SUFFICES ASSUME GatherType PROVE Reach = Reachable
  OBVIOUS
<1>1. Reachable \in SUBSET Paths
  BY DEF Reachable
<1>2. ASSUME NEW S \in SUBSET Paths, ToSet(prog.cli) \subseteq S, Closed(S) PROVE Reachable \subseteq S
  BY <1>2 DEF Reachable
<1>3. IsReach(Reachable)
  <2>1. ASSUME NEW S \in SUBSET Reachable, ToSet(prog.cli) \subseteq S, Closed(S) PROVE S = Reachable
    <3>1. S \in SUBSET Paths
      BY <1>1
    <3>2. QED
      BY <1>2, <2>1, <3>1
  <2>2. QED
    BY <2>1, ReachableClosed DEF IsReach
<1>4. ASSUME NEW S \in SUBSET Paths, IsReach(S) PROVE S = Reachable
  <2>1. Reachable \subseteq S
    BY <1>2, <1>4 DEF IsReach
  <2>2. QED
    BY <1>4, <2>1, ReachableClosed DEF IsReach
<1>5. QED
  BY <1>1, <1>3, <1>4 DEF Reach

\* Reading a declaration leaves all the others to read.
LEMMA AdvancedReads ==
    ASSUME GatherType, ReadInv, stack # << >>, Top.rest # << >>, NEW st, Len(st) = Len(stack),
           \A i \in 1 .. Len(stack) : st[i].path = stack[i].path /\ st[i].rest = Advanced[i].rest
    PROVE  /\ \A i \in 1 .. Len(st) : BeingRead(st[i])
           /\ \A i \in 1 .. Len(stack) : \A p, q \in Paths :
                 Waits(stack[i], p, q) => \/ Waits(st[i], p, q)
                                          \/ p = Top.path /\ Head(Top.rest) = Import(q)
           /\ Head(Top.rest) \in ToSet(prog.files[Top.path])
           /\ BeingRead(Top)
<1> DEFINE n == Len(stack)
<1>1. n \in Nat \ {0} /\ Top \in Frames /\ Top = stack[n]
  BY TopType DEF GatherType, Top
<1>2. BeingRead(Top)
  BY <1>1 DEF ReadInv
<1>3. Top.rest \in Seq(Declarations)
  BY <1>1 DEF Frames
<1>4. Head(Top.rest) = Top.rest[1]
  BY <1>3
<1>5. /\ Len(Tail(Top.rest)) = Len(Top.rest) - 1
      /\ Len(Top.rest) \in Nat \ {0}
      /\ \A j \in 1 .. Len(Top.rest) - 1 : Tail(Top.rest)[j] = Top.rest[j + 1]
  BY TopType DEF GatherType
<1>6. ASSUME NEW i \in 1 .. n, i # n PROVE st[i].rest = stack[i].rest
  BY <1>6, AdvancedType DEF GatherType
<1>7. st[n].rest = Tail(Top.rest)
  <2>1. n \in 1 .. n
    BY <1>1
  <2>2. QED
    BY <2>1, AdvancedType DEF GatherType
<1>8. \A i \in 1 .. n : BeingRead(st[i])
  <2>1. ASSUME NEW i \in 1 .. n, i # n PROVE BeingRead(st[i])
    BY <1>6, <2>1 DEF ReadInv, BeingRead
  <2>2. BeingRead(st[n])
    BY <1>1, <1>2, <1>5, <1>7 DEF BeingRead
  <2>3. QED
    BY <2>1, <2>2
<1>9. ASSUME NEW i \in 1 .. n, NEW p \in Paths, NEW q \in Paths, Waits(stack[i], p, q)
      PROVE  Waits(st[i], p, q) \/ (p = Top.path /\ Head(Top.rest) = Import(q))
  <2>1. CASE i # n
    BY <1>6, <1>9, <2>1 DEF Waits
  <2>2. CASE i = n
    <3>1. PICK j \in 1 .. Len(Top.rest) : Top.rest[j] = Import(q)
      BY <1>1, <1>9, <2>2 DEF Waits
    <3>2. CASE j = 1
      BY <1>1, <1>4, <1>9, <2>2, <3>1, <3>2 DEF Waits
    <3>3. CASE j # 1
      <4>1. j - 1 \in 1 .. Len(Tail(Top.rest)) /\ Tail(Top.rest)[j - 1] = Import(q)
        BY <1>5, <3>1, <3>3
      <4>2. QED
        BY <1>1, <1>7, <1>9, <2>2, <4>1 DEF Waits
    <3>4. QED
      BY <3>2, <3>3
  <2>3. QED
    BY <2>1, <2>2
<1>10. Head(Top.rest) \in ToSet(prog.files[Top.path])
  BY <1>2, <1>4, <1>5 DEF BeingRead
<1>11. QED
  BY <1>2, <1>8, <1>9, <1>10

\* Opening a file puts it on top of the files being parsed, with all its imports to
\* come, or ends the compilation for a reason.
LEMMA OpenReads ==
    ASSUME GatherType, GatherType', ReadInv, WholeInv, prog' = prog, status = "running",
           NEW p \in Reachable, Mark(p), NEW below \in Seq(Frames), OpenFile(p, below),
           stack' = stack \/ stack' = Append(below, [path |-> p, rest |-> prog.files[p], defs |-> << >>]),
           \A i \in 1 .. Len(below) : BeingRead(below[i]),
           \A q, r \in Paths : (q \in parsed /\ Imports(q, r) /\ r \notin parsed') =>
                                  \E i \in 1 .. Len(below) : Waits(below[i], q, r)
    PROVE  /\ parsed' \subseteq Reachable
           /\ \A i \in 1 .. Len(stack') : BeingRead(stack'[i])
           /\ status' = "failed" => Reason
           /\ status' # "failed" => \A q \in parsed', r \in Paths :
                 Imports(q, r) => r \in parsed' \/ \E i \in 1 .. Len(stack') : Waits(stack'[i], q, r)
           /\ status' # "done"
<1>1. parsed' = parsed \cup {p}
  BY DEF Mark
<1>2. parsed' \subseteq Reachable
  BY <1>1 DEF ReadInv
<1>3. CASE p \notin DOMAIN prog.files
  <2>1. stack' = stack /\ status' = "failed" /\ Reason
    BY <1>3 DEF OpenFile, Reason
  <2>2. QED
    BY <1>2, <2>1 DEF ReadInv
<1>4. CASE p \in DOMAIN prog.files
  <2> DEFINE f == [path |-> p, rest |-> prog.files[p], defs |-> << >>]
             n == Len(below)
  <2>1. prog.files[p] \in Seq(Declarations)
    BY <1>4, ProgramsAssumption DEF GatherType
  <2>2. DOMAIN prog.files[p] = 1 .. Len(prog.files[p])
    BY <2>1, LenProperties
  <2>3. f \in Frames
    BY <2>1, EmptySeq DEF Frames, Reachable
  <2>4. stack' = Append(below, f) /\ status' = status
    BY <1>4 DEF OpenFile
  <2>5. /\ Len(stack') = n + 1
        /\ n \in Nat
        /\ \A i \in 1 .. n : stack'[i] = below[i]
        /\ stack'[n + 1] = f
    BY <2>3, <2>4, LenProperties
  <2>6. BeingRead(f)
    BY <1>4, <2>2 DEF BeingRead, ToSet
  <2>7. \A i \in 1 .. Len(stack') : BeingRead(stack'[i])
    BY <2>5, <2>6
  <2>8. ASSUME NEW q \in parsed', NEW r \in Paths, Imports(q, r), r \notin parsed'
        PROVE  \E i \in 1 .. Len(stack') : Waits(stack'[i], q, r)
    <3>1. CASE q = p
      <4>1. PICK j \in 1 .. Len(prog.files[p]) : prog.files[p][j] = Import(r)
        BY <2>2, <2>8, <3>1 DEF Imports
      <4>2. Waits(f, q, r)
        BY <3>1, <4>1 DEF Waits
      <4>3. QED
        BY <2>5, <4>2
    <3>2. CASE q # p
      <4>1. q \in parsed /\ q \in Paths
        BY <1>1, <3>2 DEF GatherType
      <4>2. PICK i \in 1 .. n : Waits(below[i], q, r)
        BY <2>8, <4>1
      <4>3. i \in 1 .. Len(stack') /\ stack'[i] = below[i]
        BY <2>5
      <4>4. QED
        BY <4>2, <4>3
    <3>3. QED
      BY <3>1, <3>2
  <2>9. QED
    BY <1>2, <2>4, <2>7, <2>8
<1>5. QED
  BY <1>3, <1>4

\* At the start the files of the command line are all to read.
LEMMA ReadInit == DInit => ReadInv /\ WholeInv
<1> SUFFICES ASSUME DInit PROVE ReadInv /\ WholeInv
  OBVIOUS
<1>1. prog.cli \in Seq(Paths) /\ args = prog.cli
  BY ProgramsAssumption DEF DInit, Init
<1>2. DOMAIN prog.cli = 1 .. Len(prog.cli)
  BY <1>1, LenProperties
<1>3. parsed = {} /\ stack = << >> /\ status = "running"
  BY DEF DInit, Init
<1>4. Len(stack) = 0
  BY <1>3, EmptySeq
<1>5. QED
  BY <1>1, <1>2, <1>3, <1>4 DEF ReadInv, WholeInv, ToSet

\* The program never changes, and so neither does what it reaches.
LEMMA SameProgram ==
    ASSUME prog' = prog,
           \A j \in 1 .. Len(args') : args'[j] \in ToSet(prog.cli),
           parsed' \subseteq Reachable,
           \A i \in 1 .. Len(stack') : BeingRead(stack'[i]),
           status' = "failed" => Reason,
           \A p \in ToSet(prog.cli) : p \in parsed' \/ \E j \in 1 .. Len(args') : args'[j] = p,
           status' # "failed" => \A q \in parsed', r \in Paths :
               Imports(q, r) => r \in parsed' \/ \E i \in 1 .. Len(stack') : Waits(stack'[i], q, r),
           status' = "done" => stack' = << >> /\ args' = << >>
    PROVE  (ReadInv /\ WholeInv)'
<1>1. Reachable' = Reachable
  BY DEF Reachable, Closed, Imports
<1>2. Reason' = Reason
  BY <1>1 DEF Reason
<1>3. QED
  BY <1>1, <1>2 DEF ReadInv, WholeInv, BeingRead, Waits, Imports

\* Every step opens reachable files only, forgets none, and fails for a reason.
LEMMA ReadNext ==
    GatherType /\ GatherType' /\ ReadInv /\ WholeInv /\ [Next]_vars => (ReadInv /\ WholeInv)'
<1> SUFFICES ASSUME GatherType, GatherType', ReadInv, WholeInv, [Next]_vars
             PROVE  (ReadInv /\ WholeInv)'
  OBVIOUS
<1>1. CASE NextArg
  <2> DEFINE p == Head(args)
  <2>1. /\ Running /\ stack = << >> /\ args # << >> /\ args' = Tail(args) /\ prog' = prog
    BY <1>1 DEF NextArg
  <2>2. /\ Len(stack) = 0
        /\ Len(args) \in Nat \ {0} /\ p = args[1] /\ p \in Paths
        /\ Len(Tail(args)) = Len(args) - 1
        /\ \A j \in 1 .. Len(args) - 1 : Tail(args)[j] = args[j + 1]
    BY <2>1, EmptySeq, HeadTailProperties DEF GatherType
  <2>3. \A j \in 1 .. Len(args') : args'[j] \in ToSet(prog.cli)
    BY <2>1, <2>2 DEF ReadInv
  <2>4. p \in Reachable
    BY <2>2, ReachableClosed DEF ReadInv
  <2>5. p \in parsed' /\ parsed \subseteq parsed'
    BY <1>1 DEF NextArg, Mark
  <2>6. \A q \in ToSet(prog.cli) : q \in parsed' \/ \E j \in 1 .. Len(args') : args'[j] = q
    <3> SUFFICES ASSUME NEW q \in ToSet(prog.cli), q \notin parsed'
                 PROVE  \E j \in 1 .. Len(args') : args'[j] = q
      OBVIOUS
    <3>1. PICK j \in 1 .. Len(args) : args[j] = q
      BY <2>5 DEF WholeInv
    <3>2. j # 1
      BY <2>2, <2>5, <3>1
    <3>3. j - 1 \in 1 .. Len(args') /\ args'[j - 1] = q
      BY <2>1, <2>2, <3>1, <3>2
    <3>4. QED
      BY <3>3
  <2>7. CASE p \in parsed
    <3>1. UNCHANGED <<parsed, stack, status>>
      BY <1>1, <2>7 DEF NextArg
    <3>2. QED
      BY <2>1, <2>3, <2>6, <3>1, SameProgram DEF ReadInv, WholeInv, Running
  <2>8. CASE p \notin parsed
    <3>1. Mark(p) /\ OpenFile(p, << >>)
      BY <1>1, <2>8 DEF NextArg
    <3>2. /\ << >> \in Seq(Frames) /\ Len(<< >>) = 0
          /\ \A q, r \in Paths : (q \in parsed /\ Imports(q, r) /\ r \notin parsed') =>
                                    \E i \in 1 .. Len(<< >>) : Waits(<< >>[i], q, r)
      BY <2>1, <2>2, <2>5, EmptySeq DEF WholeInv, Running
    <3>3. stack' = stack \/ stack' = Append(<< >>, [path |-> p, rest |-> prog.files[p], defs |-> << >>])
      BY <3>1 DEF OpenFile
    <3>4. /\ parsed' \subseteq Reachable
          /\ \A i \in 1 .. Len(stack') : BeingRead(stack'[i])
          /\ status' = "failed" => Reason
          /\ status' # "failed" => \A q \in parsed', r \in Paths :
                Imports(q, r) => r \in parsed' \/ \E i \in 1 .. Len(stack') : Waits(stack'[i], q, r)
          /\ status' # "done"
      <4> DEFINE below == << >>
      <4>1. /\ below \in Seq(Frames) /\ Len(below) = 0
            /\ OpenFile(p, below)
            /\ stack' = stack \/ stack' = Append(below, [path |-> p, rest |-> prog.files[p], defs |-> << >>])
            /\ \A q, r \in Paths : ~(q \in parsed /\ Imports(q, r) /\ r \notin parsed')
        <5>1. \A q, r \in Paths : ~(q \in parsed /\ Imports(q, r) /\ r \notin parsed')
          BY <3>2
        <5>2. QED
          BY <3>1, <3>2, <3>3, <5>1
      <4> HIDE DEF below
      <4>2. \A i \in 1 .. Len(below) : BeingRead(below[i])
        BY <4>1
      <4>3. \A q, r \in Paths : (q \in parsed /\ Imports(q, r) /\ r \notin parsed') =>
                                    \E i \in 1 .. Len(below) : Waits(below[i], q, r)
        BY <4>1
      <4>4. prog' = prog /\ status = "running" /\ p \in Reachable /\ Mark(p)
        BY <2>1, <2>4, <3>1 DEF Running
      <4> HIDE DEF p
      <4>5. QED
        BY <4>1, <4>2, <4>3, <4>4, OpenReads
    <3>5. QED
      BY <2>1, <2>3, <2>6, <3>4, SameProgram
  <2>9. QED
    BY <2>7, <2>8
<1>2. CASE ParseImport
  <2> DEFINE p == Head(Top.rest).path
  <2>1. /\ Running /\ stack # << >> /\ Top.rest # << >> /\ Head(Top.rest).kind = "import"
        /\ prog' = prog /\ args' = args
    BY <1>2 DEF ParseImport, Reading
  <2>2. p \in Paths /\ Head(Top.rest) = Import(p)
    BY <2>1, TopType, Kinds3 DEF GatherType
  <2>3. /\ Advanced \in Seq(Frames) /\ Len(Advanced) = Len(stack)
        /\ \A i \in 1 .. Len(stack) : Advanced[i].path = stack[i].path
    BY <2>1, AdvancedType DEF GatherType
  <2>4. /\ \A i \in 1 .. Len(Advanced) : BeingRead(Advanced[i])
        /\ \A i \in 1 .. Len(stack) : \A q, r \in Paths :
              Waits(stack[i], q, r) => \/ Waits(Advanced[i], q, r)
                                       \/ q = Top.path /\ Head(Top.rest) = Import(r)
        /\ Head(Top.rest) \in ToSet(prog.files[Top.path])
        /\ BeingRead(Top)
    BY <2>1, <2>3, AdvancedReads
  <2>5. p \in parsed' /\ parsed \subseteq parsed'
    BY <1>2 DEF ParseImport, Mark
  <2>6. p \in Reachable
    <3>1. Imports(Top.path, p)
      BY <2>2, <2>4 DEF Imports, BeingRead, ToSet
    <3>2. QED
      BY <2>2, <2>4, <3>1, ReachableClosed DEF Closed, BeingRead
  <2>7. ASSUME NEW q \in Paths, NEW r \in Paths, q \in parsed, Imports(q, r), r \notin parsed'
        PROVE  \E i \in 1 .. Len(Advanced) : Waits(Advanced[i], q, r)
    <3>1. PICK i \in 1 .. Len(stack) : Waits(stack[i], q, r)
      BY <2>1, <2>5, <2>7 DEF WholeInv, Running
    <3>2. r # p
      BY <2>5, <2>7
    <3>3. Head(Top.rest) # Import(r)
      BY <2>2, <3>2 DEF Import
    <3>4. QED
      BY <2>3, <2>4, <3>1, <3>3
  <2>8. \A q \in ToSet(prog.cli) : q \in parsed' \/ \E j \in 1 .. Len(args') : args'[j] = q
    BY <2>1, <2>5 DEF WholeInv
  <2>9. \A j \in 1 .. Len(args') : args'[j] \in ToSet(prog.cli)
    BY <2>1 DEF ReadInv
  <2>10. CASE p \in parsed
    <3>1. stack' = Advanced /\ UNCHANGED <<parsed, status>>
      BY <1>2, <2>10 DEF ParseImport
    <3>2. /\ \A i \in 1 .. Len(stack') : BeingRead(stack'[i])
          /\ \A q \in parsed', r \in Paths :
                Imports(q, r) => r \in parsed' \/ \E i \in 1 .. Len(stack') : Waits(stack'[i], q, r)
      BY <2>4, <2>7, <3>1 DEF GatherType
    <3>3. status' = "running" /\ parsed' \subseteq Reachable
      BY <2>1, <3>1 DEF Running, ReadInv
    <3>4. QED
      BY <2>1, <2>8, <2>9, <3>2, <3>3, SameProgram
  <2>11. CASE p \notin parsed
    <3>1. Mark(p) /\ OpenFile(p, Advanced)
      BY <1>2, <2>11 DEF ParseImport
    <3>2. stack' = stack \/ stack' = Append(Advanced, [path |-> p, rest |-> prog.files[p], defs |-> << >>])
      BY <3>1 DEF OpenFile
    <3>3. /\ parsed' \subseteq Reachable
          /\ \A i \in 1 .. Len(stack') : BeingRead(stack'[i])
          /\ status' = "failed" => Reason
          /\ status' # "failed" => \A q \in parsed', r \in Paths :
                Imports(q, r) => r \in parsed' \/ \E i \in 1 .. Len(stack') : Waits(stack'[i], q, r)
          /\ status' # "done"
      BY <2>1, <2>3, <2>4, <2>6, <2>7, <3>1, <3>2, OpenReads DEF Running
    <3>4. QED
      BY <2>1, <2>8, <2>9, <3>3, SameProgram
  <2>12. QED
    BY <2>10, <2>11
<1>3. CASE ParseDef
  <2>1. /\ Running /\ stack # << >> /\ Top.rest # << >> /\ Head(Top.rest).kind = "def"
        /\ UNCHANGED <<prog, args, parsed, status>>
    BY <1>3 DEF ParseDef, Reading
  <2>2. /\ Len(stack') = Len(stack)
        /\ \A i \in 1 .. Len(stack) : stack'[i].path = stack[i].path /\ stack'[i].rest = Advanced[i].rest
    BY <1>3, ParseDefStack DEF GatherType
  <2>4. /\ \A i \in 1 .. Len(stack') : BeingRead(stack'[i])
        /\ \A i \in 1 .. Len(stack) : \A q, r \in Paths :
              Waits(stack[i], q, r) => \/ Waits(stack'[i], q, r)
                                       \/ q = Top.path /\ Head(Top.rest) = Import(r)
    BY <2>1, <2>2, AdvancedReads
  <2>5. \A r \in Paths : Head(Top.rest) # Import(r)
    BY <2>1 DEF Import
  <2>6. \A q \in parsed', r \in Paths :
           Imports(q, r) => r \in parsed' \/ \E i \in 1 .. Len(stack') : Waits(stack'[i], q, r)
    BY <2>1, <2>2, <2>4, <2>5 DEF WholeInv, GatherType, Running
  <2>7. QED
    BY <2>1, <2>4, <2>6, SameProgram DEF ReadInv, WholeInv, Running
<1>4. CASE ParseFails
  <2>1. /\ stack # << >> /\ Top.rest # << >> /\ Head(Top.rest).kind = "bad"
        /\ status' = "failed" /\ UNCHANGED <<prog, args, parsed, stack>>
    BY <1>4 DEF ParseFails, Reading
  <2>2. Head(Top.rest) = Bad
    BY <2>1, TopType, Kinds3 DEF GatherType
  <2>3. Head(Top.rest) \in ToSet(prog.files[Top.path]) /\ BeingRead(Top)
    <3>1. /\ Len(Advanced) = Len(stack)
          /\ \A i \in 1 .. Len(stack) : Advanced[i].path = stack[i].path
      BY <2>1, AdvancedType DEF GatherType
    <3>2. QED
      BY <2>1, <3>1, AdvancedReads
  <2>4. Reason
    BY <2>2, <2>3 DEF Reason, BeingRead
  <2>5. QED
    BY <2>1, <2>4, SameProgram DEF ReadInv, WholeInv
<1>5. CASE EndImport
  <2>1. /\ Running /\ Len(stack) > 1 /\ Top.rest = << >>
        /\ UNCHANGED <<prog, args, parsed, status>>
    BY <1>5 DEF EndImport
  <2>2. /\ Len(stack') = Len(stack) - 1
        /\ \A i \in 1 .. Len(stack) - 1 : stack'[i].path = stack[i].path /\ stack'[i].rest = stack[i].rest
    BY <1>5, <2>1, EndImportType DEF EndImport, GatherType
  <2>3. Len(stack) \in Nat
    BY LenProperties DEF GatherType
  <2>4. \A i \in 1 .. Len(stack') : BeingRead(stack'[i])
    <3> SUFFICES ASSUME NEW i \in 1 .. Len(stack') PROVE BeingRead(stack'[i])
      OBVIOUS
    <3>1. i \in 1 .. Len(stack) /\ stack'[i].path = stack[i].path /\ stack'[i].rest = stack[i].rest
      BY <2>2, <2>3
    <3>2. QED
      BY <3>1 DEF ReadInv, BeingRead
  <2>5. \A q, r : ~Waits(stack[Len(stack)], q, r)
    BY <2>1, EmptySeq DEF Waits, Top
  <2>6. ASSUME NEW q \in parsed', NEW r \in Paths, Imports(q, r), r \notin parsed'
        PROVE  \E i \in 1 .. Len(stack') : Waits(stack'[i], q, r)
    <3>1. PICK i \in 1 .. Len(stack) : Waits(stack[i], q, r)
      BY <2>1, <2>6 DEF WholeInv, Running
    <3>2. i \in 1 .. Len(stack')
      BY <2>2, <2>3, <2>5, <3>1
    <3>3. Waits(stack'[i], q, r)
      BY <2>2, <2>3, <3>1, <3>2 DEF Waits
    <3>4. QED
      BY <3>2, <3>3
  <2>7. QED
    BY <2>1, <2>4, <2>6, SameProgram DEF ReadInv, WholeInv, Running
<1>6. CASE EndArg
  <2>1. /\ Running /\ Len(stack) = 1 /\ Top.rest = << >> /\ stack' = << >>
        /\ UNCHANGED <<prog, args, parsed, status>>
    BY <1>6 DEF EndArg, Merging
  <2>2. Len(stack') = 0
    BY <2>1, EmptySeq
  <2>3. \A i \in 1 .. Len(stack) : \A q, r : ~Waits(stack[i], q, r)
    BY <2>1, EmptySeq DEF Waits, Top
  <2>4. \A q \in parsed', r \in Paths :
           Imports(q, r) => r \in parsed' \/ \E i \in 1 .. Len(stack') : Waits(stack'[i], q, r)
    BY <2>1, <2>3 DEF WholeInv, Running
  <2>5. QED
    BY <2>1, <2>2, <2>4, SameProgram DEF ReadInv, WholeInv, Running
<1>7. CASE Finish
  <2>1. /\ Running /\ stack = << >> /\ args = << >> /\ status' = "done"
        /\ UNCHANGED <<prog, args, parsed, stack>>
    BY <1>7 DEF Finish
  <2>2. QED
    BY <2>1, SameProgram DEF ReadInv, WholeInv, Running
<1>8. CASE UNCHANGED vars
  BY <1>8, SameProgram DEF vars, ReadInv, WholeInv
<1>9. CASE MergeDef
  <2>1. /\ Running /\ Len(stack) = 1 /\ Top.defs # << >>
        /\ UNCHANGED <<prog, args, parsed, status>>
    BY <1>9 DEF MergeDef, Merging
  <2>2. Len(stack') = 1 /\ stack'[1].path = stack[1].path /\ stack'[1].rest = stack[1].rest
    BY <1>9, <2>1, MergeDefType DEF MergeDef, GatherType
  <2>3. \A i \in 1 .. Len(stack') : BeingRead(stack'[i])
    BY <2>1, <2>2 DEF ReadInv, BeingRead
  <2>4. \A q \in parsed', r \in Paths :
           Imports(q, r) => r \in parsed' \/ \E i \in 1 .. Len(stack') : Waits(stack'[i], q, r)
    BY <2>1, <2>2 DEF WholeInv, Running, Waits
  <2>5. /\ \A j \in 1 .. Len(args') : args'[j] \in ToSet(prog.cli)
        /\ parsed' \subseteq Reachable
        /\ status' = "running"
        /\ \A p \in ToSet(prog.cli) : p \in parsed' \/ \E j \in 1 .. Len(args') : args'[j] = p
    BY <2>1 DEF ReadInv, WholeInv, Running
  <2>6. QED
    BY <2>1, <2>3, <2>4, <2>5, SameProgram
<1>10. QED
  BY <1>1, <1>2, <1>3, <1>4, <1>5, <1>6, <1>7, <1>8, <1>9 DEF Next

\* The invariants of the gathering hold under the driver.
LEMMA Gathers == DSpec => [](GatherType /\ ReadInv /\ WholeInv)
BY GatherInitType, ReadInit, OnlyGather, GatherNextType, ReadNext, PTL DEF DSpec

\* In any import graph, a compilation fails at a file of the program that cannot
\* be opened or parsed, and at nothing else.
THEOREM FailsForAReasonCorrect == DSpec => []FailsForAReason
<1>1. GatherType /\ ReadInv => FailsForAReason
  BY ReachIs DEF ReadInv, Reason, FailsForAReason
<1>2. QED
  BY <1>1, Gathers, PTL

\* When nothing is left to read, the files begun are those of the program.
LEMMA AllParsed ==
    ASSUME GatherType, ReadInv, WholeInv, status = "done"
    PROVE  parsed = Reach
<1>1. Len(stack) = 0 /\ Len(args) = 0
  BY EmptySeq DEF WholeInv
<1>2. ToSet(prog.cli) \subseteq parsed
  BY <1>1 DEF WholeInv
<1>3. Closed(parsed)
  BY <1>1 DEF WholeInv, Closed
<1>4. Reachable \subseteq parsed
  BY <1>2, <1>3 DEF Reachable, GatherType
<1>5. QED
  BY <1>4, ReachIs DEF ReadInv

\* And each of them was opened.
LEMMA OpensAll == GatherType /\ ReadInv /\ WholeInv => OpensReach
BY AllParsed DEF GatherType, OpensReach

\* In any import graph, a compilation that succeeds has opened the files of the
\* program, all of them and no others.
THEOREM OpensReachCorrect == DSpec => []OpensReach
BY Gathers, OpensAll, PTL

-----------------------------------------------------------------------------
(***************************************************************************)
(* What is merged.                                                         *)
(***************************************************************************)
Named == [name : Idents, path : Paths]

\* A name that a file being parsed has noted, or has still to come to.
Noted(f, n)   == \E k \in 1 .. Len(f.defs) : f.defs[k].name = n
Carries(f, n) == Noted(f, n) \/ \E j \in 1 .. Len(f.rest) : f.rest[j] = Def(n)
Underway(n)   == \E i \in 1 .. Len(stack) : Carries(stack[i], n)

\* A name that a file begun so far defines.
Known(n) == \E p \in parsed : p \in DOMAIN prog.files /\ n \in DefNames(p)

OncePerName(defs) == \A i, j \in 1 .. Len(defs) : defs[i].name = defs[j].name => i = j

\* A name is merged once, comes from a file that was parsed, and none is lost
\* on its way there.
MergeInv ==
    /\ merged \in Seq(Named) /\ OncePerName(merged)
    /\ \A n \in NamesOf(merged) : Known(n)
    /\ \A i \in 1 .. Len(stack) : /\ stack[i].path \in parsed
                                  /\ \A n : Noted(stack[i], n) => Known(n)
    /\ status # "failed" => \A p \in parsed : \A n \in DefNames(p) : n \in NamesOf(merged) \/ Underway(n)

\* The names a file defines are those of its definitions.
LEMMA DefNamesIs ==
    ASSUME GatherType, NEW p \in DOMAIN prog.files, NEW n
    PROVE  /\ prog.files[p] \in Seq(Declarations)
           /\ DOMAIN prog.files[p] = 1 .. Len(prog.files[p])
           /\ n \in DefNames(p) <=> \E i \in 1 .. Len(prog.files[p]) : prog.files[p][i] = Def(n)
<1>1. prog.files[p] \in Seq(Declarations)
  BY ProgramsAssumption DEF GatherType
<1>2. DOMAIN prog.files[p] = 1 .. Len(prog.files[p])
  BY <1>1, LenProperties
<1>3. ASSUME n \in DefNames(p) PROVE \E i \in 1 .. Len(prog.files[p]) : prog.files[p][i] = Def(n)
  <2>1. PICK i \in DOMAIN prog.files[p] : prog.files[p][i].kind = "def" /\ prog.files[p][i].name = n
    BY <1>3 DEF DefNames
  <2>2. prog.files[p][i] \in Declarations
    BY <1>1, <1>2, <2>1, ElementOfSeq
  <2>3. prog.files[p][i] = Def(n)
    BY <2>1, <2>2, Kinds3
  <2>4. QED
    BY <1>2, <2>3
<1>4. ASSUME NEW i \in 1 .. Len(prog.files[p]), prog.files[p][i] = Def(n) PROVE n \in DefNames(p)
  <2>1. prog.files[p][i].kind = "def" /\ prog.files[p][i].name = n
    BY <1>4 DEF Def
  <2>2. QED
    BY <1>2, <2>1 DEF DefNames
<1>5. QED
  BY <1>1, <1>2, <1>3, <1>4

\* A definition is kept if it is the first of its name.
LEMMA KeptIs ==
    ASSUME merged \in Seq(Named), OncePerName(merged), NEW d \in Named
    PROVE  /\ Kept(d) \in Seq(Named)
           /\ OncePerName(Kept(d))
           /\ NamesOf(Kept(d)) = NamesOf(merged) \cup {d.name}
<1>1. DOMAIN merged = 1 .. Len(merged) /\ Len(merged) \in Nat
  BY LenProperties
<1>2. CASE d.name \in NamesOf(merged)
  BY <1>2 DEF Kept
<1>3. CASE d.name \notin NamesOf(merged)
  <2> DEFINE new == Append(merged, d)
             n   == Len(merged)
  <2>1. Kept(d) = new
    BY <1>3 DEF Kept
  <2>2. /\ new \in Seq(Named)
        /\ Len(new) = n + 1
        /\ \A i \in 1 .. n : new[i] = merged[i]
        /\ new[n + 1] = d
    BY AppendProperties
  <2>3. DOMAIN new = 1 .. n + 1
    BY <2>2, LenProperties
  <2> HIDE DEF new
  <2>4. \A i \in 1 .. n : merged[i].name # d.name
    BY <1>1, <1>3 DEF NamesOf
  <2>5. OncePerName(new)
    BY <1>1, <2>2, <2>4 DEF OncePerName
  <2>6. NamesOf(new) = NamesOf(merged) \cup {d.name}
    <3>1. NamesOf(new) \subseteq NamesOf(merged) \cup {d.name}
      BY <1>1, <2>2, <2>3 DEF NamesOf
    <3>2. NamesOf(merged) \subseteq NamesOf(new)
      BY <1>1, <2>2, <2>3 DEF NamesOf
    <3>3. d.name \in NamesOf(new)
      BY <1>1, <2>2, <2>3 DEF NamesOf
    <3>4. QED
      BY <3>1, <3>2, <3>3
  <2>7. QED
    BY <2>1, <2>2, <2>5, <2>6
<1>4. QED
  BY <1>2, <1>3

\* Names that were known remain so, as the program is the same.
LEMMA KnownStays ==
    ASSUME prog' = prog, parsed \subseteq parsed'
    PROVE  /\ \A n : Known(n) => Known(n)'
           /\ \A p : DefNames(p)' = DefNames(p)
BY DEF Known, DefNames

\* What a file being parsed still has to come to is known.
LEMMA RestKnown ==
    ASSUME GatherType, ReadInv, MergeInv, NEW i \in 1 .. Len(stack), NEW n,
           \E j \in 1 .. Len(stack[i].rest) : stack[i].rest[j] = Def(n)
    PROVE  Known(n)
<1>1. BeingRead(stack[i]) /\ stack[i].path \in parsed
  BY DEF ReadInv, MergeInv
<1>2. PICK j \in 1 .. Len(stack[i].rest) : stack[i].rest[j] = Def(n)
  OBVIOUS
<1>3. stack[i].path \in DOMAIN prog.files /\ Def(n) \in ToSet(prog.files[stack[i].path])
  BY <1>1, <1>2 DEF BeingRead
<1>4. n \in DefNames(stack[i].path)
  BY <1>3, DefNamesIs DEF ToSet
<1>5. QED
  BY <1>1, <1>3, <1>4 DEF Known

\* Reading a declaration loses no name but the one it defines.
LEMMA AdvancedMerges ==
    ASSUME GatherType, stack # << >>, Top.rest # << >>, NEW st, Len(st) = Len(stack),
           \A i \in 1 .. Len(stack) : st[i].rest = Advanced[i].rest,
           \A i \in 1 .. Len(stack) : \A n : Noted(stack[i], n) => Noted(st[i], n),
           NEW i \in 1 .. Len(stack), NEW n, Carries(stack[i], n)
    PROVE  Carries(st[i], n) \/ (i = Len(stack) /\ Head(Top.rest) = Def(n))
<1>1. CASE Noted(stack[i], n)
  BY <1>1 DEF Carries
<1>2. CASE \E j \in 1 .. Len(stack[i].rest) : stack[i].rest[j] = Def(n)
  <2>1. CASE i # Len(stack)
    <3>1. st[i].rest = stack[i].rest
      BY <2>1, AdvancedType DEF GatherType
    <3>2. QED
      BY <1>2, <3>1 DEF Carries
  <2>2. CASE i = Len(stack)
    <3>1. st[i].rest = Tail(Top.rest) /\ stack[i] = Top
      BY <2>2, AdvancedType DEF GatherType, Top
    <3>2. /\ Len(Tail(Top.rest)) = Len(Top.rest) - 1
          /\ Len(Top.rest) \in Nat \ {0}
          /\ \A j \in 1 .. Len(Top.rest) - 1 : Tail(Top.rest)[j] = Top.rest[j + 1]
          /\ Top \in Frames
      BY TopType DEF GatherType
    <3>3. Head(Top.rest) = Top.rest[1]
      BY <3>2 DEF Frames
    <3>4. PICK j \in 1 .. Len(Top.rest) : Top.rest[j] = Def(n)
      BY <1>2, <3>1
    <3>5. CASE j = 1
      BY <2>2, <3>3, <3>4, <3>5
    <3>6. CASE j # 1
      <4>1. j - 1 \in 1 .. Len(Tail(Top.rest)) /\ Tail(Top.rest)[j - 1] = Def(n)
        BY <3>2, <3>4, <3>6
      <4>2. QED
        BY <3>1, <4>1 DEF Carries
    <3>7. QED
      BY <3>5, <3>6
  <2>3. QED
    BY <2>1, <2>2
<1>3. QED
  BY <1>1, <1>2 DEF Carries

\* Opening a file brings all its names, or ends the compilation.
LEMMA OpenMerges ==
    ASSUME GatherType, MergeInv, prog' = prog, merged' = merged, status = "running",
           NEW p \in Paths, Mark(p), NEW below \in Seq(Frames), OpenFile(p, below),
           stack' = stack \/ stack' = Append(below, [path |-> p, rest |-> prog.files[p], defs |-> << >>]),
           \A i \in 1 .. Len(below) : /\ below[i].path \in parsed
                                      /\ \A n : Noted(below[i], n) => Known(n),
           \A q \in parsed : \A n \in DefNames(q) :
               n \in NamesOf(merged) \/ \E i \in 1 .. Len(below) : Carries(below[i], n)
    PROVE  MergeInv'
<1>1. parsed' = parsed \cup {p}
  BY DEF Mark
<1>2. /\ \A n : Known(n) => Known(n)'
      /\ \A q : DefNames(q)' = DefNames(q)
  BY <1>1, KnownStays
<1>3. /\ merged' \in Seq(Named) /\ OncePerName(merged')
      /\ NamesOf(merged)' = NamesOf(merged)
      /\ \A n \in NamesOf(merged') : Known(n)'
  BY <1>2 DEF MergeInv, NamesOf
<1>4. CASE p \notin DOMAIN prog.files
  <2>1. stack' = stack /\ status' = "failed"
    BY <1>4 DEF OpenFile
  <2>2. \A i \in 1 .. Len(stack') : stack'[i].path \in parsed' /\ \A n : Noted(stack'[i], n) => Known(n)'
    BY <1>1, <1>2, <2>1 DEF MergeInv
  <2>3. QED
    BY <1>3, <2>1, <2>2 DEF MergeInv, OncePerName, Noted
<1>5. CASE p \in DOMAIN prog.files
  <2> DEFINE f == [path |-> p, rest |-> prog.files[p], defs |-> << >>]
             k == Len(below)
  <2>1. prog.files[p] \in Seq(Declarations)
    BY <1>5, ProgramsAssumption DEF GatherType
  <2>2. f \in Frames
    BY <2>1, EmptySeq DEF Frames
  <2>3. stack' = Append(below, f) /\ status' = status
    BY <1>5 DEF OpenFile
  <2>4. /\ Len(stack') = k + 1
        /\ k \in Nat
        /\ \A i \in 1 .. k : stack'[i] = below[i]
        /\ stack'[k + 1] = f
    BY <2>2, <2>3, LenProperties
  <2>5. Len(<< >>) = 0
    BY EmptySeq
  <2>6. \A n : ~Noted(f, n)
    BY <2>5 DEF Noted
  <2>7. \A i \in 1 .. Len(stack') : stack'[i].path \in parsed' /\ \A n : Noted(stack'[i], n) => Known(n)'
    BY <1>1, <1>2, <2>4, <2>6
  <2>8. ASSUME NEW q \in parsed', NEW n \in DefNames(q)
        PROVE  n \in NamesOf(merged') \/ \E i \in 1 .. Len(stack') : Carries(stack'[i], n)
    <3>1. CASE q = p
      <4>1. \E i \in 1 .. Len(prog.files[p]) : prog.files[p][i] = Def(n)
        BY <1>5, <2>8, <3>1, DefNamesIs
      <4>2. Carries(f, n)
        BY <4>1 DEF Carries
      <4>3. QED
        BY <2>4, <4>2
    <3>2. CASE q # p
      <4>1. q \in parsed
        BY <1>1, <3>2
      <4>2. CASE n \in NamesOf(merged)
        BY <4>2
      <4>3. CASE n \notin NamesOf(merged)
        <5>1. PICK i \in 1 .. k : Carries(below[i], n)
          BY <4>1, <4>3
        <5>2. i \in 1 .. Len(stack') /\ stack'[i] = below[i]
          BY <2>4
        <5>3. QED
          BY <5>1, <5>2
      <4>4. QED
        BY <4>2, <4>3
    <3>3. QED
      BY <3>1, <3>2
  <2> HIDE DEF f
  <2>9. QED
    BY <1>2, <1>3, <2>7, <2>8 DEF MergeInv, Underway, Carries, Noted, OncePerName
<1>6. QED
  BY <1>4, <1>5

\* At the start no name is known.
LEMMA MergeInit == DInit => MergeInv
<1> SUFFICES ASSUME DInit PROVE MergeInv
  OBVIOUS
<1>1. merged = << >> /\ stack = << >> /\ parsed = {}
  BY DEF DInit, Init
<1>2. /\ << >> \in Seq(Named) /\ Len(<< >>) = 0
      /\ \A n : n \notin NamesOf(<< >>)
  <2>1. << >> \in Seq(Named) /\ Len(<< >>) = 0
    BY EmptySeq
  <2>2. QED
    BY <2>1 DEF NamesOf
<1>3. QED
  BY <1>1, <1>2 DEF MergeInv, OncePerName

\* A step that opens no file and merges nothing: what was on its way still is.
LEMMA MovedMerges ==
    ASSUME MergeInv, UNCHANGED <<prog, parsed, merged>>, status' # "failed" => status # "failed",
           \A i \in 1 .. Len(stack') : /\ stack'[i].path \in parsed
                                       /\ \A n : Noted(stack'[i], n) => Known(n),
           \A n : Underway(n) => \E i \in 1 .. Len(stack') : Carries(stack'[i], n)
    PROVE  MergeInv'
<1>1. /\ \A n : Known(n) => Known(n)'
      /\ \A q : DefNames(q)' = DefNames(q)
  BY KnownStays
<1>2. /\ merged' \in Seq(Named) /\ OncePerName(merged')
      /\ NamesOf(merged)' = NamesOf(merged)
      /\ \A n \in NamesOf(merged') : Known(n)'
  BY <1>1 DEF MergeInv, NamesOf
<1>3. \A i \in 1 .. Len(stack') : stack'[i].path \in parsed' /\ \A n : Noted(stack'[i], n) => Known(n)'
  BY <1>1
<1>4. status' # "failed" =>
        \A q \in parsed' : \A n \in DefNames(q) :
            n \in NamesOf(merged') \/ \E i \in 1 .. Len(stack') : Carries(stack'[i], n)
  BY DEF MergeInv
<1>5. QED
  BY <1>1, <1>2, <1>3, <1>4 DEF MergeInv, Underway, Carries, Noted, OncePerName

\* A step that notes nothing leaves what was noted known.
LEMMA NotedKnown ==
    ASSUME MergeInv, NEW i \in 1 .. Len(stack)
    PROVE  stack[i].path \in parsed /\ \A n : Noted(stack[i], n) => Known(n)
BY DEF MergeInv

\* Noting a definition that was to come.
LEMMA ParseDefMerges == GatherType /\ ReadInv /\ MergeInv /\ ParseDef => MergeInv'
<1> SUFFICES ASSUME GatherType, ReadInv, MergeInv, ParseDef PROVE MergeInv'
  OBVIOUS
<1> DEFINE h == Len(stack)
           d == Definition(Head(Top.rest).name, Top.path)
<1>1. /\ stack # << >> /\ Top.rest # << >> /\ Head(Top.rest).kind = "def"
      /\ UNCHANGED <<prog, parsed, merged, status>>
      /\ stack' = [Advanced EXCEPT ![h].defs = Append(@, d)]
  BY DEF ParseDef, Reading
<1>2. /\ h \in Nat \ {0} /\ Top \in Frames /\ Top = stack[h]
      /\ Head(Top.rest) \in Declarations /\ Head(Top.rest) = Top.rest[1]
      /\ Len(Top.rest) \in Nat \ {0}
  <2>1. h \in Nat \ {0} /\ Top \in Frames /\ Top = stack[h]
    BY <1>1, TopType DEF GatherType, Top
  <2>2. Head(Top.rest) \in Declarations /\ Len(Top.rest) \in Nat \ {0}
    BY <1>1, TopType DEF GatherType
  <2>3. Head(Top.rest) = Top.rest[1]
    BY <2>1 DEF Frames
  <2>4. QED
    BY <2>1, <2>2, <2>3
<1>3. d \in Named /\ Head(Top.rest) = Def(d.name)
  BY <1>1, <1>2, Kinds3 DEF Definition, Frames, Named
<1>4. Known(d.name)
  <2>1. \E j \in 1 .. Len(stack[h].rest) : stack[h].rest[j] = Def(d.name)
    BY <1>2, <1>3
  <2>2. h \in 1 .. Len(stack)
    BY <1>2
  <2> HIDE DEF d
  <2>3. QED
    BY <2>1, <2>2, RestKnown
<1> HIDE DEF d
<1>5. /\ Len(stack') = h
      /\ \A i \in 1 .. h : stack'[i].path = stack[i].path /\ stack'[i].rest = Advanced[i].rest
      /\ \A i \in 1 .. h : i # h => stack'[i].defs = stack[i].defs
      /\ stack'[h].defs = Append(stack[h].defs, d)
  <2>1. stack \in Seq(Frames) /\ ParseDef
    BY DEF GatherType
  <2>2. /\ Len(stack') = Len(stack)
        /\ \A i \in 1 .. Len(stack) : stack'[i].path = stack[i].path /\ stack'[i].rest = Advanced[i].rest
        /\ \A i \in 1 .. Len(stack) : i # Len(stack) => stack'[i].defs = stack[i].defs
        /\ stack'[Len(stack)].defs = Append(stack[Len(stack)].defs, d)
    BY <2>1, ParseDefStack, Zenon DEF d
  <2>3. QED
    BY <2>2
<1>6. /\ Len(stack'[h].defs) = Len(stack[h].defs) + 1
      /\ Len(stack[h].defs) \in Nat
      /\ \A k \in 1 .. Len(stack[h].defs) : stack'[h].defs[k] = stack[h].defs[k]
      /\ stack'[h].defs[Len(stack[h].defs) + 1] = d
  <2>1. stack[h].defs \in Seq(Named) /\ h \in 1 .. h
    BY <1>2 DEF Frames, Named
  <2>2. stack'[h].defs = Append(stack[h].defs, d)
    BY <1>5, <2>1
  <2>3. QED
    BY <1>3, <2>1, <2>2, AppendProperties
<1>7. ASSUME NEW i \in 1 .. h, NEW n PROVE Noted(stack'[i], n) <=> Noted(stack[i], n) \/ (i = h /\ n = d.name)
  <2>1. CASE i # h
    <3>1. stack'[i].defs = stack[i].defs
      BY <1>5, <2>1
    <3>2. QED
      BY <2>1, <3>1 DEF Noted
  <2>2. ASSUME Noted(stack'[h], n) PROVE Noted(stack[h], n) \/ n = d.name
    <3>1. PICK k \in 1 .. Len(stack'[h].defs) : stack'[h].defs[k].name = n
      BY <2>2 DEF Noted
    <3>2. k \in 1 .. Len(stack[h].defs) \/ k = Len(stack[h].defs) + 1
      BY <1>6
    <3>3. CASE k \in 1 .. Len(stack[h].defs)
      <4>1. stack[h].defs[k].name = n
        BY <1>6, <3>1, <3>3
      <4>2. QED
        BY <3>3, <4>1 DEF Noted
    <3>4. CASE k = Len(stack[h].defs) + 1
      BY <1>6, <3>1, <3>4
    <3>5. QED
      BY <3>2, <3>3, <3>4
  <2>3. ASSUME Noted(stack[h], n) PROVE Noted(stack'[h], n)
    <3>1. PICK k \in 1 .. Len(stack[h].defs) : stack[h].defs[k].name = n
      BY <2>3 DEF Noted
    <3>2. k \in 1 .. Len(stack'[h].defs) /\ stack'[h].defs[k].name = n
      BY <1>6, <3>1
    <3>3. QED
      BY <3>2 DEF Noted
  <2>4. Noted(stack'[h], d.name)
    <3>1. Len(stack[h].defs) + 1 \in 1 .. Len(stack'[h].defs)
      BY <1>6
    <3>2. QED
      BY <1>6, <3>1 DEF Noted
  <2>5. QED
    BY <2>1, <2>2, <2>3, <2>4
<1>8. ASSUME NEW i \in 1 .. Len(stack')
      PROVE  stack'[i].path \in parsed /\ \A n : Noted(stack'[i], n) => Known(n)
  BY <1>4, <1>5, <1>7, NotedKnown
<1>9. ASSUME NEW n, Underway(n) PROVE \E i \in 1 .. Len(stack') : Carries(stack'[i], n)
  <2>1. PICK i \in 1 .. h : Carries(stack[i], n)
    BY <1>9 DEF Underway
  <2>2. Carries(stack'[i], n) \/ (i = h /\ Head(Top.rest) = Def(n))
    BY <1>1, <1>5, <1>7, <2>1, AdvancedMerges
  <2>3. ASSUME Head(Top.rest) = Def(n) PROVE Carries(stack'[h], n)
    <3>1. n = d.name
      BY <1>3, <2>3 DEF Def
    <3>2. h \in 1 .. h
      BY <1>2
    <3>3. QED
      BY <1>7, <3>1, <3>2 DEF Carries
  <2>4. QED
    BY <1>5, <2>1, <2>2, <2>3
<1>10. QED
  BY <1>1, <1>8, <1>9, MovedMerges

\* The importer takes over what the import noted.
LEMMA EndImportMerges == GatherType /\ MergeInv /\ EndImport => MergeInv'
<1> SUFFICES ASSUME GatherType, MergeInv, EndImport PROVE MergeInv'
  OBVIOUS
<1> DEFINE h == Len(stack)
<1>1. /\ h > 1 /\ Top.rest = << >>
      /\ UNCHANGED <<prog, parsed, merged, status>>
      /\ stack' = [Front(stack) EXCEPT ![h - 1].defs = @ \o Top.defs]
  BY DEF EndImport
<1>2. h \in Nat /\ Top = stack[h]
  BY LenProperties DEF GatherType, Top
<1>3. /\ Len(stack') = h - 1
      /\ \A i \in 1 .. h - 1 : stack'[i].path = stack[i].path /\ stack'[i].rest = stack[i].rest
      /\ \A i \in 1 .. h - 1 : stack'[i].defs = IF i = h - 1 THEN stack[i].defs \o Top.defs ELSE stack[i].defs
  BY <1>1, EndImportType DEF GatherType
<1>4. ASSUME NEW i \in 1 .. h - 1, NEW n
      PROVE  Noted(stack'[i], n) <=> Noted(stack[i], n) \/ (i = h - 1 /\ Noted(stack[h], n))
  <2>1. CASE i # h - 1
    BY <1>3, <2>1 DEF Noted
  <2>2. CASE i = h - 1
    <3> DEFINE a == stack[i].defs
               b == stack[h].defs
               c == stack'[i].defs
    <3>1. stack[i] \in Frames /\ stack[h] \in Frames
      BY <1>1, <1>2, ElementOfSeq DEF GatherType
    <3>2. a \in Seq(Named) /\ b \in Seq(Named) /\ c = a \o b
      BY <1>2, <1>3, <2>2, <3>1 DEF Frames, Named
    <3> HIDE DEF a, b, c
    <3>3. /\ Len(c) = Len(a) + Len(b) /\ Len(a) \in Nat /\ Len(b) \in Nat
          /\ \A k \in 1 .. Len(c) : c[k] = IF k <= Len(a) THEN a[k] ELSE b[k - Len(a)]
      BY <3>2, ConcatProperties, LenProperties
    <3>4. ASSUME NEW k \in 1 .. Len(c), c[k].name = n
          PROVE  (\E l \in 1 .. Len(a) : a[l].name = n) \/ \E l \in 1 .. Len(b) : b[l].name = n
      <4>1. CASE k <= Len(a)
        BY <3>3, <3>4, <4>1
      <4>2. CASE k > Len(a)
        <5>1. k - Len(a) \in 1 .. Len(b) /\ c[k] = b[k - Len(a)]
          BY <3>3, <4>2
        <5>2. QED
          BY <3>4, <5>1
      <4>3. QED
        BY <3>3, <4>1, <4>2
    <3>5. ASSUME NEW l \in 1 .. Len(a), a[l].name = n PROVE \E k \in 1 .. Len(c) : c[k].name = n
      BY <3>3, <3>5
    <3>6. ASSUME NEW l \in 1 .. Len(b), b[l].name = n PROVE \E k \in 1 .. Len(c) : c[k].name = n
      <4>1. l + Len(a) \in 1 .. Len(c) /\ ~(l + Len(a) <= Len(a)) /\ (l + Len(a)) - Len(a) = l
        BY <3>3
      <4>1a. c[l + Len(a)] = b[l]
        BY <3>3, <4>1
      <4>2. QED
        BY <3>6, <4>1, <4>1a
    <3>7. (\E k \in 1 .. Len(c) : c[k].name = n) <=>
            (\E l \in 1 .. Len(a) : a[l].name = n) \/ \E l \in 1 .. Len(b) : b[l].name = n
      BY <3>4, <3>5, <3>6
    <3>8. QED
      BY <2>2, <3>7 DEF Noted, a, b, c
  <2>3. QED
    BY <2>1, <2>2
<1>5. ASSUME NEW i \in 1 .. Len(stack')
      PROVE  stack'[i].path \in parsed /\ \A n : Noted(stack'[i], n) => Known(n)
  <2>1. i \in 1 .. h /\ i \in 1 .. h - 1 /\ h \in 1 .. h
    BY <1>1, <1>2, <1>3
  <2>2. QED
    BY <1>3, <1>4, <2>1, NotedKnown
<1>6. ASSUME NEW n, Underway(n) PROVE \E i \in 1 .. Len(stack') : Carries(stack'[i], n)
  <2>1. PICK i \in 1 .. h : Carries(stack[i], n)
    BY <1>6 DEF Underway
  <2>2. CASE i = h
    <3>1. Noted(stack[h], n)
      <4>1. Len(stack[h].rest) = 0
        BY <1>1, <1>2, EmptySeq
      <4>2. QED
        BY <2>1, <2>2, <4>1 DEF Carries
    <3>2. h - 1 \in 1 .. h - 1
      BY <1>1, <1>2
    <3>3. Noted(stack'[h - 1], n)
      BY <1>4, <3>1, <3>2
    <3>4. QED
      BY <1>3, <3>2, <3>3 DEF Carries
  <2>3. CASE i # h
    <3>1. i \in 1 .. h - 1
      BY <1>2, <2>3
    <3>2. Carries(stack'[i], n)
      BY <1>3, <1>4, <2>1, <3>1 DEF Carries
    <3>3. QED
      BY <1>3, <3>1, <3>2
  <2>4. QED
    BY <2>2, <2>3
<1>7. QED
  BY <1>1, <1>5, <1>6, MovedMerges

\* Merging a definition takes it from the file and keeps its name.
LEMMA MergeDefMerges == GatherType /\ MergeInv /\ MergeDef => MergeInv'
<1> SUFFICES ASSUME GatherType, MergeInv, MergeDef PROVE MergeInv'
  OBVIOUS
<1> DEFINE a == stack[1].defs
           b == stack'[1].defs
           d == Head(a)
<1>1. /\ Len(stack) = 1 /\ Top.defs # << >> /\ status = "running"
      /\ UNCHANGED <<prog, parsed, status>>
      /\ merged' = Kept(Head(Top.defs))
      /\ stack' = [stack EXCEPT ![1].defs = Tail(@)]
  BY DEF MergeDef, Merging, Running
<1>2. /\ stack' \in Seq(Frames)
      /\ Len(stack') = 1
      /\ stack'[1].path = stack[1].path /\ stack'[1].rest = stack[1].rest
      /\ stack'[1].defs = Tail(stack[1].defs)
      /\ stack[1] \in Frames /\ Top = stack[1]
  BY <1>1, MergeDefType DEF GatherType
<1>3. a \in Seq(Named) /\ a # << >> /\ b = Tail(a) /\ merged' = Kept(d)
  BY <1>1, <1>2 DEF Frames, Named
<1> HIDE DEF a, b
<1>4. /\ d = a[1] /\ d \in Named
      /\ Len(a) \in Nat \ {0} /\ Len(b) = Len(a) - 1
      /\ \A k \in 1 .. Len(b) : b[k] = a[k + 1]
  <2>1. Len(a) \in Nat \ {0} /\ Len(b) = Len(a) - 1 /\ d \in Named
    BY <1>3, HeadTailProperties, EmptySeq
  <2>2. \A k \in 1 .. Len(a) - 1 : Tail(a)[k] = a[k + 1]
    BY <1>3, HeadTailProperties
  <2>3. d = a[1]
    BY <1>3
  <2>4. QED
    BY <1>3, <2>1, <2>2, <2>3
<1> HIDE DEF d
<1>5. /\ \A n : Known(n) => Known(n)'
      /\ \A q : DefNames(q)' = DefNames(q)
  BY <1>1, KnownStays
<1>6. /\ merged' \in Seq(Named) /\ OncePerName(merged')
      /\ NamesOf(merged') = NamesOf(merged) \cup {d.name}
  BY <1>3, <1>4, KeptIs DEF MergeInv
<1>7. \A n : Noted(stack[1], n) <=> \E k \in 1 .. Len(a) : a[k].name = n
  BY DEF Noted, a
<1>8. \A n : Noted(stack'[1], n) <=> \E k \in 1 .. Len(b) : b[k].name = n
  BY DEF Noted, b
<1>9. ASSUME NEW n PROVE Noted(stack[1], n) <=> n = d.name \/ Noted(stack'[1], n)
  <2>1. ASSUME NEW k \in 1 .. Len(a), a[k].name = n PROVE n = d.name \/ Noted(stack'[1], n)
    <3>1. CASE k = 1
      BY <1>4, <2>1, <3>1
    <3>2. CASE k # 1
      <4>1. k - 1 \in 1 .. Len(b) /\ b[k - 1] = a[(k - 1) + 1] /\ (k - 1) + 1 = k
        BY <1>4, <3>2
      <4>2. QED
        BY <1>8, <2>1, <4>1
    <3>3. QED
      BY <3>1, <3>2
  <2>2. Noted(stack[1], d.name)
    BY <1>4, <1>7
  <2>3. ASSUME NEW k \in 1 .. Len(b), b[k].name = n PROVE Noted(stack[1], n)
    <3>1. k + 1 \in 1 .. Len(a) /\ a[k + 1].name = n
      BY <1>4, <2>3
    <3>2. QED
      BY <1>7, <3>1
  <2>4. QED
    BY <1>7, <1>8, <2>1, <2>2, <2>3
<1>10. stack[1].path \in parsed /\ \A n : Noted(stack[1], n) => Known(n)
  BY <1>1 DEF MergeInv
<1>11. \A n \in NamesOf(merged') : Known(n)'
  BY <1>5, <1>6, <1>9, <1>10 DEF MergeInv
<1>12. \A i \in 1 .. Len(stack') : stack'[i].path \in parsed' /\ \A n : Noted(stack'[i], n) => Known(n)'
  <2>1. stack'[1].path \in parsed'
    BY <1>1, <1>2, <1>10
  <2>2. \A n : Noted(stack'[1], n) => Known(n)'
    BY <1>5, <1>9, <1>10
  <2>3. \A i \in 1 .. Len(stack') : i = 1
    BY <1>2
  <2>4. QED
    BY <2>1, <2>2, <2>3
<1>13. ASSUME NEW q \in parsed', NEW n \in DefNames(q)
       PROVE  n \in NamesOf(merged') \/ \E i \in 1 .. Len(stack') : Carries(stack'[i], n)
  <2>1. n \in NamesOf(merged) \/ Underway(n)
    BY <1>1 DEF MergeInv
  <2>2. CASE n \in NamesOf(merged)
    BY <1>6, <2>2
  <2>3. CASE Underway(n)
    <3>1. Carries(stack[1], n)
      BY <1>1, <2>3 DEF Underway
    <3>2. CASE Noted(stack[1], n)
      BY <1>2, <1>6, <1>9, <3>2 DEF Carries
    <3>3. CASE ~Noted(stack[1], n)
      BY <1>2, <3>1, <3>3 DEF Carries
    <3>4. QED
      BY <3>2, <3>3
  <2>4. QED
    BY <2>1, <2>2, <2>3
<1>14. NamesOf(merged)' = NamesOf(merged')
  BY DEF NamesOf
<1>15. QED
  BY <1>5, <1>6, <1>11, <1>12, <1>13, <1>14 DEF MergeInv, Underway, Carries, Noted, OncePerName

\* Every step merges a name once and loses none.
LEMMA MergeNext == GatherType /\ ReadInv /\ MergeInv /\ [Next]_vars => MergeInv'
<1> SUFFICES ASSUME GatherType, ReadInv, MergeInv, [Next]_vars PROVE MergeInv'
  OBVIOUS
<1>1. CASE NextArg
  <2> DEFINE p == Head(args)
             below == << >>
  <2>1. /\ status = "running" /\ stack = << >> /\ args # << >>
        /\ UNCHANGED <<prog, merged>>
    BY <1>1 DEF NextArg, Running
  <2>2. p \in Paths /\ Len(stack) = 0
    BY <2>1, HeadTailProperties, EmptySeq DEF GatherType
  <2>3. CASE p \in parsed
    <3>1. UNCHANGED <<prog, merged, parsed, stack, status>>
      BY <1>1, <2>3 DEF NextArg
    <3>2. QED
      BY <2>2, <3>1, MovedMerges DEF Underway
  <2>4. CASE p \notin parsed
    <3>1. Mark(p) /\ OpenFile(p, below)
      BY <1>1, <2>4 DEF NextArg
    <3>2. stack' = stack \/ stack' = Append(below, [path |-> p, rest |-> prog.files[p], defs |-> << >>])
      BY <3>1 DEF OpenFile
    <3>3. below \in Seq(Frames) /\ Len(below) = 0
      BY EmptySeq
    <3>4. \A q \in parsed : \A n \in DefNames(q) : n \in NamesOf(merged)
      BY <2>1, <2>2 DEF MergeInv, Underway
    <3> HIDE DEF p, below
    <3>5. \A i \in 1 .. Len(below) : /\ below[i].path \in parsed
                                     /\ \A n : Noted(below[i], n) => Known(n)
      BY <3>3
    <3>6. \A q \in parsed : \A n \in DefNames(q) :
             n \in NamesOf(merged) \/ \E i \in 1 .. Len(below) : Carries(below[i], n)
      BY <3>4
    <3>7. QED
      BY <2>1, <2>2, <3>1, <3>2, <3>3, <3>5, <3>6, OpenMerges
  <2>5. QED
    BY <2>3, <2>4
<1>2. CASE ParseImport
  <2> DEFINE p == Head(Top.rest).path
             h == Len(stack)
  <2>1. /\ status = "running" /\ stack # << >> /\ Top.rest # << >> /\ Head(Top.rest).kind = "import"
        /\ UNCHANGED <<prog, merged>>
    BY <1>2 DEF ParseImport, Reading, Running
  <2>2. p \in Paths
    BY <2>1, TopType, Kinds3 DEF GatherType
  <2>3. \A n : Head(Top.rest) # Def(n)
    BY <2>1 DEF Def
  <2>4. /\ Advanced \in Seq(Frames) /\ Len(Advanced) = h
        /\ \A i \in 1 .. h : Advanced[i].path = stack[i].path /\ Advanced[i].defs = stack[i].defs
    BY <2>1, AdvancedType DEF GatherType
  <2>5. \A i \in 1 .. h : \A n : Noted(Advanced[i], n) <=> Noted(stack[i], n)
    BY <2>4 DEF Noted
  <2>6. \A i \in 1 .. Len(Advanced) : /\ Advanced[i].path \in parsed
                                      /\ \A n : Noted(Advanced[i], n) => Known(n)
    BY <2>4, <2>5, NotedKnown
  <2>7. ASSUME NEW n, Underway(n) PROVE \E i \in 1 .. Len(Advanced) : Carries(Advanced[i], n)
    <3>1. PICK i \in 1 .. h : Carries(stack[i], n)
      BY <2>7 DEF Underway
    <3>2. Carries(Advanced[i], n)
      BY <2>1, <2>3, <2>4, <2>5, <3>1, AdvancedMerges
    <3>3. QED
      BY <2>4, <3>2
  <2>8. CASE p \in parsed
    <3>1. stack' = Advanced /\ UNCHANGED <<parsed, status>>
      BY <1>2, <2>8 DEF ParseImport
    <3>2. QED
      BY <2>1, <2>6, <2>7, <3>1, MovedMerges
  <2>9. CASE p \notin parsed
    <3>1. Mark(p) /\ OpenFile(p, Advanced)
      BY <1>2, <2>9 DEF ParseImport
    <3>2. stack' = stack \/ stack' = Append(Advanced, [path |-> p, rest |-> prog.files[p], defs |-> << >>])
      BY <3>1 DEF OpenFile
    <3>3. \A q \in parsed : \A n \in DefNames(q) :
             n \in NamesOf(merged) \/ \E i \in 1 .. Len(Advanced) : Carries(Advanced[i], n)
      BY <2>1, <2>7 DEF MergeInv
    <3> HIDE DEF p
    <3>4. QED
      BY <2>1, <2>2, <2>4, <2>6, <3>1, <3>2, <3>3, OpenMerges
  <2>10. QED
    BY <2>8, <2>9
<1>3. CASE ParseDef
  BY <1>3, ParseDefMerges
<1>4. CASE EndImport
  BY <1>4, EndImportMerges
<1>5. CASE MergeDef
  BY <1>5, MergeDefMerges
<1>6. CASE EndArg
  <2>1. /\ Len(stack) = 1 /\ Top.rest = << >> /\ Top.defs = << >> /\ stack' = << >>
        /\ UNCHANGED <<prog, parsed, merged, status>>
    BY <1>6 DEF EndArg, Merging
  <2>2. Len(stack') = 0 /\ Len(Top.rest) = 0 /\ Len(Top.defs) = 0 /\ Top = stack[1]
    BY <2>1, EmptySeq DEF Top
  <2>3. \A n : ~Underway(n)
    BY <2>1, <2>2 DEF Underway, Carries, Noted
  <2>4. QED
    BY <2>1, <2>2, <2>3, MovedMerges
<1>7. CASE ParseFails \/ Finish \/ UNCHANGED vars
  <2>1. UNCHANGED <<prog, parsed, merged, stack>> /\ (status' # "failed" => status # "failed")
    BY <1>7 DEF ParseFails, Finish, vars, Reading, Running
  <2>2. \A i \in 1 .. Len(stack') : stack'[i].path \in parsed /\ \A n : Noted(stack'[i], n) => Known(n)
    BY <2>1, NotedKnown
  <2>3. \A n : Underway(n) => \E i \in 1 .. Len(stack') : Carries(stack'[i], n)
    BY <2>1 DEF Underway
  <2>4. QED
    BY <2>1, <2>2, <2>3, MovedMerges
<1>8. QED
  BY <1>1, <1>2, <1>3, <1>4, <1>5, <1>6, <1>7 DEF Next

\* A sequence with one definition of each name has as many as there are names.
LEMMA OnceIsCounted ==
    ASSUME merged \in Seq(Named), OncePerName(merged)
    PROVE  Cardinality(DOMAIN merged) = Cardinality(NamesOf(merged))
<1> DEFINE S == 1 .. Len(merged)
           T == NamesOf(merged)
           f == [i \in S |-> merged[i].name]
<1>1. DOMAIN merged = S /\ Len(merged) \in Nat
  BY LenProperties
<1>2. f \in [S -> T]
  BY <1>1 DEF NamesOf
<1>3. \A t \in T : \E i \in S : f[i] = t
  BY <1>1 DEF NamesOf
<1>4. \A i, j \in S : f[i] = f[j] => i = j
  BY DEF OncePerName
<1>5. IsFiniteSet(S)
  BY <1>1, FS_Interval
<1> HIDE DEF S, T, f
<1>6. f \in Bijection(S, T)
  BY <1>2, <1>3, <1>4 DEF Bijection, Injection, Surjection, IsInjective
<1>7. Cardinality(T) = Cardinality(S)
  BY <1>5, <1>6, FS_Bijection DEF ExistsBijection
<1>8. QED
  BY <1>1, <1>7 DEF T

\* In any import graph, a compilation that succeeds has opened the files of the
\* program and merged every name that one of them defines, once.
THEOREM MergesAllCorrect == DSpec => []MergesAll
<1>1. GatherType /\ ReadInv /\ WholeInv /\ MergeInv => MergesAll
  <2> SUFFICES ASSUME GatherType, ReadInv, WholeInv, MergeInv
               PROVE  MergesAll
    OBVIOUS
  <2>1. OpensReach
    BY OpensAll
  <2>2. ASSUME status = "done" PROVE NamesOf(merged) = UNION {DefNames(p) : p \in Reach}
    <3>1. Len(stack) = 0
      BY <2>2, EmptySeq DEF WholeInv
    <3>2. parsed = Reach
      BY <2>2, AllParsed
    <3>3. NamesOf(merged) \subseteq UNION {DefNames(p) : p \in Reach}
      BY <3>2 DEF MergeInv, Known
    <3>4. UNION {DefNames(p) : p \in Reach} \subseteq NamesOf(merged)
      BY <2>2, <3>1, <3>2 DEF MergeInv, Underway
    <3>5. QED
      BY <3>3, <3>4
  <2>3. Cardinality(DOMAIN merged) = Cardinality(NamesOf(merged))
    BY OnceIsCounted DEF MergeInv
  <2>4. QED
    BY <2>1, <2>2, <2>3 DEF MergesAll
<1>2. QED
  BY <1>1, Gathers, MergeInit, OnlyGather, MergeNext, PTL DEF DSpec
=============================================================================
