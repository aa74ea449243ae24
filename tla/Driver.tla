-------------------------------- MODULE Driver --------------------------------
(***************************************************************************)
(* vexc's main: one module is gathered from the files of the command line  *)
(* (module Imports), checked, generated, and either written as C text      *)
(* beside the first file (-S) or written to a temporary file and compiled  *)
(* by gcc into the output, with the temporary file removed in a finally    *)
(* clause.  Devices fill, messages cannot be printed, gcc fails or is      *)
(* missing, the temporary file cannot be removed, and Ctrl-C raises        *)
(* KeyboardInterrupt before, within and after any step.                    *)
(***************************************************************************)
EXTENDS Imports

VARIABLES pc,      \* "front", "checked", "generated", "writing", "made", "finally", "exited"
          emit,    \* -S was given
          out,     \* the requested output: "old", "part", "new" or "gone"
          tmp,     \* the temporary C file: "none", "part", "whole" or "stuck", which
                   \* the system refused to remove
          code     \* the exit code; 1 stands for Python's 120 too, for messages that
                   \* cannot be flushed in the end

dvars == <<pc, emit, out, tmp, code>>

DInit == /\ Init
         /\ pc = "front" /\ emit \in BOOLEAN
         /\ out = "old" /\ tmp = "none" /\ code = 0

Go(from, to) == pc = from /\ pc' = to
\* An exception that nobody catches, and every error vexc reports, is exit code 1.
Raise(from)  == Go(from, "exited") /\ code' = 1

\* parse_files.
Gather == /\ pc = "front" /\ Next
          /\ UNCHANGED dvars

\* The exceptions of parse_files, typecheck and generate end in one handler.
FrontFails == /\ \/ Raise("front") /\ status # "running"
                 \/ Raise("checked")
              /\ UNCHANGED <<vars, emit, out, tmp>>

\* Mutant: an error of the parser is reported, and the compiler goes on.
TypecheckAnyway == /\ Go("front", "checked") /\ status # "running"
                   /\ UNCHANGED <<vars, emit, out, tmp, code>>

Typecheck == /\ Go("front", "checked") /\ status = "done"
             /\ UNCHANGED <<vars, emit, out, tmp, code>>

Generate == /\ Go("checked", "generated")
            /\ UNCHANGED <<vars, emit, out, tmp, code>>

\* -S: opening the output for writing truncates it.
OpenOut == /\ emit /\ Go("generated", "writing")
           /\ out' = "part"
           /\ UNCHANGED <<vars, emit, tmp, code>>

\* With -v a message follows, and may be what cannot be written.
WriteOut == /\ emit
            /\ \/ Go("writing", "exited") /\ out' = "new" /\ UNCHANGED code
               \/ Raise("writing") /\ out' \in {out, "new"}
            /\ UNCHANGED <<vars, emit, tmp>>

OpenOutFails == /\ emit /\ Raise("generated")
                /\ UNCHANGED <<vars, emit, out, tmp>>

\* NamedTemporaryFile(delete=False), made and written before the try block.
MakeTemp == /\ ~emit
            /\ \/ Go("generated", "writing") /\ tmp' = "part" /\ UNCHANGED code
               \/ Raise("generated") /\ UNCHANGED tmp
            /\ UNCHANGED <<vars, emit, out>>

WriteTemp == /\ ~emit
             /\ \/ Go("writing", "made") /\ tmp' = "whole" /\ UNCHANGED code
                \/ Raise("writing") /\ UNCHANGED tmp
             /\ UNCHANGED <<vars, emit, out>>

\* Mutant: the status of gcc is not looked at.
GccAnyStatus == /\ Go("made", "finally") /\ out' \in {"new", out, "gone"}
                /\ UNCHANGED <<vars, emit, tmp, code>>

\* subprocess.run: gcc writes the output; fails, and may have removed it; cannot be
\* started; or succeeds, but what it says cannot be decoded, or the message of -v
\* not be printed.
Gcc == /\ Go("made", "finally")
       /\ \/ out' = "new" /\ UNCHANGED code
          \/ out' \in {out, "part", "new", "gone"} /\ code' = 1
       /\ UNCHANGED <<vars, emit, tmp>>

\* Mutant: the file is removed after a success only.
UnlinkOnSuccess == /\ Go("finally", "exited")
                   /\ tmp' = IF code = 0 THEN "none" ELSE tmp
                   /\ UNCHANGED <<vars, emit, out, code>>

\* os.unlink removes the file; or raises, because it may not or because the file is
\* gone, and this exception takes the place of the one on its way out.
Unlink == /\ Go("finally", "exited")
          /\ \/ tmp' = "none" /\ UNCHANGED code
             \/ tmp' \in {"stuck", "none"} /\ code' = 1
          /\ UNCHANGED <<vars, emit, out>>

\* KeyboardInterrupt is no Exception: it ends main where it strikes, through the
\* finally clause once the try block has begun, and out of that clause too.  The call that
\* it strikes may have done its work; gcc leaves the output in any state.
Interrupt == /\ \/ /\ pc \in {"front", "checked", "generated", "writing", "finally"} /\ pc' = "exited"
                   /\ out' \in {out} \cup {o \in {"new"} : pc = "writing" /\ emit}
                   /\ tmp' \in {tmp} \cup {t \in {"whole"} : pc = "writing" /\ ~emit}
                                   \cup {t \in {"none"} : pc = "finally"}
                \/ /\ Go("made", "finally") /\ UNCHANGED tmp
                   /\ out' \in {out, "part", "new", "gone"}
             /\ code' = 130
             /\ UNCHANGED <<vars, emit>>

Step == Gather \/ FrontFails \/ Typecheck \/ Generate \/ OpenOut \/ WriteOut \/ OpenOutFails
          \/ MakeTemp \/ WriteTemp \/ Gcc \/ Unlink
DNext == Step \/ Interrupt

\* One thread runs main; gcc answers.
DSpec == DInit /\ [][DNext]_<<vars, dvars>> /\ WF_<<vars, dvars>>(Step)

-----------------------------------------------------------------------------
Exited == pc = "exited"

\* vexc ends with 0 only if the requested file is the compiled text of a module that was
\* gathered whole, and nothing else of its making is left: any step that fails on
\* the way, the last one of the finally clause included, shows in the code (vexc:41-80).
\* The converse is false: the output may be new and the code 1.
ExitCodeTells ==
    Exited /\ code = 0 => out = "new" /\ tmp = "none" /\ status = "done"

\* How the temporary C file can outlive vexc: whole behind a Ctrl-C only, whatever
\* gcc did; in part when it could not be written, for it is made before the try
\* block, and no output has been touched then; and never in silence when the
\* system refuses to remove it (vexc:58-80).
TempRemoved ==
    Exited => /\ tmp = "whole" => code = 130
              /\ tmp = "part"  => code # 0 /\ out = "old"
              /\ tmp = "stuck" => code = 1

\* No step before the module has passed the parser, the checker and the
\* generator touches a file: a program with an error leaves the output of the last compilation
\* as it was (vexc:41-47).
OutputKept == [][out' # out \/ tmp' # tmp => status = "done" /\ pc \notin {"front", "checked"}]_<<vars, dvars>>

\* vexc ends, on every import graph, every failure and every interrupt, if gcc
\* does.
Exits == <>Exited
=============================================================================
