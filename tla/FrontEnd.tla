------------------------------- MODULE FrontEnd -------------------------------
(***************************************************************************)
(* parse_file of vex/parser.py: the parser reads what the lexer has made   *)
(* of a text.  A text is given as characters or, to reach longer ones, as  *)
(* the tokens the parser sees.                                             *)
(***************************************************************************)
EXTENDS Parser, Lexer

fvars == <<charset, src, vars>>

NoChars == [chars |-> {}, len |-> 0]
NoToks  == [start |-> << >>, more |-> {}, len |-> 0]

FInit == \/ Init /\ charset = NoChars /\ src = << >>
         \/ LInit /\ alphabet = NoToks /\ text = << >>

FNext == \/ Next /\ UNCHANGED <<charset, src>>
         \/ LNext /\ text' = TextOf(src') /\ UNCHANGED alphabet

FSpec == FInit /\ [][FNext]_fvars
=============================================================================
