------------------------------- MODULE MCParser -------------------------------
(***************************************************************************)
(* Alphabets for the levels of precedence, for prefixes with brackets, for *)
(* suffixes, for line ends, for statements, for types and for              *)
(* declarations; and characters for comments, strings, numbers, symbols    *)
(* and words.                                                              *)
(***************************************************************************)
EXTENDS FrontEnd

Toks(ks)   == {Tok(k) : k \in ks}
Six(ts)    == [start |-> << >>, more |-> ts, len |-> 6]
After(w, n, ts) == [start |-> [i \in DOMAIN w |-> Tok(w[i])], more |-> ts, len |-> n]

MCAlphabets ==
    {Six(Toks({"x", "-", "*", "==", "+", "(", ")"})),
     Six(Toks({"x", "&", "!", "[", "]", ",", "(", ")"})),
     Six(Toks({"x", "1", "as", "T", ".", "-", "|", "<<"})),
     Six(Toks({"x", "*", "=", "(", ")"}) \cup {Line("x"), Line("*"), Line("(")}),
     Six(Toks({"x", "+", "]"}) \cup {Line("["), Line("x")}),
     Six(Toks({"while", "if", "else", "x", "{", "}", ":", "return"}) \cup {Line("x"), Line("if")}),
     Six(Toks({"let", "mut", "x", ":", "T", "=", ";"}) \cup {Line("let"), Line("x")}),
     Six(Toks({"for", "x", "in", "{", "}", "break", "free"}) \cup {Line("free")}),
     Six(Toks({"alloc", "<", "T", ">", "(", ")", "x"})),
     After(<<"let", "x", ":">>, 9, Toks({"ptr", "slice", "mut", "<", ">", ">>", "T"})),
     After(<<"let", "x", ":">>, 8, Toks({"fn", "[", ";", "1", "]", "(", ")", ",", "->", "T"})),
     After(<<"extern", "fn", "x", "(">>, 10, Toks({")", "->", "T", "fn", "x", "(", "{", "}", ";", "struct"})),
     After(<<"struct", "x", "{">>, 8, Toks({"x", ":", "T", ",", "}", "struct", "{", "import", "1"})),
     After(<<"extern", "fn", "x", "(", ")", "fn", "x", "(", ")", "{", "}">>, 4, Toks({"extern", "inline", "import", "1", ";"})),
     After(<<"inline", "fn", "x", "(">>, 8, Toks({")", "mut", "x", ":", "T", ",", "{", "}"}))}

Chars(cs, n) == [chars |-> cs, len |-> n]

MCCharSets ==
    {Chars({"/", "*", LF, "x"}, 7), Chars({"x", "(", LF, "/", "*"}, 6),
     Chars({Quote, Escape, LF, "x", "/"}, 5), Chars({"0", "x", ".", "_", "b"}, 6),
     Chars({"1", "e", "-", "."}, 6), Chars({"=", "<", ">", "-", "."}, 5),
     Chars({"i", "f", "n", "8", " ", "#"}, 4)}
=============================================================================
