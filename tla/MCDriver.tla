------------------------------- MODULE MCDriver -------------------------------
(***************************************************************************)
(* Three files: A imports up to two paths around its own definition, B and *)
(* C import at most one; a path may be missing and a file may be bad.      *)
(* `link' is another path of the file B.                                   *)
(***************************************************************************)
EXTENDS Driver

MCPaths == {"A", "B", "C", "link", "missing"}

\* B, C and A in any relation: chains, diamonds, self imports and cycles.
BodyA == {<<Def("a"), Import(p)>> : p \in {"A", "B"}}
           \cup {<<Import(p), Import(q), Def("a")>> : p \in {"B", "C"}, q \in {"B", "C", "link"}}
BodyB == {<<Def("b")>>, <<Def("a"), Def("b"), Bad>>, <<Import("missing"), Def("b")>>}
           \cup {<<Import(p), Def("b"), Def("a")>> : p \in {"A", "C"}}
BodyC == {<<Def("c")>>, <<Def("c"), Import("A"), Def("c")>>}
           \cup {<<Import(p), Def("c")>> : p \in {"A", "B", "C"}}

Files(a, b, c) == [p \in MCPaths \ {"missing"} |->
                     IF p = "A" THEN a ELSE IF p = "C" THEN c ELSE b]

MCPrograms ==
    {[cli |-> cli, files |-> Files(a, b, c)] :
        cli \in {<<"A">>, <<"B", "A">>, <<"C", "A", "C">>, <<"link", "B">>},
        a \in BodyA, b \in BodyB, c \in BodyC}
=============================================================================
