------------------------------- MODULE MCTypes --------------------------------
(* A struct with a number, an array and a pointer to its own kind; parameters *)
(* of each kind of type; a function of a number and one of a pointer.         *)
EXTENDS Types

MCStructs == [S |-> [n |-> I64, row |-> TArray(I32, 3), next |-> TPtr(TStruct("S"), TRUE)]]

MCParams == [a |-> I32, b |-> TInt(8, FALSE), x |-> TFloat(64),
             p |-> TPtr(I32, FALSE), m |-> TPtr(I32, TRUE), l |-> TSlice(TFloat(64)),
             r |-> TStruct("S"), rp |-> TPtr(TStruct("S"), TRUE), v |-> TArray(I32, 3)]

MCFns == [g |-> TFn(<<I64>>, TFloat(64)),
          h |-> TFn(<<TPtr(I32, TRUE)>>, TPtr(I32, FALSE))]

MCDeclared == {I64, TFloat(64), BOOL, TPtr(I32, FALSE), TPtr(I32, TRUE), TStruct("S")}
===============================================================================
