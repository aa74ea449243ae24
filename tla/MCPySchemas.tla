----------------------------- MODULE MCPySchemas ------------------------------
(***************************************************************************)
(* Two processes and two schemas that share a field; values of every kind, *)
(* nested, with an empty container, a string at the end and one inside.    *)
(***************************************************************************)
EXTENDS PySchemas

x == <<1>>
y == <<2>>

MCStartup == << <<x, y>>, <<y>> >>

\* Values that encode accepts.
MCPlain ==
    {Null, Bool(TRUE), Double(4095), Double(4096)}
      \cup {Int64(v) : v \in {7, 8, 64, 4096, 16777215, -4, -5, -33, -2049, -8388608}}
      \cup {Blob("bytes", << >>), Blob("str", <<1, 2, 3, 4, 5>>), List(<< >>),
            Tuple(<<Int64(1), Blob("str", <<0, 7>>)>>),
            List(<<Blob("bytes", <<3, 3>>), List(<<Null>>), Bool(FALSE)>>),
            Dict(<< <<Blob("str", x), Int64(5)>>, <<Int64(9), List(<<Blob("str", <<4>>)>>)>> >>),
            Dict(<< <<Blob("str", y), Dict(<< >>)>>, <<Blob("str", x), Double(70000)>> >>)}

\* Values that encode raises for: a finite double beyond the range of a float, integers of more than 64 bits, a key
\* with a lone surrogate.
MCRefused == {Double(DoubleMax), Int64(16777216), List(<<Null, Tuple(<<Int64(-8388609)>>)>>),
              Dict(<< <<Blob("str", <<1, Surrogate>>), Null>> >>)}

MCValues == MCPlain \cup MCRefused

MCRecords ==
    {[f \in {x, y} |-> IF f = x THEN Int64(3) ELSE Blob("str", <<6, 6>>)],
     [f \in {x, y, <<3>>} |-> IF f = x THEN List(<<Null>>) ELSE Int64(-5)],
     [f \in {y} |-> Tuple(<<Bool(TRUE)>>)]}
=============================================================================
