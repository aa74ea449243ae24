---------------------------- MODULE MCFluxStream -----------------------------
(***************************************************************************)
(* Bytes of three bits and words of 23, so that integer ranges end at 7,   *)
(* 63, 4095 (unsigned) and -4, -32, -2048 (signed), a varint byte carries  *)
(* two bits and the last group of a word is partial, as it is for 2^64.    *)
(* The items stand at both sides of these boundaries.                      *)
(***************************************************************************)
EXTENDS FluxStream

MCItems ==
    {Null, Bool(TRUE), Double(4095), Double(4096)}
      \cup {Int64(v) : v \in {7, 8, 64, 4095, 4096, 4194303, -4, -5, -2049, -4194304}}
      \cup {Blob("bytes", << >>), Blob("str", <<1, 2, 3, 4, 5>>)}
      \cup {Count("list", 3), Count("map", 8388607), Count("schema", 4)}

MCEnds ==
    {[writer |-> "C",   reader |-> "C",   schemas |-> FALSE],
     [writer |-> "C",   reader |-> "Vex", schemas |-> FALSE],
     [writer |-> "Vex", reader |-> "C",   schemas |-> FALSE],
     [writer |-> "Vex", reader |-> "Vex", schemas |-> TRUE]}
=============================================================================
