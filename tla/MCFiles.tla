------------------------------- MODULE MCFiles --------------------------------
(***************************************************************************)
(* Two processes and three calls; one length fits in a stream's buffer and *)
(* the other does not.                                                     *)
(***************************************************************************)
EXTENDS Files, TLC

CONSTANTS p1, p2

MCProcs  == {p1, p2}
Symmetry == Permutations(MCProcs)
=============================================================================
