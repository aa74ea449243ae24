------------------------------- MODULE MCNames --------------------------------
(***************************************************************************)
(* Two local names, one Vex function f and one extern function e.          *)
(***************************************************************************)
EXTENDS Names
=============================================================================
