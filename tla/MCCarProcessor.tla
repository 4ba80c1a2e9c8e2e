--------------------------- MODULE MCCarProcessor ---------------------------
(* CarProcessor for TLC.                                                   *)
EXTENDS CarProcessor, TLC

Symmetry == Permutations(Drivers)
=============================================================================
