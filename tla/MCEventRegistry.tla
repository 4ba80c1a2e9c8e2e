-------------------------- MODULE MCEventRegistry --------------------------
(* EventRegistry for TLC.                                                  *)
EXTENDS EventRegistry, TLC

Symmetry == Permutations(Callers) \cup Permutations(Keys)
=============================================================================
