--------------------------- MODULE MCGlobalEvents ---------------------------
EXTENDS GlobalEvents, TLC

Symmetry == Permutations(Instances) \cup Permutations(Keys)
=============================================================================
