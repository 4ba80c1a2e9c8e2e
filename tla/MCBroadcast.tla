---------------------------- MODULE MCBroadcast ----------------------------
(* Broadcast for TLC. *)
EXTENDS Broadcast, TLC

Symmetry == Permutations(Clients) \cup Permutations(Producers)
=============================================================================
