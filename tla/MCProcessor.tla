---------------------------- MODULE MCProcessor ----------------------------
(* Two cars of different classes. *)
EXTENDS Processor

MCClassOf == ("a" :> "gt") @@ ("b" :> "lmp")
=============================================================================
