--------------------------- MODULE MCNatsCluster ---------------------------
(* Two instances, two callers and one key. *)
EXTENDS NatsCluster

MCInstances == {"i1", "i2"}
MCCallers == {"c1", "c2"}
MCKeys == {"k"}
=============================================================================
