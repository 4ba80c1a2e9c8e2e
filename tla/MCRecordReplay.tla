--------------------------- MODULE MCRecordReplay ---------------------------
(* RecordReplay for TLC. *)
EXTENDS RecordReplay

\* Pages of states are twice as large as the others.
MCPageSize == [state |-> 2, driver |-> 1, speedmap |-> 1]

ASSUME Task!Parameters
=============================================================================
