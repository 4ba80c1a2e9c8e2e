------------------------------- MODULE Paging -------------------------------
(***************************************************************************)
(* The queries by which stored messages are read: LoadRangeByID of the     *)
(* repositories of race states, driver data and speedmaps.  A stored       *)
(* message is the rs_info entry it belongs to (id) and its time stamp (ts).*)
(***************************************************************************)
EXTENDS Integers, FiniteSets

Smaller(a, b) == IF a < b THEN a ELSE b

(***************************************************************************)
(* The results a query may have: the first n entries of S with id >= from, *)
(* ordered by id.  The order of entries with the same id is not defined by *)
(* the query, so it is a choice, and so is which of them the limit cuts.   *)
(***************************************************************************)
Pages(S, from, n) ==
  LET R == {r \in S : r.id >= from}
  IN  {p \in [1 .. Smaller(n, Cardinality(R)) -> R] :
         /\ \A i, j \in DOMAIN p : i < j => p[i] # p[j] /\ p[i].id <= p[j].id
         /\ \A r \in R : (\A i \in DOMAIN p : p[i] # r) => \A i \in DOMAIN p : p[i].id <= r.id}
=============================================================================
