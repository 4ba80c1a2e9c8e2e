---------------------------- MODULE BroadcastAbs ----------------------------
(***************************************************************************)
(* What a broadcast server promises its clients: an ordered, lossy         *)
(* multicast.  A message may be lost for a member, but it never comes      *)
(* late: when the next message has been accepted, the previous one is no   *)
(* longer delivered to anybody.  Nothing is delivered to a client before   *)
(* it joined or after it left, and nothing happens after the stop.         *)
(***************************************************************************)
EXTENDS Integers, Sequences

CONSTANT Clients

VARIABLES
  accepted,   \* number of messages accepted; the last one is this number
  member,     \* "out", "in" or "left"
  since,      \* number of messages accepted when the client joined
  delivered,  \* the messages each client got
  stopped

vars == <<accepted, member, since, delivered, stopped>>

Init ==
  /\ accepted = 0
  /\ member = [c \in Clients |-> "out"]
  /\ since = [c \in Clients |-> 0]
  /\ delivered = [c \in Clients |-> <<>>]
  /\ stopped = FALSE

Accept ==
  /\ ~stopped
  /\ accepted' = accepted + 1
  /\ UNCHANGED <<member, since, delivered, stopped>>

Join(c) ==
  /\ ~stopped /\ member[c] = "out"
  /\ member' = [member EXCEPT ![c] = "in"]
  /\ since' = [since EXCEPT ![c] = accepted]
  /\ UNCHANGED <<accepted, delivered, stopped>>

Leave(c) ==
  /\ ~stopped /\ member[c] = "in"
  /\ member' = [member EXCEPT ![c] = "left"]
  /\ UNCHANGED <<accepted, since, delivered, stopped>>

\* Only the last accepted message is delivered, and only once.
Deliver(c) ==
  /\ ~stopped /\ member[c] = "in"
  /\ since[c] < accepted
  /\ \A i \in 1 .. Len(delivered[c]) : delivered[c][i] < accepted
  /\ delivered' = [delivered EXCEPT ![c] = Append(@, accepted)]
  /\ UNCHANGED <<accepted, member, since, stopped>>

\* Everybody who is a member leaves with the stop.
Stop ==
  /\ ~stopped
  /\ stopped' = TRUE
  /\ member' = [c \in Clients |-> IF member[c] = "in" THEN "left" ELSE member[c]]
  /\ UNCHANGED <<accepted, since, delivered>>

Next == Accept \/ Stop \/ \E c \in Clients : Join(c) \/ Leave(c) \/ Deliver(c)

Spec == Init /\ [][Next]_vars
=============================================================================
