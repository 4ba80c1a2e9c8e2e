-------------------------- MODULE NatsClusterProofs --------------------------
(***************************************************************************)
(* Proofs about NatsCluster for any number of instances, callers and       *)
(* events, and any number of crashes: what the instances know of the live  *)
(* events agrees with the store.                                           *)
(*                                                                         *)
(* The argument: the last message that waits for an instance says what the *)
(* store holds, unless somebody has written the store and not yet sent;    *)
(* with no message waiting the instance knows it already.                  *)
(***************************************************************************)
EXTENDS NatsCluster, SequenceTheorems, TLAPS

Msg == [n : Nat, key : Keys, reg : Nat]
Mail == [Subjects -> Seq(Msg)]
Call == [at : Steps, on : Instances \cup {""}, key : Keys \cup {""}, reg : Nat]

(* The strengthening. *)

\* The types, with those that TypeOK leaves out.
Maps ==
  /\ up \in [Instances -> {"down", "half", "subscribed", "loaded", "up"}]
  /\ loaded \in [Instances -> [Keys -> Regs]]
  /\ live \in [Instances -> [Keys -> Regs]]
  /\ lookup \in [Instances -> [Keys -> Regs]]
  /\ store \in [Keys -> Regs]
  /\ regs \in Seq([key : Keys, on : Instances])
  /\ closed \subseteq 1..Len(regs) /\ gone \subseteq Regs
  /\ crossed \subseteq Keys /\ mixed \in [Instances -> SUBSET Keys]

Called ==
  /\ call \in [Callers -> Call] /\ lock \subseteq Callers
  /\ \A c \in Callers :
       /\ call[c].reg \in Regs
       /\ call[c].at # "idle" => /\ call[c].key \in Keys /\ call[c].on \in Instances
                                 /\ up[call[c].on] = "up"
       /\ c \in lock <=> call[c].at \in {"subscribe", "store", "publish"}
  /\ \A c, d \in lock : call[c].on = call[d].on => c = d

Mailed ==
  /\ sent \in Nat /\ inbox \in [Instances -> Mail]
  /\ \A i \in Instances : \A s \in Subjects : \A j \in DOMAIN inbox[i][s] :
       inbox[i][s][j].n <= sent /\ inbox[i][s][j].reg \in Regs

\* An instance that is down has nothing.
Empty == \A i \in Instances : up[i] = "down" => live[i] = Nothing /\ inbox[i] = NoMail

\* Who has written the store and not yet sent.
Writes(c, k) == call[c].key = k /\ call[c].at \in {"publish", "announce"}
Written(k) ==
  k \notin crossed => \A c \in Callers : Writes(c, k) =>
    /\ store[k] = IF call[c].at = "publish" THEN call[c].reg ELSE 0
    /\ \A d \in Callers : Writes(d, k) => d = c

\* The messages about k that wait for i.
Waits(i, k, s, m) == m.key = k /\ \E j \in DOMAIN inbox[i][s] : inbox[i][s][j] = m
Says(s, m) == IF s = "registered" THEN m.reg ELSE 0

LastSays(i, k) ==
  \A s \in Subjects, m \in Msg :
    /\ Waits(i, k, s, m)
    /\ \A t \in Subjects, l \in Msg : Waits(i, k, t, l) => l.n <= m.n
    => Says(s, m) = store[k]

Knows(i, k) ==
  /\ up[i] = "up" => live[i][k] = store[k]
  /\ up[i] = "loaded" => (IF loaded[i][k] # 0 THEN loaded[i][k] ELSE live[i][k]) = store[k]
  /\ live[i][k] \in {0, store[k]} \/ up[i] \notin {"half", "subscribed"}

Informed(i, k) ==
  (/\ up[i] # "down" /\ k \notin crossed \cup mixed[i]
   /\ \A c \in Callers : ~Writes(c, k))
  => /\ LastSays(i, k)
     /\ (\A s \in Subjects, m \in Msg : ~Waits(i, k, s, m)) => Knows(i, k)

IInv ==
  /\ Maps /\ Called /\ Mailed /\ Empty
  /\ \A k \in Keys : Written(k) /\ \A i \in Instances : Informed(i, k)
(* The strengthening for what the store announces and the lookups record. *)

\* Registrations that are in the lookup and will be written to the store.
Pends(c, r) == call[c].at \in {"lock", "subscribe", "store"} /\ call[c].reg = r
\* Removed from the lookup, to be erased from the store.
Removes(c, r) == call[c].at = "erase" /\ call[c].reg = r

\* A registration is recorded under its key, where it was made.
Recorded ==
  /\ \A i \in Instances, k \in Keys :
       lookup[i][k] # 0 => up[i] = "up" /\ regs[lookup[i][k]] = [key |-> k, on |-> i]
  /\ \A k \in Keys : store[k] # 0 => regs[store[k]].key = k
  /\ \A c \in Callers :
       /\ call[c].at \in {"lock", "subscribe", "store", "publish"} =>
            call[c].reg # 0 /\ regs[call[c].reg] = [key |-> call[c].key, on |-> call[c].on]
       /\ call[c].at = "erase" /\ call[c].reg # 0 => regs[call[c].reg].key = call[c].key

\* The message m about the end of an event waits for i.
Ends(i, m) == \E j \in DOMAIN inbox[i]["unregistered"] : inbox[i]["unregistered"][j] = m

\* A registration is written to the store once.
Ended(r) ==
  \/ \E c \in Callers : call[c].at = "announce" /\ call[c].reg = r
  \/ \E i \in Instances, m \in Msg : m.reg = r /\ Ends(i, m)
Stored(r) == \E k \in Keys : store[k] = r
WrittenOnce ==
  \A r \in 1..Len(regs) :
    /\ \A c, d \in Callers : Pends(c, r) /\ Pends(d, r) => c = d
    /\ (\E c \in Callers : Pends(c, r)) => ~Stored(r)
    /\ Ended(r) => ~Stored(r) /\ \A c \in Callers : ~Pends(c, r)

\* What is in the store, or will be, is recorded, about to be erased, or gone.
Held ==
  \A r \in 1..Len(regs) :
    Stored(r) \/ (\E c \in Callers : Pends(c, r)) =>
      \/ r \in gone \/ lookup[regs[r].on][regs[r].key] = r
      \/ \E c \in Callers : Removes(c, r)

\* What is recorded is in the store, or will be, or its end is on its way.
Backs(c, i, k) ==
  /\ call[c].key = k
  /\ \/ call[c].at \in {"lock", "subscribe", "store"} /\ call[c].on = i
     \/ call[c].at = "announce"
Promised(i, k) ==
  lookup[i][k] # 0 /\ store[k] = 0 /\ k \notin crossed =>
    (\E c \in Callers : Backs(c, i, k)) \/ \E m \in Msg : m.key = k /\ Ends(i, m)

RInv == Recorded /\ WrittenOnce /\ Held /\ \A i \in Instances, k \in Keys : Promised(i, k)
-----------------------------------------------------------------------------
(* Taking and sending messages.                                             *)

LEMMA TailFacts ==
  ASSUME NEW T, NEW s \in Seq(T), s # <<>>
  PROVE  /\ Head(s) \in T /\ 1 \in DOMAIN s /\ Head(s) = s[1] /\ Tail(s) \in Seq(T)
         /\ \A j \in DOMAIN Tail(s) : j + 1 \in DOMAIN s /\ Tail(s)[j] = s[j + 1]
         /\ \A j \in DOMAIN s : s[j] = Head(s) \/ \E l \in DOMAIN Tail(s) : Tail(s)[l] = s[j]
<1>1. Len(s) \in Nat /\ Len(s) > 0 /\ DOMAIN s = 1 .. Len(s) /\ Head(s) = s[1] /\ Head(s) \in T
  OBVIOUS
<1>2. /\ Tail(s) \in Seq(T) /\ DOMAIN Tail(s) = 1 .. (Len(s) - 1)
      /\ \A j \in 1 .. (Len(s) - 1) : Tail(s)[j] = s[j + 1]
  BY <1>1, HeadTailProperties
<1>3. \A j \in DOMAIN s : j # 1 => j - 1 \in 1 .. (Len(s) - 1) /\ (j - 1) + 1 = j
  BY <1>1
<1> QED
  BY <1>1, <1>2, <1>3

LEMMA AppendFacts ==
  ASSUME NEW T, NEW s \in Seq(T), NEW e \in T
  PROVE  /\ Append(s, e) \in Seq(T) /\ Len(Append(s, e)) = Len(s) + 1 /\ Len(s) \in Nat
         /\ Len(s) + 1 \in DOMAIN Append(s, e) /\ Append(s, e)[Len(s) + 1] = e
         /\ \A j \in DOMAIN s : j \in DOMAIN Append(s, e) /\ Append(s, e)[j] = s[j]
         /\ \A j \in DOMAIN Append(s, e) : j \in DOMAIN s \/ j = Len(s) + 1
         /\ DOMAIN s = 1 .. Len(s)
  OBVIOUS

\* The message m that i takes.
LEMMA TakeFacts ==
  ASSUME Mailed, Maps, NEW i \in Instances, NEW s \in Subjects, Take(i, s),
         NEW m, m = Head(inbox[i][s])
  PROVE  /\ m \in Msg /\ m.n \in Nat /\ m.key \in Keys /\ m.reg \in Regs
         /\ inbox' \in [Instances -> Mail]
         /\ \A l \in Instances \ {i} : inbox'[l] = inbox[l]
         /\ \A t \in Subjects : \A j \in DOMAIN inbox'[i][t] :
              \E p \in DOMAIN inbox[i][t] : inbox'[i][t][j] = inbox[i][t][p]
         /\ \A t \in Subjects : \A j \in DOMAIN inbox[i][t] :
              \/ t = s /\ inbox[i][t][j] = m
              \/ \E p \in DOMAIN inbox'[i][t] : inbox'[i][t][p] = inbox[i][t][j]
         /\ \E j \in DOMAIN inbox[i][s] : inbox[i][s][j] = m
         /\ mixed' \in [Instances -> SUBSET Keys]
         /\ \A l \in Instances : mixed[l] \subseteq mixed'[l]
         /\ m.key \notin mixed'[i] =>
              /\ up[i] # "loaded"
              /\ \A t \in Subjects : \A j \in DOMAIN inbox[i][t] :
                   inbox[i][t][j].key = m.key => ~(inbox[i][t][j].n < m.n)
<1>1. /\ inbox \in [Instances -> Mail] /\ inbox[i][s] # <<>> /\ inbox[i][s] \in Seq(Msg)
      /\ inbox' = [inbox EXCEPT ![i] = [inbox[i] EXCEPT ![s] = Tail(inbox[i][s])]]
  BY DEF Mailed, Take, Mail
<1>2. /\ m \in Msg /\ 1 \in DOMAIN inbox[i][s] /\ m = inbox[i][s][1] /\ Tail(inbox[i][s]) \in Seq(Msg)
      /\ \A j \in DOMAIN Tail(inbox[i][s]) :
           j + 1 \in DOMAIN inbox[i][s] /\ Tail(inbox[i][s])[j] = inbox[i][s][j + 1]
      /\ \A j \in DOMAIN inbox[i][s] :
           inbox[i][s][j] = m \/ \E l \in DOMAIN Tail(inbox[i][s]) : Tail(inbox[i][s])[l] = inbox[i][s][j]
  BY <1>1, TailFacts
<1>3. m.n \in Nat /\ m.key \in Keys /\ m.reg \in Regs
  BY <1>2 DEF Msg, Mailed
<1>4. /\ inbox' \in [Instances -> Mail] /\ inbox'[i] = [inbox[i] EXCEPT ![s] = Tail(inbox[i][s])]
      /\ \A l \in Instances \ {i} : inbox'[l] = inbox[l]
  BY <1>1, <1>2 DEF Mail
<1>5. inbox[i] \in Mail
  BY <1>1
<1>6. inbox'[i][s] = Tail(inbox[i][s]) /\ \A t \in Subjects \ {s} : inbox'[i][t] = inbox[i][t]
  BY <1>4, <1>5 DEF Mail
<1>7. /\ \A t \in Subjects : \A j \in DOMAIN inbox'[i][t] :
           \E p \in DOMAIN inbox[i][t] : inbox'[i][t][j] = inbox[i][t][p]
      /\ \A t \in Subjects : \A j \in DOMAIN inbox[i][t] :
           \/ t = s /\ inbox[i][t][j] = m
           \/ \E p \in DOMAIN inbox'[i][t] : inbox'[i][t][p] = inbox[i][t][j]
  <2> SUFFICES ASSUME NEW t \in Subjects
               PROVE  /\ \A j \in DOMAIN inbox'[i][t] :
                           \E p \in DOMAIN inbox[i][t] : inbox'[i][t][j] = inbox[i][t][p]
                      /\ \A j \in DOMAIN inbox[i][t] :
                           \/ t = s /\ inbox[i][t][j] = m
                           \/ \E p \in DOMAIN inbox'[i][t] : inbox'[i][t][p] = inbox[i][t][j]
    OBVIOUS
  <2>1. CASE t = s
    <3> DEFINE q == inbox[i][s]
               r == Tail(q)
    <3>1. /\ \A j \in DOMAIN r : j + 1 \in DOMAIN q /\ r[j] = q[j + 1]
          /\ \A j \in DOMAIN q : q[j] = m \/ \E l \in DOMAIN r : r[l] = q[j]
      BY <1>2
    <3>2. inbox[i][t] = q /\ inbox'[i][t] = r
      BY <1>6, <2>1
    <3> HIDE DEF q, r
    <3>3. \A j \in DOMAIN r : \E p \in DOMAIN q : r[j] = q[p]
      BY <3>1
    <3> QED
      BY <2>1, <3>1, <3>2, <3>3
  <2>2. CASE t # s
    BY <1>6, <2>2
  <2> QED
    BY <2>1, <2>2
<1> DEFINE late == \E t \in Subjects : \E j \in DOMAIN inbox[i][t] :
                     inbox[i][t][j].key = m.key /\ inbox[i][t][j].n < m.n
<1>8. mixed' = IF late \/ up[i] = "loaded" THEN [mixed EXCEPT ![i] = @ \cup {m.key}] ELSE mixed
  BY DEF Take
<1>9. mixed \in [Instances -> SUBSET Keys]
  BY DEF Maps
<1>10. /\ mixed' \in [Instances -> SUBSET Keys] /\ \A l \in Instances : mixed[l] \subseteq mixed'[l]
       /\ m.key \notin mixed'[i] => up[i] # "loaded" /\ ~late
  <2>1. CASE mixed' = mixed /\ ~(late \/ up[i] = "loaded")
    BY <1>9, <2>1
  <2>2. CASE mixed' = [mixed EXCEPT ![i] = @ \cup {m.key}]
    <3> HIDE DEF late
    <3>1. mixed[i] \cup {m.key} \in SUBSET Keys
      BY <1>3, <1>9
    <3>2. mixed'[i] = mixed[i] \cup {m.key} /\ \A l \in Instances \ {i} : mixed'[l] = mixed[l]
      BY <1>9, <2>2
    <3> QED
      BY <1>9, <2>2, <3>1, <3>2
  <2> QED
    BY <1>8, <2>1, <2>2
<1> QED
  BY <1>2, <1>3, <1>4, <1>7, <1>10

\* What is sent about k: every instance that is subscribed gets it.
LEMMA SendFacts ==
  ASSUME Mailed, Maps, NEW s \in Subjects, NEW k \in Keys, NEW r \in Regs, Send(s, k, r),
         NEW m, m = [n |-> sent + 1, key |-> k, reg |-> r]
  PROVE  /\ m \in Msg /\ sent' = sent + 1 /\ sent' \in Nat
         /\ inbox' \in [Instances -> Mail]
         /\ mixed' \in [Instances -> SUBSET Keys]
         /\ \A i \in Instances : mixed[i] \subseteq mixed'[i]
         /\ \A i \in Instances : up[i] = "down" => inbox'[i] = inbox[i]
         /\ \A i \in Instances : up[i] = "up" => \E j \in DOMAIN inbox'[i][s] : inbox'[i][s][j] = m
         /\ \A i \in Instances : up[i] # "down" /\ k \notin mixed'[i] =>
              \E j \in DOMAIN inbox'[i][s] : inbox'[i][s][j] = m
         /\ \A i \in Instances, t \in Subjects : \A j \in DOMAIN inbox[i][t] :
              \E p \in DOMAIN inbox'[i][t] : inbox'[i][t][p] = inbox[i][t][j]
         /\ \A i \in Instances, t \in Subjects : \A j \in DOMAIN inbox'[i][t] :
              \/ t = s /\ inbox'[i][t][j] = m
              \/ \E p \in DOMAIN inbox[i][t] : inbox[i][t][p] = inbox'[i][t][j]
<1> DEFINE gets == {i \in Instances : up[i] \notin {"down"} \cup (IF s = "unregistered" THEN {"half"} ELSE {})}
<1>1. /\ sent' = sent + 1
      /\ inbox' = [i \in Instances |-> IF i \in gets THEN [inbox[i] EXCEPT ![s] = Append(@, m)] ELSE inbox[i]]
      /\ mixed' = [i \in Instances |-> IF up[i] = "half" /\ i \notin gets THEN mixed[i] \cup {k} ELSE mixed[i]]
  BY DEF Send
<1>2. m \in Msg /\ sent' \in Nat
  BY <1>1 DEF Msg, Mailed, Regs, Maps
<1>3. \A i \in Instances : up[i] # "down" /\ i \notin gets => up[i] = "half"
  OBVIOUS
<1>4. \A i \in Instances : (i \in gets => up[i] # "down") /\ (up[i] = "up" => i \in gets)
  OBVIOUS
<1> HIDE DEF gets
<1>5. ASSUME NEW i \in Instances
      PROVE  /\ inbox'[i] \in Mail
             /\ i \in gets => /\ inbox'[i][s] = Append(inbox[i][s], m)
                              /\ \A t \in Subjects \ {s} : inbox'[i][t] = inbox[i][t]
             /\ i \notin gets => inbox'[i] = inbox[i]
             /\ \A t \in Subjects : inbox[i][t] \in Seq(Msg)
  <2>1. inbox[i] \in Mail
    BY DEF Mailed
  <2>2. inbox[i][s] \in Seq(Msg)
    BY <2>1 DEF Mail
  <2>3. Append(inbox[i][s], m) \in Seq(Msg)
    BY <1>2, <2>2, AppendFacts
  <2>4. CASE i \in gets
    <3>1. inbox'[i] = [inbox[i] EXCEPT ![s] = Append(inbox[i][s], m)]
      BY <1>1, <2>4
    <3> QED
      BY <2>1, <2>3, <2>4, <3>1 DEF Mail
  <2>5. CASE i \notin gets
    BY <1>1, <2>1, <2>5 DEF Mail
  <2> QED
    BY <2>4, <2>5
<1>6. inbox' \in [Instances -> Mail]
  <2>1. inbox' = [i \in Instances |-> inbox'[i]]
    BY <1>1
  <2> QED
    BY <1>5, <2>1
<1>7. /\ mixed' \in [Instances -> SUBSET Keys]
      /\ \A i \in Instances : mixed[i] \subseteq mixed'[i]
      /\ \A i \in Instances : up[i] = "half" /\ i \notin gets => k \in mixed'[i]
  <2>1. \A i \in Instances : mixed[i] \cup {k} \subseteq Keys /\ mixed[i] \subseteq Keys
    BY DEF Maps
  <2>2. \A i \in Instances : mixed'[i] = IF up[i] = "half" /\ i \notin gets THEN mixed[i] \cup {k} ELSE mixed[i]
    BY <1>1
  <2>3. mixed' = [i \in Instances |-> mixed'[i]] /\ \A i \in Instances : mixed'[i] \in SUBSET Keys
    BY <1>1, <2>1, <2>2
  <2> QED
    BY <2>2, <2>3
<1>8. ASSUME NEW i \in Instances, i \in gets
      PROVE  /\ \E j \in DOMAIN inbox'[i][s] : inbox'[i][s][j] = m
             /\ \A j \in DOMAIN inbox[i][s] : \E p \in DOMAIN inbox'[i][s] : inbox'[i][s][p] = inbox[i][s][j]
             /\ \A j \in DOMAIN inbox'[i][s] :
                  inbox'[i][s][j] = m \/ \E p \in DOMAIN inbox[i][s] : inbox[i][s][p] = inbox'[i][s][j]
  <2> DEFINE q == inbox[i][s]
  <2>1. q \in Seq(Msg) /\ inbox'[i][s] = Append(q, m)
    BY <1>5, <1>8
  <2> HIDE DEF q
  <2>2. /\ \E j \in DOMAIN Append(q, m) : Append(q, m)[j] = m
        /\ \A j \in DOMAIN q : \E p \in DOMAIN Append(q, m) : Append(q, m)[p] = q[j]
        /\ \A j \in DOMAIN Append(q, m) : Append(q, m)[j] = m \/ \E p \in DOMAIN q : q[p] = Append(q, m)[j]
    BY <1>2, <2>1, AppendFacts
  <2> QED
    BY <2>1, <2>2 DEF q
<1>9. \A i \in Instances : up[i] # "down" /\ k \notin mixed'[i] => i \in gets
  BY <1>3, <1>7
<1>10. ASSUME NEW i \in Instances, NEW t \in Subjects
       PROVE  /\ \A j \in DOMAIN inbox[i][t] : \E p \in DOMAIN inbox'[i][t] : inbox'[i][t][p] = inbox[i][t][j]
              /\ \A j \in DOMAIN inbox'[i][t] :
                   \/ t = s /\ inbox'[i][t][j] = m
                   \/ \E p \in DOMAIN inbox[i][t] : inbox[i][t][p] = inbox'[i][t][j]
  <2>1. CASE i \in gets /\ t = s
    BY <1>8, <2>1
  <2>2. CASE ~(i \in gets /\ t = s)
    <3>1. inbox'[i][t] = inbox[i][t]
      BY <1>5, <2>2
    <3> QED
      BY <3>1
  <2> QED
    BY <2>1, <2>2
<1>11. \A i \in Instances : up[i] = "down" => inbox'[i] = inbox[i]
  BY <1>4, <1>5
<1>12. \A i \in Instances : up[i] # "down" /\ k \notin mixed'[i] =>
         \E j \in DOMAIN inbox'[i][s] : inbox'[i][s][j] = m
  BY <1>8, <1>9
<1>13. /\ \A i \in Instances, t \in Subjects : \A j \in DOMAIN inbox[i][t] :
            \E p \in DOMAIN inbox'[i][t] : inbox'[i][t][p] = inbox[i][t][j]
       /\ \A i \in Instances, t \in Subjects : \A j \in DOMAIN inbox'[i][t] :
            \/ t = s /\ inbox'[i][t][j] = m
            \/ \E p \in DOMAIN inbox[i][t] : inbox[i][t][p] = inbox'[i][t][j]
  BY <1>10
<1>14. \A i \in Instances : up[i] = "up" => \E j \in DOMAIN inbox'[i][s] : inbox'[i][s][j] = m
  BY <1>4, <1>8
<1> QED
  BY <1>1, <1>2, <1>6, <1>7, <1>11, <1>12, <1>13, <1>14

-----------------------------------------------------------------------------
(* The types.                                                               *)

\* Steps that leave the numbering of the registrations.
LEMMA MapsStep ==
  ASSUME Maps, Called, Mailed, [Next]_vars
  PROVE  Maps'
<1>0. /\ \A c \in Callers : /\ call[c].reg \in Regs
                            /\ call[c].at # "idle" => call[c].key \in Keys /\ call[c].on \in Instances
      /\ Len(regs) \in Nat /\ 0 \in Regs /\ Nothing \in [Keys -> Regs]
  BY DEF Called, Maps, Regs, Nothing
<1>1. ASSUME NEW i \in Instances,
             SubscribeRegistered(i) \/ SubscribeUnregistered(i) \/ LoadStore(i) \/ FillEvents(i)
      PROVE  Maps'
  <2>1. CASE SubscribeRegistered(i) \/ SubscribeUnregistered(i)
    BY <2>1 DEF SubscribeRegistered, SubscribeUnregistered, Maps, Regs, local, remote, history
  <2>2. CASE LoadStore(i)
    BY <2>2 DEF LoadStore, Maps, Regs, remote, history
  <2>3. CASE FillEvents(i)
    <3> DEFINE f == [k \in Keys |-> IF loaded[i][k] # 0 THEN loaded[i][k] ELSE live[i][k]]
    <3>1. f \in [Keys -> Regs]
      BY DEF Maps
    <3>2. live' = [live EXCEPT ![i] = f]
      BY <2>3 DEF FillEvents
    <3> HIDE DEF f
    <3>3. live' \in [Instances -> [Keys -> Regs]]
      BY <3>1, <3>2 DEF Maps
    <3>4. /\ up' = [up EXCEPT ![i] = "up"] /\ loaded' = [loaded EXCEPT ![i] = Nothing]
          /\ UNCHANGED <<lookup, mixed, store, crossed, gone, regs, closed>>
      BY <2>3 DEF FillEvents, remote, history
    <3>5. up' \in [Instances -> {"down", "half", "subscribed", "loaded", "up"}]
      BY <3>4 DEF Maps
    <3>6. loaded' \in [Instances -> [Keys -> Regs]]
      BY <1>0, <3>4 DEF Maps
    <3>7. Regs' = Regs
      BY <3>4 DEF Regs
    <3> QED
      BY <3>3, <3>4, <3>5, <3>6, <3>7 DEF Maps
  <2> QED
    BY <1>1, <2>1, <2>2, <2>3
<1>2. ASSUME NEW i \in Instances, Crash(i) PROVE Maps'
  <2> DEFINE here == {c \in Callers : call[c].on = i}
  <2>1. /\ crossed' = crossed \cup {call[c].key : c \in {d \in here : call[d].at \in {"publish", "announce"}}}
        /\ gone' = gone \cup {lookup[i][k] : k \in Keys} \cup {call[c].reg : c \in here}
        /\ up' = [up EXCEPT ![i] = "down"] /\ loaded' = [loaded EXCEPT ![i] = Nothing]
        /\ live' = [live EXCEPT ![i] = Nothing] /\ lookup' = [lookup EXCEPT ![i] = Nothing]
        /\ mixed' = [mixed EXCEPT ![i] = {}] /\ UNCHANGED <<store, regs, closed>>
    BY <1>2 DEF Crash
  <2>2. crossed' \subseteq Keys
    BY <1>0, <2>1 DEF Maps
  <2>3. gone' \subseteq Regs
    <3>1. {lookup[i][k] : k \in Keys} \subseteq Regs
      BY DEF Maps
    <3>2. {call[c].reg : c \in here} \subseteq Regs
      BY <1>0
    <3> QED
      BY <2>1, <3>1, <3>2 DEF Maps
  <2> HIDE DEF here
  <2>4. Regs' = Regs
    BY <2>1 DEF Regs
  <2> QED
    BY <1>0, <2>1, <2>2, <2>3, <2>4 DEF Maps
<1>3. ASSUME NEW i \in Instances, HandleRegistered(i) PROVE Maps'
  <2> DEFINE m == Head(inbox[i]["registered"])
  <2>1. m.key \in Keys /\ m.reg \in Regs /\ mixed' \in [Instances -> SUBSET Keys]
    BY <1>3, TakeFacts DEF HandleRegistered, Subjects
  <2>2. /\ live' = [live EXCEPT ![i] = [live[i] EXCEPT ![m.key] = m.reg]]
        /\ UNCHANGED <<up, loaded, lookup, store, crossed, gone, regs, closed>>
    BY <1>3 DEF HandleRegistered, Maps
  <2> HIDE DEF m
  <2> QED
    BY <2>1, <2>2 DEF Maps, Regs
<1>4. ASSUME NEW i \in Instances, HandleUnregistered(i) PROVE Maps'
  <2> DEFINE m == Head(inbox[i]["unregistered"])
  <2>1. m.key \in Keys /\ mixed' \in [Instances -> SUBSET Keys]
    BY <1>4, TakeFacts DEF HandleUnregistered, Subjects
  <2>2. /\ live' = [live EXCEPT ![i] = [live[i] EXCEPT ![m.key] = 0]]
        /\ lookup' = [lookup EXCEPT ![i] = [lookup[i] EXCEPT ![m.key] = 0]]
        /\ closed' = closed \cup ({lookup[i][m.key]} \ {0})
        /\ gone' = gone \/ gone' = gone \cup {lookup[i][m.key]}
        /\ UNCHANGED <<up, loaded, store, crossed, regs>>
    BY <1>4 DEF HandleUnregistered, RemoveEvent, Maps
  <2> HIDE DEF m
  <2>3. lookup[i][m.key] \in Regs
    BY <2>1 DEF Maps
  <2>4. closed' \subseteq 1..Len(regs) /\ gone' \subseteq Regs
    <3>1. closed \subseteq 1..Len(regs) /\ lookup[i][m.key] \in 0..Len(regs) /\ gone \subseteq Regs
      BY <2>3 DEF Maps, Regs
    <3>2. {lookup[i][m.key]} \ {0} \subseteq 1..Len(regs)
      BY <1>0, <3>1
    <3> QED
      BY <2>2, <2>3, <3>1, <3>2
  <2>5. live' \in [Instances -> [Keys -> Regs]] /\ lookup' \in [Instances -> [Keys -> Regs]]
    <3>1. /\ live \in [Instances -> [Keys -> Regs]] /\ lookup \in [Instances -> [Keys -> Regs]]
          /\ 0 \in Regs
      BY <1>0 DEF Maps
    <3> HIDE DEF m
    <3>2. [live[i] EXCEPT ![m.key] = 0] \in [Keys -> Regs] /\ [lookup[i] EXCEPT ![m.key] = 0] \in [Keys -> Regs]
      BY <3>1
    <3> QED
      BY <2>2, <3>1, <3>2
  <2>6. Regs' = Regs
    BY <2>2 DEF Regs
  <2> QED
    BY <2>1, <2>2, <2>4, <2>5, <2>6 DEF Maps
<1>5. ASSUME NEW i \in Instances, UnregisterAll(i) PROVE Maps'
  <2>1. {lookup[i][k] : k \in Keys} \subseteq Regs
    BY DEF Maps
  <2>2. gone' \subseteq Regs
    BY <1>5, <2>1 DEF UnregisterAll, Maps
  <2>3. UNCHANGED <<up, loaded, live, store, regs, closed, crossed, mixed>> /\ lookup' = [lookup EXCEPT ![i] = Nothing]
    BY <1>5 DEF UnregisterAll, remote
  <2> QED
    BY <1>0, <2>2, <2>3 DEF Maps, Regs
<1>6. ASSUME NEW c \in Callers, RegisterAdd(c) PROVE Maps'
  <2> DEFINE i == call[c].on
             k == call[c].key
             e == [key |-> k, on |-> i]
  <2>1. i \in Instances /\ k \in Keys
    BY <1>0, <1>6 DEF RegisterAdd
  <2>2. CASE UNCHANGED <<regs, lookup>>
    BY <1>6, <2>2 DEF RegisterAdd, Maps, Regs, remote, history
  <2>3. CASE regs' = Append(regs, e) /\ lookup' = [lookup EXCEPT ![i] = [lookup[i] EXCEPT ![k] = Len(regs) + 1]]
    <3>1. UNCHANGED <<up, loaded, live, store, crossed, mixed, gone, closed>>
      BY <1>6 DEF RegisterAdd, remote, history
    <3>2. e \in [key : Keys, on : Instances]
      BY <2>1
    <3>3. regs' \in Seq([key : Keys, on : Instances]) /\ Len(regs') = Len(regs) + 1
      <4> DEFINE T == [key : Keys, on : Instances]
      <4>1. e \in T /\ regs \in Seq(T)
        BY <3>2 DEF Maps
      <4> HIDE DEF e, T
      <4>2. regs' \in Seq(T) /\ Len(regs') = Len(regs) + 1
        BY <2>3, <4>1, AppendFacts
      <4> QED
        BY <4>2 DEF T
    <3>4. Regs \subseteq Regs' /\ 1..Len(regs) \subseteq 1..Len(regs') /\ Len(regs) + 1 \in Regs'
      BY <1>0, <3>3 DEF Regs
    <3> HIDE DEF e, i, k
    <3>5. lookup' \in [Instances -> [Keys -> Regs']]
      <4> DEFINE n == Len(regs) + 1
                 g == [lookup[i] EXCEPT ![k] = n]
                 R == Regs'
      <4>1. lookup \in [Instances -> [Keys -> R]] /\ n \in R /\ lookup' = [lookup EXCEPT ![i] = g]
        BY <2>3, <3>4 DEF Maps
      <4> HIDE DEF n, R
      <4>2. g \in [Keys -> R]
        BY <2>1, <4>1
      <4> HIDE DEF g
      <4>3. lookup' \in [Instances -> [Keys -> R]]
        BY <4>1, <4>2
      <4> QED
        BY <4>3 DEF R
    <3>6. /\ loaded \in [Instances -> [Keys -> Regs']] /\ live \in [Instances -> [Keys -> Regs']]
          /\ store \in [Keys -> Regs'] /\ gone \subseteq Regs' /\ closed \subseteq 1..Len(regs')
      <4> DEFINE R == Regs'
      <4>1. /\ loaded \in [Instances -> [Keys -> Regs]] /\ live \in [Instances -> [Keys -> Regs]]
            /\ store \in [Keys -> Regs] /\ gone \subseteq Regs /\ closed \subseteq 1..Len(regs) /\ Regs \subseteq R
        BY <3>4 DEF Maps
      <4>2. closed \subseteq 1..Len(regs')
        BY <3>4, <4>1
      <4> HIDE DEF R
      <4>3. store \in [Keys -> R] /\ gone \subseteq R
        BY <4>1
      <4>4. loaded \in [Instances -> [Keys -> R]]
        BY <4>1
      <4>5. live \in [Instances -> [Keys -> R]]
        BY <4>1
      <4> QED
        BY <4>2, <4>3, <4>4, <4>5 DEF R
    <3> QED
      BY <3>1, <3>3, <3>5, <3>6 DEF Maps
  <2> QED
    BY <1>6, <2>1, <2>2, <2>3 DEF RegisterAdd, Maps
<1>7. ASSUME NEW c \in Callers, RegisterLock(c) \/ RegisterSubscribe(c) PROVE Maps'
  BY <1>7 DEF RegisterLock, RegisterSubscribe, Maps, Regs, local, remote, history
<1>8. ASSUME NEW c \in Callers, RegisterStore(c) \/ UnregisterErase(c) PROVE Maps'
  <2>1. call[c].key \in Keys /\ call[c].reg \in Regs
    BY <1>0, <1>8 DEF RegisterStore, UnregisterErase
  <2>2. /\ \E r \in Regs : store' = [store EXCEPT ![call[c].key] = r]
        /\ crossed' = crossed \/ crossed' = crossed \cup {call[c].key}
        /\ gone' = gone \/ gone' = gone \cup ({call[c].reg} \ {store[call[c].key]})
        /\ UNCHANGED <<up, loaded, live, lookup, mixed, regs, closed>>
    BY <1>0, <1>8, <2>1 DEF RegisterStore, UnregisterErase, WriteStore, local
  <2>3. store' \in [Keys -> Regs]
    BY <2>2 DEF Maps
  <2>4. crossed' \subseteq Keys /\ gone' \subseteq Regs
    BY <2>1, <2>2 DEF Maps
  <2>5. Regs' = Regs
    BY <2>2 DEF Regs
  <2> QED
    BY <2>2, <2>3, <2>4, <2>5 DEF Maps
<1>9. ASSUME NEW c \in Callers, RegisterPublish(c) \/ UnregisterAnnounce(c) PROVE Maps'
  <2>1. \E s \in Subjects : Send(s, call[c].key, call[c].reg)
    BY <1>9 DEF RegisterPublish, UnregisterAnnounce, Subjects
  <2>2. call[c].key \in Keys /\ call[c].reg \in Regs
    BY <1>0, <1>9 DEF RegisterPublish, UnregisterAnnounce
  <2>3. mixed' \in [Instances -> SUBSET Keys]
    BY <2>1, <2>2, SendFacts
  <2>4. UNCHANGED <<up, loaded, live, lookup, store, crossed, gone, regs, closed>>
    BY <1>9 DEF RegisterPublish, UnregisterAnnounce, local
  <2> QED
    BY <2>3, <2>4 DEF Maps, Regs
<1>10. ASSUME NEW i \in Instances, NEW k \in Keys, RemoveEvent(i, k),
              UNCHANGED <<up, loaded, live, store, crossed, mixed, gone, regs>>
       PROVE  Maps'
  <2>1. /\ lookup' = [lookup EXCEPT ![i] = [lookup[i] EXCEPT ![k] = 0]]
        /\ closed' = closed \cup ({lookup[i][k]} \ {0}) /\ lookup[i][k] \in Regs
    BY <1>10 DEF RemoveEvent, Maps
  <2>2. closed' \subseteq 1..Len(regs)
    <3>1. closed \subseteq 1..Len(regs) /\ lookup[i][k] \in 0..Len(regs)
      BY <2>1 DEF Maps, Regs
    <3>2. {lookup[i][k]} \ {0} \subseteq 1..Len(regs)
      BY <1>0, <3>1
    <3> QED
      BY <2>1, <3>1, <3>2
  <2> QED
    BY <1>0, <1>10, <2>1, <2>2 DEF Maps, Regs
<1>11. ASSUME NEW c \in Callers, UnregisterRemove(c) PROVE Maps'
  <2>1. call[c].key \in Keys /\ call[c].on \in Instances
    BY <1>0, <1>11 DEF UnregisterRemove
  <2> QED
    BY <1>10, <1>11, <2>1 DEF UnregisterRemove, remote, history
<1>12. ASSUME NEW c \in Callers, NEW i \in Instances, NEW k \in Keys,
              RegisterCheck(c, i, k) \/ UnregisterCheck(c, i, k) \/ WatchdogRemove(c, i, k)
       PROVE  Maps'
  <2>1. CASE RegisterCheck(c, i, k) \/ UnregisterCheck(c, i, k)
    BY <2>1 DEF RegisterCheck, UnregisterCheck, Maps, Regs, local, remote, history
  <2>2. CASE WatchdogRemove(c, i, k)
    BY <1>10, <2>2 DEF WatchdogRemove, remote, history
  <2> QED
    BY <1>12, <2>1, <2>2
<1>13. CASE UNCHANGED vars
  BY <1>13 DEF vars, Maps, Regs, local, remote, history
<1> QED
  BY <1>1, <1>2, <1>3, <1>4, <1>5, <1>6, <1>7, <1>8, <1>9, <1>11, <1>12, <1>13 DEF Next, Proceed

\* Steps that change neither calls nor messages of an instance that is up.
LEMMA CalledStep ==
  ASSUME Maps, Called, [Next]_vars
  PROVE  Called'
<1>0. /\ Len(regs) \in Nat /\ 0 \in Regs /\ Regs \subseteq Nat
      /\ \A n \in Regs : n \in Nat
  BY DEF Maps, Regs
<1>1. ASSUME NEW i \in Instances, up[i] # "up", UNCHANGED <<call, lock, regs>>,
             \A l \in Instances \ {i} : up'[l] = up[l]
      PROVE  Called'
  BY <1>1 DEF Called, Regs
<1>2. ASSUME UNCHANGED <<call, lock, regs, up>> PROVE Called'
  BY <1>2 DEF Called, Regs
<1>3. ASSUME NEW i \in Instances, Crash(i) PROVE Called'
  <2> DEFINE here == {c \in Callers : call[c].on = i}
  <2>1. /\ call' = [c \in Callers |-> IF c \in here THEN Idle ELSE call[c]]
        /\ lock' = lock \ here /\ regs' = regs
        /\ up' = [up EXCEPT ![i] = "down"]
    BY <1>3 DEF Crash
  <2>2. \A c \in Callers : /\ c \in here => call'[c] = Idle
                           /\ c \notin here => call'[c] = call[c] /\ call[c].on # i
    BY <2>1
  <2>3. \A l \in Instances \ {i} : up'[l] = up[l]
    BY <2>1 DEF Maps
  <2>4. Idle \in Call /\ Idle.reg = 0 /\ Idle.at = "idle"
    BY DEF Idle, Call, Steps
  <2> HIDE DEF here
  <2>5. call' \in [Callers -> Call] /\ lock' \subseteq Callers
    BY <2>1, <2>2, <2>4 DEF Called
  <2>6. Regs' = Regs
    BY <2>1 DEF Regs
  <2>7. ASSUME NEW c \in Callers
        PROVE  /\ call'[c].reg \in Regs'
               /\ call'[c].at # "idle" => /\ call'[c].key \in Keys /\ call'[c].on \in Instances
                                          /\ up'[call'[c].on] = "up"
               /\ c \in lock' <=> call'[c].at \in {"subscribe", "store", "publish"}
    <3>1. CASE c \in here
      BY <1>0, <2>1, <2>2, <2>4, <2>6, <3>1 DEF Called
    <3>2. CASE c \notin here
      BY <2>1, <2>2, <2>3, <2>6, <3>2 DEF Called
    <3> QED
      BY <3>1, <3>2
  <2>8. \A c, d \in lock' : call'[c].on = call'[d].on => c = d
    BY <2>1, <2>2, <2>5 DEF Called
  <2> QED
    BY <2>5, <2>7, <2>8 DEF Called
<1>4. ASSUME NEW c \in Callers, NEW e \in Call, call' = [call EXCEPT ![c] = e], UNCHANGED up,
             Regs \subseteq Regs', e.reg \in Regs',
             e.at # "idle" => e.key \in Keys /\ e.on \in Instances /\ up[e.on] = "up",
             c \notin lock', e.at \notin {"subscribe", "store", "publish"}, lock' = lock \ {c}
      PROVE  Called'
  <2>1. call' \in [Callers -> Call] /\ call'[c] = e /\ \A d \in Callers \ {c} : call'[d] = call[d]
    BY <1>4 DEF Called
  <2>2. ASSUME NEW d \in Callers
        PROVE  /\ call'[d].reg \in Regs'
               /\ call'[d].at # "idle" => /\ call'[d].key \in Keys /\ call'[d].on \in Instances
                                          /\ up'[call'[d].on] = "up"
               /\ d \in lock' <=> call'[d].at \in {"subscribe", "store", "publish"}
    BY <1>4, <2>1 DEF Called
  <2>3. \A b, d \in lock' : call'[b].on = call'[d].on => b = d
    BY <1>4, <2>1 DEF Called
  <2> QED
    BY <1>4, <2>1, <2>2, <2>3 DEF Called
<1>5. ASSUME NEW c \in Callers, NEW at,
             \/ (call[c].at = "lock" /\ at = "subscribe" /\ Free(call[c].on))
             \/ (call[c].at = "subscribe" /\ at = "store")
             \/ (call[c].at = "store" /\ at = "publish"),
             Goto(c, at), lock' = lock \cup {c}, UNCHANGED <<up, regs>>
      PROVE  Called'
  <2>1. /\ call[c] \in Call /\ call' = [call EXCEPT ![c] = [call[c] EXCEPT !.at = at]]
        /\ at \in {"subscribe", "store", "publish"} /\ at \in Steps
    BY <1>5 DEF Called, Goto, Steps
  <2>2. call' \in [Callers -> Call] /\ \A d \in Callers \ {c} : call'[d] = call[d]
    BY <2>1 DEF Called, Call
  <2>3. call'[c].at = at /\ call'[c].on = call[c].on /\ call'[c].key = call[c].key /\ call'[c].reg = call[c].reg
    BY <2>1 DEF Called, Call
  <2>4. Regs' = Regs
    BY <1>5 DEF Regs
  <2>5. ASSUME NEW d \in Callers
        PROVE  /\ call'[d].reg \in Regs'
               /\ call'[d].at # "idle" => /\ call'[d].key \in Keys /\ call'[d].on \in Instances
                                          /\ up'[call'[d].on] = "up"
               /\ d \in lock' <=> call'[d].at \in {"subscribe", "store", "publish"}
    BY <1>5, <2>1, <2>2, <2>3, <2>4 DEF Called
  <2>6. \A b \in lock \ {c} : call[b].on # call[c].on
    BY <1>5 DEF Called, Free
  <2>7. \A b, d \in lock' : call'[b].on = call'[d].on => b = d
    BY <1>5, <2>2, <2>3, <2>6 DEF Called
  <2> QED
    BY <1>5, <2>2, <2>5, <2>7 DEF Called
<1>6. ASSUME NEW i \in Instances, NEW k \in Keys, NEW c \in Callers, NEW at \in {"add", "remove", "erase"},
             NEW r \in Regs, Begin(c, i, k, at, r), UNCHANGED <<up, lock, regs>>
      PROVE  Called'
  <2> DEFINE e == [at |-> at, on |-> i, key |-> k, reg |-> r]
  <2>1. e \in Call /\ e.reg \in Regs' /\ Regs \subseteq Regs'
    BY <1>0, <1>6 DEF Call, Steps, Regs
  <2>2. call' = [call EXCEPT ![c] = e] /\ call[c].at = "idle" /\ up[i] = "up"
    BY <1>6 DEF Begin
  <2>3. c \notin lock /\ lock' = lock \ {c}
    BY <1>6, <2>2 DEF Called
  <2>4. e.at \notin {"subscribe", "store", "publish"} /\ e.on = i /\ e.key = k
    OBVIOUS
  <2> HIDE DEF e
  <2> QED
    BY <1>4, <1>6, <2>1, <2>2, <2>3, <2>4
<1>7. ASSUME NEW c \in Callers, Done(c), UNCHANGED <<up, regs>>, lock' = lock \ {c}
      PROVE  Called'
  <2>1. Idle \in Call /\ Idle.reg = 0 /\ Idle.at = "idle"
    BY DEF Idle, Call, Steps
  <2>2. Regs' = Regs
    BY <1>7 DEF Regs
  <2> QED
    BY <1>0, <1>4, <1>7, <2>1, <2>2 DEF Done
<1>8. ASSUME NEW c \in Callers, NEW at \in {"lock", "erase", "announce"}, NEW r \in Regs',
             call[c].at \in {"add", "remove", "erase"},
             call' = [call EXCEPT ![c].at = at, ![c].reg = r], UNCHANGED <<up, lock>>, Regs \subseteq Regs',
             Regs' \subseteq Nat
      PROVE  Called'
  <2> DEFINE e == [call[c] EXCEPT !.at = at, !.reg = r]
  <2>1. call[c] \in Call
    BY DEF Called
  <2>2. e \in Call /\ e.at = at /\ e.reg = r /\ e.on = call[c].on /\ e.key = call[c].key
    BY <1>8, <2>1 DEF Call, Steps
  <2>3. call' = [call EXCEPT ![c] = e] /\ lock' = lock \ {c} /\ c \notin lock'
    BY <1>8 DEF Called
  <2> HIDE DEF e
  <2>4. e.key \in Keys /\ e.on \in Instances /\ up[e.on] = "up"
    BY <1>8, <2>2 DEF Called
  <2> QED
    BY <1>4, <1>8, <2>2, <2>3, <2>4
<1>9. ASSUME NEW c \in Callers, RegisterAdd(c) PROVE Called'
  <2>1. CASE Done(c) /\ UNCHANGED regs
    <3>1. lock' = lock \ {c}
      BY <1>9 DEF RegisterAdd, Called
    <3> QED
      BY <1>7, <1>9, <2>1, <3>1 DEF RegisterAdd
  <2>2. CASE /\ regs' = Append(regs, [key |-> call[c].key, on |-> call[c].on])
             /\ call' = [call EXCEPT ![c].at = "lock", ![c].reg = Len(regs) + 1]
    <3>1. call[c].at = "add" /\ UNCHANGED <<up, lock>>
      BY <1>9 DEF RegisterAdd
    <3>2. Len(regs') = Len(regs) + 1
      <4> DEFINE T == [key : Keys, on : Instances]
                 e == [key |-> call[c].key, on |-> call[c].on]
      <4>1. e \in T /\ regs \in Seq(T) /\ regs' = Append(regs, e)
        BY <2>2, <3>1 DEF Maps, Called
      <4> HIDE DEF e, T
      <4> QED
        BY <4>1, AppendFacts
    <3>3. Regs \subseteq Regs' /\ Len(regs) + 1 \in Regs' /\ Regs' \subseteq Nat
      BY <1>0, <3>2 DEF Regs
    <3> QED
      BY <1>8, <2>2, <3>1, <3>3
  <2> QED
    BY <1>9, <2>1, <2>2 DEF RegisterAdd
<1>10. ASSUME NEW c \in Callers, UnregisterRemove(c) PROVE Called'
  <2>1. /\ call[c].at = "remove" /\ UNCHANGED <<up, lock, regs>>
        /\ call' = [call EXCEPT ![c].at = "erase", ![c].reg = lookup[call[c].on][call[c].key]]
    BY <1>10 DEF UnregisterRemove
  <2>2. lookup[call[c].on][call[c].key] \in Regs /\ Regs' = Regs
    BY <2>1 DEF Called, Maps, Regs
  <2> QED
    BY <1>0, <1>8, <2>1, <2>2
<1>11. ASSUME NEW c \in Callers, UnregisterErase(c) PROVE Called'
  <2>1. /\ call[c].at = "erase" /\ UNCHANGED <<up, lock, regs>>
        /\ call' = [call EXCEPT ![c].at = "announce", ![c].reg = store[call[c].key]]
    BY <1>11 DEF UnregisterErase, local
  <2>2. store[call[c].key] \in Regs /\ Regs' = Regs
    BY <2>1 DEF Called, Maps, Regs
  <2> QED
    BY <1>0, <1>8, <2>1, <2>2
<1>12. ASSUME NEW c \in Callers, RegisterPublish(c) \/ UnregisterAnnounce(c) PROVE Called'
  <2>1. Done(c) /\ UNCHANGED <<up, regs>>
    BY <1>12 DEF RegisterPublish, UnregisterAnnounce, local
  <2>2. lock' = lock \ {c}
    BY <1>12 DEF RegisterPublish, UnregisterAnnounce, local, Called
  <2> QED
    BY <1>7, <2>1, <2>2
<1>13. ASSUME NEW c \in Callers, RegisterLock(c) PROVE Called'
  <2>1. /\ call[c].at = "lock" /\ Free(call[c].on) /\ lock' = lock \cup {c}
        /\ Goto(c, "subscribe") /\ UNCHANGED <<up, regs>>
    BY <1>13 DEF RegisterLock
  <2> QED
    BY <1>5, <2>1
<1>14. ASSUME NEW c \in Callers, RegisterSubscribe(c) \/ RegisterStore(c) PROVE Called'
  <2>1. lock' = lock \cup {c}
    BY <1>14 DEF RegisterSubscribe, RegisterStore, local, Called
  <2>2. UNCHANGED <<up, regs>>
    BY <1>14 DEF RegisterSubscribe, RegisterStore, local
  <2>3. CASE call[c].at = "subscribe" /\ Goto(c, "store")
    BY <1>5, <2>1, <2>2, <2>3
  <2>4. CASE call[c].at = "store" /\ Goto(c, "publish")
    BY <1>5, <2>1, <2>2, <2>4
  <2> QED
    BY <1>14, <2>3, <2>4 DEF RegisterSubscribe, RegisterStore
<1>15. ASSUME NEW c \in Callers, NEW i \in Instances, NEW k \in Keys,
              RegisterCheck(c, i, k) \/ UnregisterCheck(c, i, k) \/ WatchdogRemove(c, i, k)
       PROVE  Called'
  <2>1. CASE RegisterCheck(c, i, k)
    BY <1>0, <1>6, <2>1 DEF RegisterCheck, local
  <2>2. CASE UnregisterCheck(c, i, k)
    BY <1>0, <1>6, <2>2 DEF UnregisterCheck, local
  <2>3. CASE WatchdogRemove(c, i, k)
    <3>1. lookup[i][k] \in Regs
      BY DEF Maps
    <3> QED
      BY <1>6, <2>3, <3>1 DEF WatchdogRemove
  <2> QED
    BY <1>15, <2>1, <2>2, <2>3
<1>16. ASSUME NEW i \in Instances,
              SubscribeRegistered(i) \/ SubscribeUnregistered(i) \/ LoadStore(i) \/ FillEvents(i)
       PROVE  Called'
  <2>1. up[i] # "up" /\ UNCHANGED <<call, lock, regs>>
    BY <1>16 DEF SubscribeRegistered, SubscribeUnregistered, LoadStore, FillEvents
  <2>2. \A l \in Instances \ {i} : up'[l] = up[l]
    BY <1>16 DEF SubscribeRegistered, SubscribeUnregistered, LoadStore, FillEvents, Maps
  <2> QED
    BY <1>1, <2>1, <2>2
<1>17. ASSUME NEW i \in Instances, HandleRegistered(i) \/ HandleUnregistered(i) \/ UnregisterAll(i)
       PROVE  Called'
  BY <1>2, <1>17 DEF HandleRegistered, HandleUnregistered, UnregisterAll
<1>18. CASE UNCHANGED vars
  BY <1>2, <1>18 DEF vars, local
<1> QED
  BY <1>3, <1>9, <1>10, <1>11, <1>12, <1>13, <1>14, <1>15, <1>16, <1>17, <1>18 DEF Next, Proceed

\* The types of what waits, and nothing waits for an instance that is down.
LEMMA MailedStep ==
  ASSUME Maps, Called, Mailed, Empty, [Next]_vars
  PROVE  Mailed' /\ Empty'
<1>0. /\ Nothing \in [Keys -> Regs] /\ NoMail \in Mail /\ inbox \in [Instances -> Mail] /\ sent \in Nat
      /\ \A s \in Subjects : DOMAIN NoMail[s] = {}
      /\ up \in [Instances -> {"down", "half", "subscribed", "loaded", "up"}] /\ DOMAIN live = Instances
  BY DEF Maps, Mailed, Regs, Nothing, NoMail, Mail
<1>1. Regs \subseteq Regs'
  <2>1. Len(regs) \in Nat
    BY DEF Maps
  <2>2. CASE regs' = regs
    BY <2>2 DEF Regs
  <2>3. ASSUME NEW c \in Callers, RegisterAdd(c) PROVE Regs \subseteq Regs'
    <3>1. CASE regs' = regs
      BY <3>1 DEF Regs
    <3>2. CASE regs' = Append(regs, [key |-> call[c].key, on |-> call[c].on])
      <4> DEFINE T == [key : Keys, on : Instances]
                 e == [key |-> call[c].key, on |-> call[c].on]
      <4>1. e \in T /\ regs \in Seq(T) /\ regs' = Append(regs, e)
        BY <2>3, <3>2 DEF Maps, Called, RegisterAdd
      <4> HIDE DEF e, T
      <4>2. Len(regs') = Len(regs) + 1
        BY <4>1, AppendFacts
      <4> QED
        BY <2>1, <4>2 DEF Regs
    <3> QED
      BY <2>3, <3>1, <3>2 DEF RegisterAdd
  <2>4. regs' = regs \/ \E c \in Callers : RegisterAdd(c)
    BY DEF Next, Proceed, vars, local, remote, history, SubscribeRegistered, SubscribeUnregistered, LoadStore,
           FillEvents, Crash, HandleRegistered, HandleUnregistered, UnregisterAll, RegisterLock, RegisterSubscribe,
           RegisterStore, RegisterPublish, UnregisterRemove, UnregisterErase, UnregisterAnnounce, RegisterCheck,
           UnregisterCheck, WatchdogRemove
  <2> QED
    BY <2>2, <2>3, <2>4
<1>2. ASSUME UNCHANGED <<sent, inbox>>,
             \A i \in Instances : up'[i] = "down" => up[i] = "down" /\ live'[i] = live[i]
      PROVE  Mailed' /\ Empty'
  BY <1>1, <1>2 DEF Mailed, Empty
<1>3. ASSUME NEW i \in Instances,
             SubscribeRegistered(i) \/ SubscribeUnregistered(i) \/ LoadStore(i) \/ FillEvents(i)
      PROVE  Mailed' /\ Empty'
  <2>1. UNCHANGED <<sent, inbox>>
    BY <1>3 DEF SubscribeRegistered, SubscribeUnregistered, LoadStore, FillEvents, remote
  <2>2. /\ up'[i] # "down" /\ \A l \in Instances \ {i} : up'[l] = up[l] /\ live'[l] = live[l]
    BY <1>0, <1>3 DEF SubscribeRegistered, SubscribeUnregistered, LoadStore, FillEvents
  <2> QED
    BY <1>2, <2>1, <2>2
<1>4. ASSUME NEW i \in Instances, Crash(i) PROVE Mailed' /\ Empty'
  <2>1. /\ up' = [up EXCEPT ![i] = "down"] /\ live' = [live EXCEPT ![i] = Nothing]
        /\ inbox' = [inbox EXCEPT ![i] = NoMail] /\ sent' = sent
    BY <1>4 DEF Crash
  <2>2. /\ live'[i] = Nothing /\ inbox'[i] = NoMail
        /\ \A l \in Instances \ {i} : up'[l] = up[l] /\ live'[l] = live[l] /\ inbox'[l] = inbox[l]
        /\ inbox' \in [Instances -> Mail]
    BY <1>0, <2>1
  <2>3. \A l \in Instances : \A s \in Subjects : \A j \in DOMAIN inbox'[l][s] :
          inbox'[l][s][j].n <= sent' /\ inbox'[l][s][j].reg \in Regs'
    BY <1>0, <1>1, <2>1, <2>2 DEF Mailed
  <2> QED
    BY <2>1, <2>2, <2>3, <1>0 DEF Mailed, Empty
<1>5. ASSUME NEW i \in Instances, NEW s \in Subjects, Take(i, s), sent' = sent, UNCHANGED up,
             \A l \in Instances \ {i} : live'[l] = live[l]
      PROVE  Mailed' /\ Empty'
  <2>1. PICK m : m = Head(inbox[i][s])
    OBVIOUS
  <2>2. /\ inbox' \in [Instances -> Mail] /\ \A l \in Instances \ {i} : inbox'[l] = inbox[l]
        /\ \A t \in Subjects : \A j \in DOMAIN inbox'[i][t] :
             \E p \in DOMAIN inbox[i][t] : inbox'[i][t][j] = inbox[i][t][p]
        /\ \E j \in DOMAIN inbox[i][s] : inbox[i][s][j] = m
    BY <1>5, <2>1, TakeFacts
  <2>3. up[i] # "down"
    <3>1. inbox[i] # NoMail
      BY <1>0, <2>2
    <3> QED
      BY <3>1 DEF Empty
  <2>4. \A l \in Instances : \A t \in Subjects : \A j \in DOMAIN inbox'[l][t] :
          inbox'[l][t][j].n <= sent' /\ inbox'[l][t][j].reg \in Regs'
    <3> SUFFICES ASSUME NEW l \in Instances, NEW t \in Subjects, NEW j \in DOMAIN inbox'[l][t]
                 PROVE  inbox'[l][t][j].n <= sent' /\ inbox'[l][t][j].reg \in Regs'
      OBVIOUS
    <3>1. \E p \in DOMAIN inbox[l][t] : inbox'[l][t][j] = inbox[l][t][p]
      BY <2>2
    <3> QED
      BY <1>1, <1>5, <3>1 DEF Mailed
  <2> QED
    BY <1>0, <1>5, <2>2, <2>3, <2>4 DEF Mailed, Empty
<1>6. ASSUME NEW s \in Subjects, NEW k \in Keys, NEW r \in Regs, Send(s, k, r), UNCHANGED <<up, live>>
      PROVE  Mailed' /\ Empty'
  <2>1. PICK m : m = [n |-> sent + 1, key |-> k, reg |-> r]
    OBVIOUS
  <2>2. /\ sent' = sent + 1 /\ sent' \in Nat /\ inbox' \in [Instances -> Mail]
        /\ \A i \in Instances : up[i] = "down" => inbox'[i] = inbox[i]
        /\ \A i \in Instances, t \in Subjects : \A j \in DOMAIN inbox'[i][t] :
              \/ t = s /\ inbox'[i][t][j] = m
              \/ \E p \in DOMAIN inbox[i][t] : inbox[i][t][p] = inbox'[i][t][j]
    BY <1>6, <2>1, SendFacts
  <2>3. ASSUME NEW l \in Instances, NEW t \in Subjects, NEW j \in DOMAIN inbox'[l][t]
        PROVE  inbox'[l][t][j].n <= sent' /\ inbox'[l][t][j].reg \in Regs'
    <3>1. CASE inbox'[l][t][j] = m
      <4>1. m.n = sent + 1 /\ m.reg = r
        BY <2>1
      <4> QED
        BY <1>0, <1>1, <2>2, <3>1, <4>1
    <3>2. CASE \E p \in DOMAIN inbox[l][t] : inbox[l][t][p] = inbox'[l][t][j]
      <4>1. PICK p \in DOMAIN inbox[l][t] : inbox[l][t][p] = inbox'[l][t][j]
        BY <3>2
      <4>2. inbox[l][t][p].n <= sent /\ inbox[l][t][p].reg \in Regs /\ inbox[l][t][p].n \in Nat
        <5>1. inbox[l][t] \in Seq(Msg) /\ inbox[l][t][p] \in Msg
          <6>1. inbox[l][t] \in Seq(Msg)
            BY <1>0 DEF Mail
          <6> QED
            BY <6>1
        <5>2. inbox[l][t][p].n \in Nat
          BY <5>1 DEF Msg
        <5> QED
          BY <5>2 DEF Mailed
      <4> QED
        BY <1>0, <1>1, <2>2, <4>1, <4>2
    <3> QED
      BY <2>2, <3>1, <3>2
  <2>4. Mailed'
    BY <2>2, <2>3 DEF Mailed
  <2>5. Empty'
    BY <1>6, <2>2 DEF Empty
  <2> QED
    BY <2>4, <2>5
<1>7. ASSUME NEW i \in Instances, HandleRegistered(i) PROVE Mailed' /\ Empty'
  <2>1. /\ Take(i, "registered") /\ sent' = sent /\ up' = up
        /\ live' = [live EXCEPT ![i] = [live[i] EXCEPT ![Head(inbox[i]["registered"]).key] = Head(inbox[i]["registered"]).reg]]
    BY <1>7 DEF HandleRegistered
  <2>2. \A l \in Instances \ {i} : live'[l] = live[l]
    BY <1>0, <2>1
  <2> QED
    BY <1>5, <2>1, <2>2 DEF Subjects
<1>8. ASSUME NEW i \in Instances, HandleUnregistered(i) PROVE Mailed' /\ Empty'
  <2>1. /\ Take(i, "unregistered") /\ sent' = sent /\ up' = up
        /\ live' = [live EXCEPT ![i] = [live[i] EXCEPT ![Head(inbox[i]["unregistered"]).key] = 0]]
    BY <1>8 DEF HandleUnregistered
  <2>2. \A l \in Instances \ {i} : live'[l] = live[l]
    BY <1>0, <2>1
  <2> QED
    BY <1>5, <2>1, <2>2 DEF Subjects
<1>9. ASSUME NEW c \in Callers, RegisterPublish(c) \/ UnregisterAnnounce(c) PROVE Mailed' /\ Empty'
  <2>1. PICK s \in Subjects : Send(s, call[c].key, call[c].reg)
    BY <1>9 DEF RegisterPublish, UnregisterAnnounce, Subjects
  <2>2. PICK k, r : k = call[c].key /\ r = call[c].reg
    OBVIOUS
  <2>3. k \in Keys /\ r \in Regs /\ Send(s, k, r)
    BY <1>9, <2>1, <2>2 DEF RegisterPublish, UnregisterAnnounce, Called
  <2>4. UNCHANGED <<up, live>>
    BY <1>9 DEF RegisterPublish, UnregisterAnnounce, local
  <2> QED
    BY <1>6, <2>3, <2>4
<1>10. ASSUME UNCHANGED <<sent, inbox, up, live>> PROVE Mailed' /\ Empty'
  BY <1>2, <1>10
<1>11. ASSUME NEW c \in Callers, RegisterAdd(c) \/ RegisterLock(c) \/ RegisterSubscribe(c) \/ RegisterStore(c)
                                 \/ UnregisterRemove(c) \/ UnregisterErase(c)
       PROVE  Mailed' /\ Empty'
  <2>1. UNCHANGED <<sent, inbox, up, live>>
    BY <1>11 DEF RegisterAdd, RegisterLock, RegisterSubscribe, RegisterStore, UnregisterRemove, UnregisterErase,
                 local, remote
  <2> QED
    BY <1>10, <2>1
<1>12. ASSUME NEW c \in Callers, NEW i \in Instances, NEW k \in Keys,
              RegisterCheck(c, i, k) \/ UnregisterCheck(c, i, k) \/ WatchdogRemove(c, i, k)
       PROVE  Mailed' /\ Empty'
  <2>1. UNCHANGED <<sent, inbox, up, live>>
    BY <1>12 DEF RegisterCheck, UnregisterCheck, WatchdogRemove, local, remote
  <2> QED
    BY <1>10, <2>1
<1>13. ASSUME NEW i \in Instances, UnregisterAll(i) PROVE Mailed' /\ Empty'
  <2>1. UNCHANGED <<sent, inbox, up, live>>
    BY <1>13 DEF UnregisterAll, remote
  <2> QED
    BY <1>10, <2>1
<1>14. CASE UNCHANGED vars
  BY <1>10, <1>14 DEF vars, local, remote
<1> QED
  BY <1>3, <1>4, <1>7, <1>8, <1>9, <1>11, <1>12, <1>13, <1>14 DEF Next, Proceed

-----------------------------------------------------------------------------
(* Who has written the store.                                               *)

\* Steps that begin and end no write of k.
LEMMA WrittenSame ==
  ASSUME NEW k \in Keys, Written(k), store'[k] = store[k], crossed \subseteq crossed',
         k \notin crossed' => \A c \in Callers : Writes(c, k)' =>
           Writes(c, k) /\ call'[c].at = call[c].at /\ call'[c].reg = call[c].reg
  PROVE  Written(k)'
BY DEF Written

LEMMA WrittenStep ==
  ASSUME Maps, Called, [Next]_vars, NEW k \in Keys, Written(k)
  PROVE  Written(k)'
<1>1. ASSUME UNCHANGED <<store, crossed, call>> PROVE Written(k)'
  BY <1>1 DEF Written, Writes
<1>2. ASSUME NEW c \in Callers, NEW e, call' = [call EXCEPT ![c] = e], e.at \notin {"publish", "announce"},
             UNCHANGED <<store, crossed>>
      PROVE  Written(k)'
  <2>1. call'[c] = e /\ \A d \in Callers \ {c} : call'[d] = call[d]
    BY <1>2 DEF Called
  <2> QED
    BY <1>2, <2>1, WrittenSame DEF Writes
<1>3. ASSUME NEW i \in Instances, Crash(i) PROVE Written(k)'
  <2> DEFINE here == {c \in Callers : call[c].on = i}
  <2>1. /\ call' = [c \in Callers |-> IF c \in here THEN Idle ELSE call[c]] /\ store' = store
        /\ crossed' = crossed \cup {call[c].key : c \in {d \in here : call[d].at \in {"publish", "announce"}}}
    BY <1>3 DEF Crash
  <2>2. \A c \in Callers : call'[c] = Idle \/ call'[c] = call[c]
    BY <2>1
  <2>3. Idle.at = "idle"
    BY DEF Idle
  <2> QED
    BY <2>1, <2>2, <2>3, WrittenSame DEF Writes
<1>4. ASSUME NEW c \in Callers, NEW r, NEW e, WriteStore(c, r), call' = [call EXCEPT ![c] = e],
             e.key = call[c].key, r = IF e.at = "publish" THEN e.reg ELSE 0, call[c].key \in Keys
      PROVE  Written(k)'
  <2>1. call'[c] = e /\ \A d \in Callers \ {c} : call'[d] = call[d]
    BY <1>4 DEF Called
  <2>2. /\ store' = [store EXCEPT ![call[c].key] = r]
        /\ crossed' = IF Crossing(c) THEN crossed \cup {call[c].key} ELSE crossed
    BY <1>4 DEF WriteStore
  <2>3. CASE call[c].key # k
    <3>1. store'[k] = store[k]
      BY <2>2, <2>3 DEF Maps
    <3> QED
      BY <1>4, <2>1, <2>2, <2>3, <3>1, WrittenSame DEF Writes
  <2>4. CASE call[c].key = k
    <3>1. store'[k] = r
      BY <2>2, <2>4 DEF Maps
    <3>2. ASSUME k \notin crossed' PROVE \A d \in Callers \ {c} : ~Writes(d, k)'
      BY <2>1, <2>2, <2>4, <3>2 DEF Crossing, Writes
    <3>3. Writes(c, k)' => store'[k] = IF call'[c].at = "publish" THEN call'[c].reg ELSE 0
      BY <1>4, <2>1, <3>1
    <3> QED
      BY <3>2, <3>3 DEF Written
  <2> QED
    BY <2>3, <2>4
<1>5. ASSUME NEW c \in Callers, RegisterStore(c) PROVE Written(k)'
  <2> DEFINE e == [call[c] EXCEPT !.at = "publish"]
  <2>1. call[c] \in Call /\ call[c].key \in Keys
    BY <1>5 DEF RegisterStore, Called
  <2>2. e.at = "publish" /\ e.reg = call[c].reg /\ e.key = call[c].key /\ call' = [call EXCEPT ![c] = e]
    BY <1>5, <2>1 DEF RegisterStore, Goto, Call
  <2>3. PICK r : r = call[c].reg
    OBVIOUS
  <2>4. WriteStore(c, r)
    BY <1>5, <2>3 DEF RegisterStore
  <2> HIDE DEF e
  <2> QED
    BY <1>4, <2>1, <2>2, <2>3, <2>4
<1>6. ASSUME NEW c \in Callers, UnregisterErase(c) PROVE Written(k)'
  <2> DEFINE e == [call[c] EXCEPT !.at = "announce", !.reg = store[call[c].key]]
  <2>1. call[c] \in Call /\ call[c].key \in Keys
    BY <1>6 DEF UnregisterErase, Called
  <2>2. e.at = "announce" /\ e.key = call[c].key /\ call' = [call EXCEPT ![c] = e]
    BY <1>6, <2>1 DEF UnregisterErase, Call
  <2>3. WriteStore(c, 0)
    BY <1>6 DEF UnregisterErase
  <2> HIDE DEF e
  <2> QED
    BY <1>4, <2>1, <2>2, <2>3
<1>7. ASSUME NEW c \in Callers,
             RegisterAdd(c) \/ RegisterLock(c) \/ RegisterSubscribe(c) \/ RegisterPublish(c)
             \/ UnregisterRemove(c) \/ UnregisterAnnounce(c)
      PROVE  Written(k)'
  <2>1. UNCHANGED <<store, crossed>>
    BY <1>7 DEF RegisterAdd, RegisterLock, RegisterSubscribe, RegisterPublish, UnregisterRemove, UnregisterAnnounce,
                remote, history
  <2>2. call[c] \in Call /\ Idle.at = "idle"
    BY DEF Called, Idle
  <2>3. \E e : call' = [call EXCEPT ![c] = e] /\ e.at \notin {"publish", "announce"}
    <3>1. CASE Done(c)
      BY <2>2, <3>1 DEF Done
    <3>2. CASE \E at \in {"subscribe", "store"} : Goto(c, at)
      <4>1. PICK at \in {"subscribe", "store"} : call' = [call EXCEPT ![c] = [call[c] EXCEPT !.at = at]]
        BY <3>2 DEF Goto
      <4>2. [call[c] EXCEPT !.at = at].at = at
        BY <2>2 DEF Call
      <4> QED
        BY <4>1, <4>2
    <3>3. CASE \E at \in {"lock", "erase"}, r \in Nat \cup Regs' \cup Regs :
                 call' = [call EXCEPT ![c].at = at, ![c].reg = r]
      <4>1. PICK at \in {"lock", "erase"}, r \in Nat \cup Regs' \cup Regs :
                 call' = [call EXCEPT ![c].at = at, ![c].reg = r]
        BY <3>3
      <4>2. call' = [call EXCEPT ![c] = [call[c] EXCEPT !.at = at, !.reg = r]]
        BY <4>1
      <4>3. [call[c] EXCEPT !.at = at, !.reg = r].at = at
        BY <2>2 DEF Call
      <4> QED
        BY <4>2, <4>3
    <3>4. RegisterPublish(c) \/ UnregisterAnnounce(c) => Done(c)
      BY DEF RegisterPublish, UnregisterAnnounce
    <3>5. RegisterLock(c) \/ RegisterSubscribe(c) => \E at \in {"subscribe", "store"} : Goto(c, at)
      BY DEF RegisterLock, RegisterSubscribe
    <3>6. RegisterAdd(c) => Done(c) \/ call' = [call EXCEPT ![c].at = "lock", ![c].reg = Len(regs) + 1]
      BY DEF RegisterAdd
    <3>7. Len(regs) + 1 \in Nat
      BY DEF Maps
    <3>8. UnregisterRemove(c) =>
            /\ call' = [call EXCEPT ![c].at = "erase", ![c].reg = lookup[call[c].on][call[c].key]]
            /\ lookup[call[c].on][call[c].key] \in Regs
      BY DEF UnregisterRemove, Called, Maps
    <3> QED
      BY <1>7, <3>1, <3>2, <3>3, <3>4, <3>5, <3>6, <3>7, <3>8
  <2> QED
    BY <1>2, <2>1, <2>3
<1>8. ASSUME NEW c \in Callers, NEW i \in Instances, NEW l \in Keys,
             RegisterCheck(c, i, l) \/ UnregisterCheck(c, i, l) \/ WatchdogRemove(c, i, l)
      PROVE  Written(k)'
  <2>1. UNCHANGED <<store, crossed>>
    BY <1>8 DEF RegisterCheck, UnregisterCheck, WatchdogRemove, remote, history
  <2>2. \E at \in {"add", "remove", "erase"}, r \in Regs : Begin(c, i, l, at, r)
    BY <1>8 DEF RegisterCheck, UnregisterCheck, WatchdogRemove, Maps, Regs
  <2>3. PICK at \in {"add", "remove", "erase"}, r \in Regs :
          call' = [call EXCEPT ![c] = [at |-> at, on |-> i, key |-> l, reg |-> r]]
    BY <2>2 DEF Begin
  <2>4. [at |-> at, on |-> i, key |-> l, reg |-> r].at = at
    OBVIOUS
  <2> QED
    BY <1>2, <2>1, <2>3, <2>4
<1>9. ASSUME NEW i \in Instances,
             \/ SubscribeRegistered(i) \/ SubscribeUnregistered(i) \/ LoadStore(i) \/ FillEvents(i)
             \/ HandleRegistered(i) \/ HandleUnregistered(i) \/ UnregisterAll(i)
      PROVE  Written(k)'
  <2>1. UNCHANGED <<store, crossed, call>>
    BY <1>9 DEF SubscribeRegistered, SubscribeUnregistered, LoadStore, FillEvents, HandleRegistered,
                HandleUnregistered, UnregisterAll, remote, history
  <2> QED
    BY <1>1, <2>1
<1>10. CASE UNCHANGED vars
  BY <1>1, <1>10 DEF vars, remote, history
<1> QED
  BY <1>3, <1>5, <1>6, <1>7, <1>8, <1>9, <1>10 DEF Next, Proceed

-----------------------------------------------------------------------------
(* What an instance knows.                                                  *)

\* Steps that change nothing that i knows of k and end no write of k.
LEMMA InformedSame ==
  ASSUME NEW i \in Instances, NEW k \in Keys, Informed(i, k),
         up'[i] = up[i], live'[i] = live[i], loaded'[i] = loaded[i], store'[k] = store[k],
         inbox'[i] = inbox[i], mixed[i] \subseteq mixed'[i], crossed \subseteq crossed',
         k \notin crossed' /\ (\A c \in Callers : ~Writes(c, k)') => \A c \in Callers : ~Writes(c, k)
  PROVE  Informed(i, k)'
<1>1. \A s, m : Waits(i, k, s, m)' <=> Waits(i, k, s, m)
  BY DEF Waits
<1>2. LastSays(i, k) => LastSays(i, k)'
  BY <1>1 DEF LastSays
<1>3. Knows(i, k) => Knows(i, k)'
  BY DEF Knows
<1> QED
  BY <1>1, <1>2, <1>3 DEF Informed

\* What waits once i has taken m.
LEMMA TakeWaits ==
  ASSUME Mailed, Maps, NEW i \in Instances, NEW s \in Subjects, Take(i, s),
         NEW m, m = Head(inbox[i][s]), NEW k \in Keys
  PROVE  /\ m \in Msg /\ m.key \in Keys /\ mixed[i] \subseteq mixed'[i]
         /\ m.key = k => Waits(i, k, s, m)
         /\ \A t \in Subjects, l \in Msg : Waits(i, k, t, l)' => Waits(i, k, t, l)
         /\ \A t \in Subjects, l \in Msg : Waits(i, k, t, l) => (t = s /\ l = m) \/ Waits(i, k, t, l)'
         /\ m.key = k /\ k \notin mixed'[i] =>
              /\ up[i] # "loaded"
              /\ \A t \in Subjects, l \in Msg : Waits(i, k, t, l) => m.n <= l.n
<1>1. /\ m \in Msg /\ m.n \in Nat /\ m.key \in Keys /\ mixed[i] \subseteq mixed'[i]
      /\ \A t \in Subjects : \A j \in DOMAIN inbox'[i][t] :
           \E p \in DOMAIN inbox[i][t] : inbox'[i][t][j] = inbox[i][t][p]
      /\ \A t \in Subjects : \A j \in DOMAIN inbox[i][t] :
           \/ t = s /\ inbox[i][t][j] = m
           \/ \E p \in DOMAIN inbox'[i][t] : inbox'[i][t][p] = inbox[i][t][j]
      /\ \E j \in DOMAIN inbox[i][s] : inbox[i][s][j] = m
      /\ m.key \notin mixed'[i] =>
           /\ up[i] # "loaded"
           /\ \A t \in Subjects : \A j \in DOMAIN inbox[i][t] :
                inbox[i][t][j].key = m.key => ~(inbox[i][t][j].n < m.n)
  BY TakeFacts
<1>2. m.key = k => Waits(i, k, s, m)
  BY <1>1 DEF Waits
<1>3. ASSUME NEW t \in Subjects, NEW l \in Msg
      PROVE  /\ Waits(i, k, t, l)' => Waits(i, k, t, l)
             /\ Waits(i, k, t, l) => (t = s /\ l = m) \/ Waits(i, k, t, l)'
  BY <1>1 DEF Waits
<1>4. ASSUME NEW t \in Subjects, NEW l \in Msg, Waits(i, k, t, l), m.key = k, k \notin mixed'[i]
      PROVE  m.n <= l.n
  <2>1. PICK j \in DOMAIN inbox[i][t] : inbox[i][t][j] = l
    BY <1>4 DEF Waits
  <2>2. ~(l.n < m.n) /\ l.n \in Nat
    BY <1>1, <1>4, <2>1 DEF Waits, Msg
  <2> QED
    BY <1>1, <2>2
<1> QED
  BY <1>1, <1>2, <1>3, <1>4

\* What waits once m was sent.
LEMMA SendWaits ==
  ASSUME Mailed, Maps, NEW s \in Subjects, NEW k \in Keys, NEW r \in Regs, Send(s, k, r),
         NEW m, m = [n |-> sent + 1, key |-> k, reg |-> r], NEW i \in Instances, NEW h \in Keys
  PROVE  /\ m \in Msg /\ mixed[i] \subseteq mixed'[i]
         /\ h # k => \A t \in Subjects, l \in Msg : Waits(i, h, t, l)' <=> Waits(i, h, t, l)
         /\ up[i] # "down" /\ k \notin mixed'[i] => Waits(i, k, s, m)'
         /\ \A t \in Subjects, l \in Msg :
              Waits(i, k, t, l)' /\ m.n <= l.n => t = s /\ l = m
<1>1. /\ m \in Msg /\ mixed[i] \subseteq mixed'[i]
      /\ up[i] # "down" /\ k \notin mixed'[i] =>
              \E j \in DOMAIN inbox'[i][s] : inbox'[i][s][j] = m
      /\ \A t \in Subjects : \A j \in DOMAIN inbox[i][t] :
              \E p \in DOMAIN inbox'[i][t] : inbox'[i][t][p] = inbox[i][t][j]
      /\ \A t \in Subjects : \A j \in DOMAIN inbox'[i][t] :
              \/ t = s /\ inbox'[i][t][j] = m
              \/ \E p \in DOMAIN inbox[i][t] : inbox[i][t][p] = inbox'[i][t][j]
  BY SendFacts
<1>2. m.key = k /\ m.n = sent + 1 /\ sent \in Nat
  BY DEF Mailed
<1>3. ASSUME h # k, NEW t \in Subjects, NEW l \in Msg
      PROVE  Waits(i, h, t, l)' <=> Waits(i, h, t, l)
  BY <1>1, <1>2, <1>3 DEF Waits
<1>4. up[i] # "down" /\ k \notin mixed'[i] => Waits(i, k, s, m)'
  BY <1>1, <1>2 DEF Waits
<1>5. ASSUME NEW t \in Subjects, NEW l \in Msg, Waits(i, k, t, l)', m.n <= l.n
      PROVE  t = s /\ l = m
  <2>1. PICK j \in DOMAIN inbox'[i][t] : inbox'[i][t][j] = l
    BY <1>5 DEF Waits
  <2>2. CASE \E p \in DOMAIN inbox[i][t] : inbox[i][t][p] = l
    <3>1. l.n <= sent /\ l.n \in Nat
      BY <2>2 DEF Mailed, Msg
    <3> QED
      BY <1>2, <1>5, <3>1
  <2> QED
    BY <1>1, <2>1, <2>2
<1> QED
  BY <1>1, <1>3, <1>4, <1>5

\* An instance handles the message m; what the last message says it knows.
LEMMA InformedTake ==
  ASSUME Mailed, Maps, NEW i \in Instances, NEW s \in Subjects, Take(i, s),
         NEW m, m = Head(inbox[i][s]), NEW k \in Keys, Informed(i, k),
         up' = up, loaded' = loaded, store' = store, crossed' = crossed, call' = call,
         live'[i][k] = IF m.key = k THEN Says(s, m) ELSE live[i][k]
  PROVE  Informed(i, k)'
<1>1. /\ m \in Msg /\ m.key \in Keys /\ mixed[i] \subseteq mixed'[i]
      /\ m.key = k => Waits(i, k, s, m)
      /\ \A t \in Subjects, l \in Msg : Waits(i, k, t, l)' => Waits(i, k, t, l)
      /\ \A t \in Subjects, l \in Msg : Waits(i, k, t, l) => (t = s /\ l = m) \/ Waits(i, k, t, l)'
      /\ m.key = k /\ k \notin mixed'[i] =>
           /\ up[i] # "loaded"
           /\ \A t \in Subjects, l \in Msg : Waits(i, k, t, l) => m.n <= l.n
  BY TakeWaits
<1> SUFFICES ASSUME up[i] # "down", k \notin crossed \cup mixed'[i], \A c \in Callers : ~Writes(c, k)'
             PROVE  /\ LastSays(i, k)'
                    /\ (\A t \in Subjects, l \in Msg : ~Waits(i, k, t, l)') => Knows(i, k)'
  BY DEF Informed
<1>2. \A c \in Callers : ~Writes(c, k)
  BY DEF Writes
<1>3. LastSays(i, k) /\ ((\A t \in Subjects, l \in Msg : ~Waits(i, k, t, l)) => Knows(i, k))
  BY <1>1, <1>2 DEF Informed
<1>4. CASE m.key # k
  <2>1. \A t \in Subjects, l \in Msg : Waits(i, k, t, l) => Waits(i, k, t, l)'
    BY <1>1, <1>4 DEF Waits
  <2>2. LastSays(i, k)'
    BY <1>1, <1>3, <2>1 DEF LastSays
  <2>3. Knows(i, k) => Knows(i, k)'
    BY <1>4 DEF Knows
  <2> QED
    BY <1>3, <2>1, <2>2, <2>3
<1>5. CASE m.key = k
  <2>1. ASSUME NEW t \in Subjects, NEW l \in Msg, Waits(i, k, t, l)',
               \A u \in Subjects, q \in Msg : Waits(i, k, u, q)' => q.n <= l.n
        PROVE  Says(t, l) = store[k]
    <3>1. ASSUME NEW u \in Subjects, NEW q \in Msg, Waits(i, k, u, q) PROVE q.n <= l.n
      <4>1. m.n <= l.n
        BY <1>1, <1>5, <2>1
      <4> QED
        BY <1>1, <2>1, <3>1, <4>1
    <3> QED
      BY <1>1, <1>3, <2>1, <3>1 DEF LastSays
  <2>2. LastSays(i, k)'
    BY <2>1 DEF LastSays
  <2>3. ASSUME \A t \in Subjects, l \in Msg : ~Waits(i, k, t, l)' PROVE Knows(i, k)'
    <3>1. \A t \in Subjects, l \in Msg : Waits(i, k, t, l) => l = m
      BY <1>1, <2>3
    <3>2. \A t \in Subjects, l \in Msg : Waits(i, k, t, l) => l.n <= m.n
      BY <1>1, <3>1 DEF Msg
    <3>3. Says(s, m) = store[k]
      BY <1>1, <1>3, <1>5, <3>2 DEF LastSays
    <3>4. live'[i][k] = store[k] /\ up[i] # "loaded"
      BY <1>1, <1>5, <3>3
    <3> QED
      BY <3>4 DEF Knows
  <2> QED
    BY <2>2, <2>3
<1> QED
  BY <1>4, <1>5

\* A writer of k sends; what it says is in the store.
LEMMA InformedSend ==
  ASSUME Mailed, Maps, NEW s \in Subjects, NEW k \in Keys, NEW r \in Regs, Send(s, k, r),
         NEW i \in Instances, NEW h \in Keys, Informed(i, h),
         UNCHANGED <<up, loaded, live, store, crossed>>,
         h = k /\ k \notin crossed => store[k] = IF s = "registered" THEN r ELSE 0,
         h # k => \A c \in Callers : Writes(c, h) => Writes(c, h)'
  PROVE  Informed(i, h)'
<1>1. PICK m : m = [n |-> sent + 1, key |-> k, reg |-> r]
  OBVIOUS
<1>2. /\ m \in Msg /\ mixed[i] \subseteq mixed'[i]
      /\ h # k => \A t \in Subjects, l \in Msg : Waits(i, h, t, l)' <=> Waits(i, h, t, l)
      /\ up[i] # "down" /\ k \notin mixed'[i] => Waits(i, k, s, m)'
      /\ \A t \in Subjects, l \in Msg :
           Waits(i, k, t, l)' /\ m.n <= l.n => t = s /\ l = m
  BY <1>1, SendWaits
<1>3. m.reg = r
  BY <1>1
<1>4. CASE h # k
  <2>1. LastSays(i, h) => LastSays(i, h)'
    BY <1>2, <1>4 DEF LastSays
  <2>2. Knows(i, h) => Knows(i, h)'
    BY DEF Knows
  <2> QED
    BY <1>2, <1>4, <2>1, <2>2 DEF Informed
<1>5. CASE h = k
  <2> SUFFICES ASSUME up[i] # "down", k \notin crossed \cup mixed'[i]
               PROVE  /\ LastSays(i, k)'
                      /\ \E t \in Subjects, l \in Msg : Waits(i, k, t, l)'
    BY <1>5 DEF Informed
  <2>1. Waits(i, k, s, m)'
    BY <1>2
  <2>2. ASSUME NEW t \in Subjects, NEW l \in Msg, Waits(i, k, t, l)',
               \A u \in Subjects, q \in Msg : Waits(i, k, u, q)' => q.n <= l.n
        PROVE  Says(t, l) = store[k]
    <3>1. t = s /\ l = m
      BY <1>2, <2>1, <2>2
    <3> QED
      BY <1>3, <1>5, <3>1 DEF Says
  <2>3. LastSays(i, k)'
    BY <2>2 DEF LastSays
  <2> QED
    BY <1>2, <2>1, <2>3
<1> QED
  BY <1>4, <1>5

LEMMA InformedStep ==
  ASSUME IInv, [Next]_vars, NEW i \in Instances, NEW k \in Keys
  PROVE  Informed(i, k)'
<1>0. /\ Maps /\ Called /\ Mailed /\ Empty /\ Written(k) /\ Informed(i, k)
      /\ DOMAIN up = Instances /\ DOMAIN live = Instances /\ DOMAIN loaded = Instances
      /\ DOMAIN mixed = Instances /\ inbox \in [Instances -> Mail]
  BY DEF IInv, Maps, Mailed
\* Steps that tell i nothing.
<1>1. ASSUME up'[i] = up[i], live'[i] = live[i], loaded'[i] = loaded[i], inbox'[i] = inbox[i],
             UNCHANGED <<store, crossed, mixed, call>>
      PROVE  Informed(i, k)'
  BY <1>0, <1>1, InformedSame DEF Writes
<1>2. ASSUME NEW c \in Callers, NEW e, call[c].at \notin {"publish", "announce"}, call' = [call EXCEPT ![c] = e],
             UNCHANGED <<up, live, loaded, inbox, store, crossed, mixed>>
      PROVE  Informed(i, k)'
  <2>1. \A d \in Callers : Writes(d, k) => Writes(d, k)'
    BY <1>0, <1>2 DEF Writes, Called
  <2> QED
    BY <1>0, <1>2, <2>1, InformedSame
<1>3. ASSUME NEW l \in Instances, SubscribeRegistered(l) PROVE Informed(i, k)'
  <2>1. /\ up[l] = "down" /\ up' = [up EXCEPT ![l] = "half"]
        /\ UNCHANGED <<live, loaded, inbox, store, crossed, mixed, call>>
    BY <1>3 DEF SubscribeRegistered, remote, history
  <2>2. CASE l # i
    BY <1>0, <1>1, <2>1, <2>2
  <2>3. CASE l = i
    <3>1. live'[i][k] = 0 /\ up'[i] = "half" /\ inbox'[i] = NoMail
      BY <1>0, <2>1, <2>3 DEF Empty, Nothing
    <3>2. \A s \in Subjects, m \in Msg : ~Waits(i, k, s, m)'
      BY <3>1 DEF Waits, NoMail
    <3>3. Knows(i, k)' /\ LastSays(i, k)'
      BY <3>1, <3>2 DEF Knows, LastSays
    <3> QED
      BY <3>3 DEF Informed
  <2> QED
    BY <2>2, <2>3
<1>4. ASSUME NEW l \in Instances, SubscribeUnregistered(l) \/ LoadStore(l) \/ FillEvents(l)
      PROVE  Informed(i, k)'
  <2>1. /\ UNCHANGED <<inbox, store, crossed, mixed, call>> /\ up[l] # "down"
        /\ l # i => up'[i] = up[i] /\ live'[i] = live[i] /\ loaded'[i] = loaded[i]
    BY <1>0, <1>4 DEF SubscribeUnregistered, LoadStore, FillEvents, remote, history
  <2>2. CASE l # i
    BY <1>1, <2>1, <2>2
  <2>3. CASE l = i
    <3>1. Knows(i, k) => Knows(i, k)'
      <4>1. CASE SubscribeUnregistered(i)
        BY <1>0, <4>1 DEF SubscribeUnregistered, Knows, remote
      <4>2. CASE LoadStore(i)
        <5>1. up[i] = "subscribed" /\ up'[i] = "loaded" /\ loaded'[i] = store /\ UNCHANGED <<live, store>>
          BY <1>0, <4>2 DEF LoadStore, remote
        <5> QED
          BY <5>1 DEF Knows
      <4>3. CASE FillEvents(i)
        <5>1. /\ up[i] = "loaded" /\ up'[i] = "up" /\ UNCHANGED store
              /\ live'[i] = [q \in Keys |-> IF loaded[i][q] # 0 THEN loaded[i][q] ELSE live[i][q]]
          BY <1>0, <4>3 DEF FillEvents, remote
        <5>2. live'[i][k] = IF loaded[i][k] # 0 THEN loaded[i][k] ELSE live[i][k]
          BY <5>1
        <5> QED
          BY <5>1, <5>2 DEF Knows
      <4> QED
        BY <1>4, <2>3, <4>1, <4>2, <4>3
    <3>2. /\ \A s, m : Waits(i, k, s, m)' <=> Waits(i, k, s, m)
          /\ \A c \in Callers : Writes(c, k)' <=> Writes(c, k)
      BY <2>1 DEF Waits, Writes
    <3>3. LastSays(i, k) => LastSays(i, k)'
      BY <2>1, <3>2 DEF LastSays
    <3> QED
      BY <1>0, <2>1, <2>3, <3>1, <3>2, <3>3 DEF Informed
  <2> QED
    BY <2>2, <2>3
<1>5. ASSUME NEW l \in Instances, Crash(l) PROVE Informed(i, k)'
  <2> DEFINE here == {c \in Callers : call[c].on = l}
             writers == {d \in here : call[d].at \in {"publish", "announce"}}
  <2>1. /\ up' = [up EXCEPT ![l] = "down"] /\ live' = [live EXCEPT ![l] = Nothing]
        /\ loaded' = [loaded EXCEPT ![l] = Nothing] /\ mixed' = [mixed EXCEPT ![l] = {}]
        /\ inbox' = [inbox EXCEPT ![l] = NoMail] /\ store' = store
        /\ crossed' = crossed \cup {call[c].key : c \in writers}
        /\ call' = [c \in Callers |-> IF c \in here THEN Idle ELSE call[c]]
    BY <1>5 DEF Crash
  <2>2. CASE l = i
    BY <1>0, <2>1, <2>2 DEF Informed
  <2>3. CASE l # i
    <3>1. \A c \in Callers : Writes(c, k) => Writes(c, k)' \/ k \in crossed'
      <4> SUFFICES ASSUME NEW c \in Callers, Writes(c, k) PROVE Writes(c, k)' \/ k \in crossed'
        OBVIOUS
      <4>1. CASE c \in here
        <5>1. c \in writers /\ call[c].key = k
          BY <4>1 DEF Writes
        <5> QED
          BY <2>1, <5>1
      <4>2. CASE c \notin here
        <5>1. call'[c] = call[c]
          BY <2>1, <4>2
        <5> QED
          BY <5>1 DEF Writes
      <4> QED
        BY <4>1, <4>2
    <3> HIDE DEF here, writers
    <3>2. up'[i] = up[i] /\ live'[i] = live[i] /\ loaded'[i] = loaded[i] /\ inbox'[i] = inbox[i] /\ mixed'[i] = mixed[i]
      BY <1>0, <2>1, <2>3
    <3>3. crossed \subseteq crossed' /\ store'[k] = store[k]
      BY <2>1
    <3> QED
      BY <1>0, <3>1, <3>2, <3>3, InformedSame
  <2> QED
    BY <2>2, <2>3
<1>6. ASSUME NEW l \in Instances, NEW s \in Subjects, Take(l, s), NEW m, m = Head(inbox[l][s]),
             UNCHANGED <<up, loaded, store, crossed, call>>,
             live' = [live EXCEPT ![l] = [live[l] EXCEPT ![m.key] = Says(s, m)]]
      PROVE  Informed(i, k)'
  <2>1. CASE l = i
    <3>1. live'[i][k] = IF m.key = k THEN Says(s, m) ELSE live[i][k]
      BY <1>0, <1>6, <2>1 DEF Maps
    <3> QED
      BY <1>0, <1>6, <2>1, <3>1, InformedTake
  <2>2. CASE l # i
    <3>1. inbox'[i] = inbox[i] /\ mixed[i] \subseteq mixed'[i]
      BY <1>0, <1>6, <2>2, TakeFacts
    <3>2. live'[i] = live[i]
      BY <1>0, <1>6, <2>2
    <3> QED
      BY <1>0, <1>6, <3>1, <3>2, InformedSame DEF Writes
  <2> QED
    BY <2>1, <2>2
<1>7. ASSUME NEW l \in Instances, HandleRegistered(l) PROVE Informed(i, k)'
  <2>1. PICK m : m = Head(inbox[l]["registered"])
    OBVIOUS
  <2>2. /\ Take(l, "registered") /\ UNCHANGED <<up, loaded, store, crossed, call>>
        /\ live' = [live EXCEPT ![l] = [live[l] EXCEPT ![m.key] = Says("registered", m)]]
    BY <1>7, <2>1 DEF HandleRegistered, Says
  <2> QED
    BY <1>6, <2>1, <2>2 DEF Subjects
<1>8. ASSUME NEW l \in Instances, HandleUnregistered(l) PROVE Informed(i, k)'
  <2>1. PICK m : m = Head(inbox[l]["unregistered"])
    OBVIOUS
  <2>2. /\ Take(l, "unregistered") /\ UNCHANGED <<up, loaded, store, crossed, call>>
        /\ live' = [live EXCEPT ![l] = [live[l] EXCEPT ![m.key] = Says("unregistered", m)]]
    BY <1>8, <2>1 DEF HandleUnregistered, Says
  <2> QED
    BY <1>6, <2>1, <2>2 DEF Subjects
<1>9. ASSUME NEW c \in Callers, RegisterStore(c) \/ UnregisterErase(c) PROVE Informed(i, k)'
  <2>1. /\ UNCHANGED <<up, live, loaded, inbox, mixed>> /\ crossed \subseteq crossed'
        /\ \E r : store' = [store EXCEPT ![call[c].key] = r]
        /\ call[c].at \notin {"publish", "announce"}
    BY <1>9 DEF RegisterStore, UnregisterErase, WriteStore, local
  <2>2. /\ \A d \in Callers \ {c} : call'[d] = call[d]
        /\ call'[c].key = call[c].key /\ call'[c].at \in {"publish", "announce"}
    <3>1. call[c] \in Call /\ call \in [Callers -> Call]
      BY <1>0 DEF Called
    <3>2. CASE RegisterStore(c)
      <4>1. call' = [call EXCEPT ![c] = [call[c] EXCEPT !.at = "publish"]]
        BY <3>2 DEF RegisterStore, Goto
      <4> QED
        BY <3>1, <4>1 DEF Call
    <3>3. CASE UnregisterErase(c)
      <4>1. call' = [call EXCEPT ![c] = [call[c] EXCEPT !.at = "announce", !.reg = store[call[c].key]]]
        BY <3>3 DEF UnregisterErase
      <4> QED
        BY <3>1, <4>1 DEF Call
    <3> QED
      BY <1>9, <3>2, <3>3
  <2>3. CASE call[c].key = k
    <3>1. Writes(c, k)'
      BY <2>2, <2>3 DEF Writes
    <3> QED
      BY <3>1 DEF Informed
  <2>4. CASE call[c].key # k
    <3>1. store'[k] = store[k]
      BY <1>0, <2>1, <2>4 DEF Maps
    <3>2. \A d \in Callers : Writes(d, k) => Writes(d, k)'
      BY <2>1, <2>2 DEF Writes
    <3> QED
      BY <1>0, <2>1, <3>1, <3>2, InformedSame
  <2> QED
    BY <2>3, <2>4
<1>10. ASSUME NEW c \in Callers, RegisterPublish(c) \/ UnregisterAnnounce(c) PROVE Informed(i, k)'
  <2>1. PICK h, r, s : /\ h = call[c].key /\ r = call[c].reg
                       /\ s = IF call[c].at = "publish" THEN "registered" ELSE "unregistered"
    OBVIOUS
  <2>2. /\ Send(s, h, r) /\ UNCHANGED <<up, loaded, live, store, crossed>> /\ Done(c)
        /\ call[c].at = IF s = "registered" THEN "publish" ELSE "announce"
    BY <1>10, <2>1 DEF RegisterPublish, UnregisterAnnounce, local
  <2>3. h \in Keys /\ r \in Regs /\ s \in Subjects /\ Writes(c, h)
    BY <1>0, <2>1, <2>2 DEF Called, Subjects, Writes
  <2>4. Written(h)
    BY <2>3 DEF IInv
  <2>5. k = h /\ h \notin crossed => store[h] = IF s = "registered" THEN r ELSE 0
    BY <2>1, <2>2, <2>3, <2>4 DEF Written
  <2>6. k # h => \A d \in Callers : Writes(d, k) => Writes(d, k)'
    <3>1. \A d \in Callers \ {c} : call'[d] = call[d]
      BY <1>0, <2>2 DEF Done, Called
    <3> QED
      BY <2>1, <3>1 DEF Writes
  <2> QED
    BY <1>0, <2>2, <2>3, <2>5, <2>6, InformedSend
<1>11. ASSUME NEW c \in Callers,
              RegisterAdd(c) \/ RegisterLock(c) \/ RegisterSubscribe(c) \/ UnregisterRemove(c)
       PROVE  Informed(i, k)'
  <2>1. /\ UNCHANGED <<up, live, loaded, inbox, store, crossed, mixed>>
        /\ call[c].at \notin {"publish", "announce"}
    BY <1>11 DEF RegisterAdd, RegisterLock, RegisterSubscribe, UnregisterRemove, local, remote, history
  <2>2. \E e : call' = [call EXCEPT ![c] = e]
    BY <1>11 DEF RegisterAdd, RegisterLock, RegisterSubscribe, UnregisterRemove, Goto, Done
  <2> QED
    BY <1>2, <2>1, <2>2
<1>12. ASSUME NEW c \in Callers, NEW l \in Instances, NEW h \in Keys,
              RegisterCheck(c, l, h) \/ UnregisterCheck(c, l, h) \/ WatchdogRemove(c, l, h)
       PROVE  Informed(i, k)'
  <2>1. /\ UNCHANGED <<up, live, loaded, inbox, store, crossed, mixed>>
        /\ call[c].at \notin {"publish", "announce"}
    BY <1>12 DEF RegisterCheck, UnregisterCheck, WatchdogRemove, Begin, local, remote, history
  <2>2. \E e : call' = [call EXCEPT ![c] = e]
    BY <1>12 DEF RegisterCheck, UnregisterCheck, WatchdogRemove, Begin
  <2> QED
    BY <1>2, <2>1, <2>2
<1>13. ASSUME NEW l \in Instances, UnregisterAll(l) PROVE Informed(i, k)'
  BY <1>1, <1>13 DEF UnregisterAll, remote
<1>14. CASE UNCHANGED vars
  BY <1>1, <1>14 DEF vars, local, remote, history
<1> QED
  BY <1>3, <1>4, <1>5, <1>7, <1>8, <1>9, <1>10, <1>11, <1>12, <1>13, <1>14 DEF Next, Proceed

-----------------------------------------------------------------------------
(* What the steps do to the registrations.                                  *)

Others(c) == \A d \in Callers \ {c} : call'[d] = call[d]
SameEnds == \A i \in Instances, m \in Msg : Ends(i, m)' <=> Ends(i, m)
SameRegs == UNCHANGED <<lookup, regs, store, gone, crossed>>
OtherLookups(i, k) ==
  \A l \in Instances, h \in Keys : l # i \/ h # k => lookup'[l][h] = lookup[l][h]

\* A start, a registered message that is handled, or nothing.
Rests ==
  /\ \A i \in Instances : up'[i] = up[i] \/ up[i] # "up"
  /\ UNCHANGED call /\ SameRegs /\ SameEnds

Crashes(i) ==
  /\ UNCHANGED <<regs, store>> /\ gone \subseteq gone' /\ crossed \subseteq crossed'
  /\ \A l \in Instances \ {i} : /\ up'[l] = up[l] /\ lookup'[l] = lookup[l]
                                /\ \A m \in Msg : Ends(l, m)' <=> Ends(l, m)
  /\ \A k \in Keys : lookup'[i][k] = 0 /\ lookup[i][k] \in gone'
  /\ \A m \in Msg : ~Ends(i, m)'
  /\ \A c \in Callers :
       \/ call[c].on # i /\ call'[c] = call[c]
       \/ /\ call[c].on = i /\ call'[c].at = "idle" /\ call[c].reg \in gone'
          /\ call[c].at = "announce" => call[c].key \in crossed'

Drops(i, m) ==
  /\ m.key \in Keys /\ Ends(i, m)
  /\ UNCHANGED <<up, call, regs, store, crossed>> /\ gone \subseteq gone'
  /\ lookup'[i][m.key] = 0 /\ OtherLookups(i, m.key)
  /\ lookup[i][m.key] = m.reg \/ lookup[i][m.key] \in gone'
  /\ \A l \in Instances, n \in Msg : /\ Ends(l, n)' => Ends(l, n)
                                     /\ Ends(l, n) => Ends(l, n)' \/ (l = i /\ n = m)

Clears(i) ==
  /\ UNCHANGED <<up, call, regs, store, crossed>> /\ gone \subseteq gone' /\ SameEnds
  /\ \A l \in Instances \ {i} : lookup'[l] = lookup[l]
  /\ \A k \in Keys : lookup'[i][k] = 0 /\ lookup[i][k] \in gone'

Adds(c, i, k) ==
  /\ call[c].at = "add" /\ call[c].on = i /\ call[c].key = k /\ up[i] = "up" /\ lookup[i][k] = 0
  /\ UNCHANGED <<up, store, gone, crossed>> /\ SameEnds /\ Others(c)
  /\ Len(regs') = Len(regs) + 1 /\ regs'[Len(regs) + 1] = [key |-> k, on |-> i]
  /\ \A r \in 1..Len(regs) : regs'[r] = regs[r]
  /\ lookup'[i][k] = Len(regs) + 1 /\ OtherLookups(i, k)
  /\ call'[c].at = "lock" /\ call'[c].on = i /\ call'[c].key = k /\ call'[c].reg = Len(regs) + 1

\* A call begins, ends or goes on, and leaves the tables alone.
Goes(c) ==
  /\ UNCHANGED up /\ SameRegs /\ SameEnds /\ Others(c)
  /\ \/ /\ call[c].at \in {"idle", "add", "remove", "publish"}
        /\ call'[c].at \in {"idle", "add", "remove"}
     \/ /\ call[c].at \in {"lock", "subscribe"} /\ call'[c].at \in {"subscribe", "store"}
        /\ call'[c].on = call[c].on /\ call'[c].key = call[c].key /\ call'[c].reg = call[c].reg

Stores(c, k, r) ==
  /\ call[c].at = "store" /\ call[c].key = k /\ call[c].reg = r
  /\ UNCHANGED <<up, lookup, regs, gone>> /\ crossed \subseteq crossed' /\ SameEnds /\ Others(c)
  /\ store'[k] = r /\ \A h \in Keys \ {k} : store'[h] = store[h]
  /\ call'[c].at = "publish" /\ call'[c].on = call[c].on /\ call'[c].key = k /\ call'[c].reg = r

TakesOut(c, i, k) ==
  /\ call[c].at \in {"idle", "remove"}
  /\ UNCHANGED <<up, regs, store, gone, crossed>> /\ SameEnds /\ Others(c)
  /\ lookup'[i][k] = 0 /\ OtherLookups(i, k)
  /\ call'[c].at = "erase" /\ call'[c].key = k /\ call'[c].reg = lookup[i][k]

Erases(c, k) ==
  /\ call[c].at = "erase" /\ call[c].key = k
  /\ UNCHANGED <<up, lookup, regs>> /\ crossed \subseteq crossed' /\ SameEnds /\ Others(c)
  /\ store'[k] = 0 /\ \A h \in Keys \ {k} : store'[h] = store[h]
  /\ gone \subseteq gone' /\ (call[c].reg = store[k] \/ call[c].reg \in gone')
  /\ call'[c].at = "announce" /\ call'[c].key = k /\ call'[c].reg = store[k]

Announces(c, k) ==
  /\ call[c].at = "announce" /\ call[c].key = k
  /\ UNCHANGED up /\ SameRegs /\ Others(c) /\ call'[c].at = "idle"
  /\ \A i \in Instances, m \in Msg : /\ Ends(i, m)' => Ends(i, m) \/ m.reg = call[c].reg
                                     /\ Ends(i, m) => Ends(i, m)'
  /\ \A i \in Instances : up[i] = "up" => \E m \in Msg : m.key = k /\ Ends(i, m)'

LEMMA Effects ==
  ASSUME Maps, Called, Mailed, [Next]_vars
  PROVE  \/ Rests
         \/ \E i \in Instances : Crashes(i) \/ Clears(i) \/ \E m \in Msg : Drops(i, m)
         \/ \E c \in Callers, i \in Instances, k \in Keys : Adds(c, i, k) \/ TakesOut(c, i, k)
         \/ \E c \in Callers : Goes(c)
         \/ \E c \in Callers, k \in Keys : Erases(c, k) \/ Announces(c, k) \/ \E r \in Regs : Stores(c, k, r)
<1>0. /\ call \in [Callers -> Call] /\ DOMAIN up = Instances /\ inbox \in [Instances -> Mail]
      /\ lookup \in [Instances -> [Keys -> Regs]] /\ store \in [Keys -> Regs]
      /\ Idle.at = "idle" /\ \A c \in Callers : call[c] \in Call
  BY DEF Called, Maps, Mailed, Idle
<1>1. UNCHANGED inbox => SameEnds
  BY DEF SameEnds, Ends
<1>2. ASSUME NEW i \in Instances,
             SubscribeRegistered(i) \/ SubscribeUnregistered(i) \/ LoadStore(i) \/ FillEvents(i)
      PROVE  Rests
  <2>1. UNCHANGED <<inbox, call>> /\ SameRegs
    BY <1>2 DEF SubscribeRegistered, SubscribeUnregistered, LoadStore, FillEvents, SameRegs, remote, history
  <2>2. \A l \in Instances : up'[l] = up[l] \/ up[l] # "up"
    BY <1>0, <1>2 DEF SubscribeRegistered, SubscribeUnregistered, LoadStore, FillEvents
  <2> QED
    BY <1>1, <2>1, <2>2 DEF Rests
<1>3. ASSUME NEW i \in Instances, HandleRegistered(i) PROVE Rests
  <2>1. /\ UNCHANGED <<up, call>> /\ SameRegs
        /\ inbox' = [inbox EXCEPT ![i] = [inbox[i] EXCEPT !["registered"] = Tail(@)]]
    BY <1>3 DEF HandleRegistered, Take, SameRegs
  <2>2. \A l \in Instances : inbox'[l]["unregistered"] = inbox[l]["unregistered"]
    BY <1>0, <2>1 DEF Mail, Subjects
  <2>3. SameEnds
    BY <2>2 DEF SameEnds, Ends
  <2> QED
    BY <2>1, <2>3 DEF Rests
<1>4. ASSUME NEW i \in Instances, Crash(i) PROVE Crashes(i)
  <2> DEFINE here == {c \in Callers : call[c].on = i}
             writers == {d \in here : call[d].at \in {"publish", "announce"}}
  <2>1. /\ up' = [up EXCEPT ![i] = "down"] /\ lookup' = [lookup EXCEPT ![i] = Nothing]
        /\ inbox' = [inbox EXCEPT ![i] = NoMail] /\ UNCHANGED <<store, regs>>
        /\ crossed' = crossed \cup {call[c].key : c \in writers}
        /\ gone' = gone \cup {lookup[i][k] : k \in Keys} \cup {call[c].reg : c \in here}
        /\ call' = [c \in Callers |-> IF c \in here THEN Idle ELSE call[c]]
    BY <1>4 DEF Crash
  <2>2. \A l \in Instances \ {i} : up'[l] = up[l] /\ lookup'[l] = lookup[l] /\ inbox'[l] = inbox[l]
    BY <1>0, <2>1
  <2>3. \A l \in Instances \ {i} : \A m \in Msg : Ends(l, m)' <=> Ends(l, m)
    BY <2>2 DEF Ends
  <2>4. \A k \in Keys : lookup'[i][k] = 0 /\ lookup[i][k] \in gone'
    BY <1>0, <2>1 DEF Nothing
  <2>5. \A m \in Msg : ~Ends(i, m)'
    <3>1. inbox'[i]["unregistered"] = <<>>
      BY <1>0, <2>1 DEF NoMail, Subjects
    <3> QED
      BY <3>1 DEF Ends
  <2>6. ASSUME NEW c \in Callers
        PROVE  \/ call[c].on # i /\ call'[c] = call[c]
               \/ /\ call[c].on = i /\ call'[c].at = "idle" /\ call[c].reg \in gone'
                  /\ call[c].at = "announce" => call[c].key \in crossed'
    <3>1. CASE c \in here
      <4>1. call'[c].at = "idle" /\ call[c].reg \in gone'
        BY <1>0, <2>1, <3>1
      <4>2. call[c].at = "announce" => c \in writers
        BY <3>1
      <4> QED
        BY <2>1, <3>1, <4>1, <4>2
    <3>2. CASE c \notin here
      BY <2>1, <3>2
    <3> QED
      BY <3>1, <3>2
  <2> HIDE DEF here, writers
  <2>7. gone \subseteq gone' /\ crossed \subseteq crossed'
    BY <2>1
  <2> QED
    BY <2>1, <2>2, <2>3, <2>4, <2>5, <2>6, <2>7 DEF Crashes
<1>5. ASSUME NEW i \in Instances, NEW k \in Keys, RemoveEvent(i, k)
      PROVE  lookup'[i][k] = 0 /\ OtherLookups(i, k)
  <2>1. lookup' = [lookup EXCEPT ![i] = [lookup[i] EXCEPT ![k] = 0]]
    BY <1>5 DEF RemoveEvent
  <2>2. /\ lookup'[i] = [lookup[i] EXCEPT ![k] = 0] /\ \A l \in Instances \ {i} : lookup'[l] = lookup[l]
        /\ lookup[i] \in [Keys -> Regs]
    BY <1>0, <2>1
  <2> QED
    BY <2>2 DEF OtherLookups
<1>6. ASSUME NEW i \in Instances, HandleUnregistered(i) PROVE \E m \in Msg : Drops(i, m)
  <2>1. PICK m : m = Head(inbox[i]["unregistered"])
    OBVIOUS
  <2>2. /\ Take(i, "unregistered") /\ UNCHANGED <<up, call, regs, store, crossed>>
        /\ RemoveEvent(i, m.key)
        /\ gone' = IF lookup[i][m.key] = m.reg THEN gone ELSE gone \cup {lookup[i][m.key]}
    BY <1>6, <2>1 DEF HandleUnregistered
  <2>3. /\ m \in Msg /\ m.key \in Keys
        /\ \A l \in Instances \ {i} : inbox'[l] = inbox[l]
        /\ \A j \in DOMAIN inbox'[i]["unregistered"] :
             \E p \in DOMAIN inbox[i]["unregistered"] : inbox'[i]["unregistered"][j] = inbox[i]["unregistered"][p]
        /\ \A j \in DOMAIN inbox[i]["unregistered"] :
              \/ inbox[i]["unregistered"][j] = m
              \/ \E p \in DOMAIN inbox'[i]["unregistered"] : inbox'[i]["unregistered"][p] = inbox[i]["unregistered"][j]
        /\ \E j \in DOMAIN inbox[i]["unregistered"] : inbox[i]["unregistered"][j] = m
    <3>1. "unregistered" \in Subjects
      BY DEF Subjects
    <3>2. Take(i, "unregistered")
      BY <2>2
    <3>3. /\ m \in Msg /\ m.key \in Keys
          /\ \A l \in Instances \ {i} : inbox'[l] = inbox[l]
          /\ \A t \in Subjects : \A j \in DOMAIN inbox'[i][t] :
               \E p \in DOMAIN inbox[i][t] : inbox'[i][t][j] = inbox[i][t][p]
          /\ \A t \in Subjects : \A j \in DOMAIN inbox[i][t] :
               \/ t = "unregistered" /\ inbox[i][t][j] = m
               \/ \E p \in DOMAIN inbox'[i][t] : inbox'[i][t][p] = inbox[i][t][j]
          /\ \E j \in DOMAIN inbox[i]["unregistered"] : inbox[i]["unregistered"][j] = m
      BY <2>1, <3>1, <3>2, TakeFacts
    <3> QED
      BY <3>1, <3>3
  <2>4. Ends(i, m)
    BY <2>3 DEF Ends
  <2>5. \A l \in Instances, n \in Msg : /\ Ends(l, n)' => Ends(l, n)
                                        /\ Ends(l, n) => Ends(l, n)' \/ (l = i /\ n = m)
    <3> SUFFICES ASSUME NEW l \in Instances, NEW n \in Msg
                 PROVE  /\ Ends(l, n)' => Ends(l, n)
                        /\ Ends(l, n) => Ends(l, n)' \/ (l = i /\ n = m)
      OBVIOUS
    <3>1. CASE l # i
      BY <2>3, <3>1 DEF Ends
    <3>2. CASE l = i
      BY <2>3, <3>2 DEF Ends
    <3> QED
      BY <3>1, <3>2
  <2>6. lookup'[i][m.key] = 0 /\ OtherLookups(i, m.key)
    BY <1>5, <2>2, <2>3
  <2> QED
    BY <2>2, <2>3, <2>4, <2>5, <2>6 DEF Drops
<1>7. ASSUME NEW i \in Instances, UnregisterAll(i) PROVE Clears(i)
  <2>1. /\ UNCHANGED <<up, call, regs, store, crossed, inbox>>
        /\ gone' = gone \cup {lookup[i][k] : k \in Keys} /\ lookup' = [lookup EXCEPT ![i] = Nothing]
    BY <1>7 DEF UnregisterAll, remote
  <2>2. /\ \A l \in Instances \ {i} : lookup'[l] = lookup[l]
        /\ \A k \in Keys : lookup'[i][k] = 0 /\ lookup[i][k] \in gone'
    BY <1>0, <2>1 DEF Nothing
  <2> QED
    BY <1>1, <2>1, <2>2 DEF Clears
<1>8. ASSUME NEW c \in Callers, RegisterAdd(c)
      PROVE  Goes(c) \/ \E i \in Instances, k \in Keys : Adds(c, i, k)
  <2>1. PICK i, k : i = call[c].on /\ k = call[c].key
    OBVIOUS
  <2>2. /\ call[c].at = "add" /\ i \in Instances /\ k \in Keys /\ up[i] = "up"
        /\ UNCHANGED <<up, inbox, store, gone, crossed>>
    BY <1>8, <2>1 DEF RegisterAdd, Called, remote, history
  <2>3. CASE Done(c) /\ UNCHANGED <<regs, lookup>>
    <3>1. call'[c] = Idle /\ Others(c)
      BY <1>0, <2>3 DEF Done, Others
    <3> QED
      BY <1>0, <1>1, <2>2, <2>3, <3>1 DEF Goes, SameRegs
  <2>4. CASE /\ lookup[i][k] = 0
             /\ regs' = Append(regs, [key |-> k, on |-> i])
             /\ lookup' = [lookup EXCEPT ![i] = [lookup[i] EXCEPT ![k] = Len(regs) + 1]]
             /\ call' = [call EXCEPT ![c] = [call[c] EXCEPT !.at = "lock", !.reg = Len(regs) + 1]]
    <3>1. /\ Len(regs') = Len(regs) + 1 /\ regs'[Len(regs) + 1] = [key |-> k, on |-> i]
          /\ \A r \in 1..Len(regs) : regs'[r] = regs[r]
      <4> DEFINE T == [key : Keys, on : Instances]
                 e == [key |-> k, on |-> i]
      <4>1. e \in T /\ regs \in Seq(T) /\ regs' = Append(regs, e)
        BY <2>2, <2>4 DEF Maps
      <4> HIDE DEF e, T
      <4>2. /\ Len(regs') = Len(regs) + 1 /\ regs'[Len(regs) + 1] = e
            /\ \A r \in 1..Len(regs) : regs'[r] = regs[r]
        BY <4>1, AppendFacts
      <4> QED
        BY <4>2 DEF e
    <3>2. lookup'[i][k] = Len(regs) + 1 /\ OtherLookups(i, k)
      <4>1. /\ lookup'[i] = [lookup[i] EXCEPT ![k] = Len(regs) + 1] /\ lookup[i] \in [Keys -> Regs]
            /\ \A l \in Instances \ {i} : lookup'[l] = lookup[l]
        BY <1>0, <2>2, <2>4
      <4> QED
        BY <2>2, <4>1 DEF OtherLookups
    <3>3. /\ Others(c) /\ call'[c].at = "lock" /\ call'[c].on = i /\ call'[c].key = k
          /\ call'[c].reg = Len(regs) + 1
      <4> DEFINE e == [call[c] EXCEPT !.at = "lock", !.reg = Len(regs) + 1]
      <4>1. e.at = "lock" /\ e.on = i /\ e.key = k /\ e.reg = Len(regs) + 1
        BY <1>0, <2>1 DEF Call
      <4> HIDE DEF e
      <4>2. call' = [call EXCEPT ![c] = e]
        BY <2>4 DEF e
      <4> QED
        BY <1>0, <4>1, <4>2 DEF Others
    <3> QED
      BY <1>1, <2>1, <2>2, <2>4, <3>1, <3>2, <3>3 DEF Adds
  <2> QED
    BY <1>8, <2>1, <2>3, <2>4 DEF RegisterAdd
<1>9. ASSUME NEW c \in Callers, RegisterLock(c) \/ RegisterSubscribe(c) PROVE Goes(c)
  <2>1. UNCHANGED <<up, inbox>> /\ SameRegs /\ call[c].at \in {"lock", "subscribe"}
    BY <1>9 DEF RegisterLock, RegisterSubscribe, SameRegs, local, remote, history
  <2>2. PICK at \in {"subscribe", "store"} : call' = [call EXCEPT ![c] = [call[c] EXCEPT !.at = at]]
    BY <1>9 DEF RegisterLock, RegisterSubscribe, Goto
  <2>3. /\ call'[c].at = at /\ call'[c].on = call[c].on /\ call'[c].key = call[c].key /\ call'[c].reg = call[c].reg
        /\ Others(c)
    BY <1>0, <2>2 DEF Call, Others
  <2> QED
    BY <1>1, <2>1, <2>3 DEF Goes
<1>10. ASSUME NEW c \in Callers, RegisterStore(c) PROVE \E k \in Keys, r \in Regs : Stores(c, k, r)
  <2>1. PICK k, r : k = call[c].key /\ r = call[c].reg
    OBVIOUS
  <2>2. /\ call[c].at = "store" /\ k \in Keys /\ r \in Regs /\ crossed \subseteq crossed'
        /\ UNCHANGED <<up, lookup, regs, gone, inbox>> /\ store' = [store EXCEPT ![k] = r]
        /\ call' = [call EXCEPT ![c] = [call[c] EXCEPT !.at = "publish"]]
    BY <1>10, <2>1 DEF RegisterStore, WriteStore, Goto, Called, local
  <2>3. /\ call'[c].at = "publish" /\ call'[c].on = call[c].on /\ call'[c].key = k /\ call'[c].reg = r
        /\ Others(c)
    BY <1>0, <2>1, <2>2 DEF Call, Others
  <2>4. store'[k] = r /\ \A h \in Keys \ {k} : store'[h] = store[h]
    BY <1>0, <2>2
  <2> QED
    BY <1>1, <2>1, <2>2, <2>3, <2>4 DEF Stores
<1>11. ASSUME NEW c \in Callers, RegisterPublish(c) PROVE Goes(c)
  <2>1. /\ Send("registered", call[c].key, call[c].reg) /\ UNCHANGED up /\ SameRegs /\ call[c].at = "publish"
        /\ Done(c)
    BY <1>11 DEF RegisterPublish, SameRegs
  <2>2. \A l \in Instances : inbox'[l]["unregistered"] = inbox[l]["unregistered"]
    BY <1>0, <2>1 DEF Send, Mail, Subjects
  <2>3. SameEnds
    BY <2>2 DEF SameEnds, Ends
  <2>4. call'[c] = Idle /\ Others(c)
    BY <1>0, <2>1 DEF Done, Others
  <2> QED
    BY <1>0, <2>1, <2>3, <2>4 DEF Goes
<1>12. ASSUME NEW c \in Callers, UnregisterRemove(c) PROVE \E i \in Instances, k \in Keys : TakesOut(c, i, k)
  <2>1. PICK i, k : i = call[c].on /\ k = call[c].key
    OBVIOUS
  <2>2. /\ call[c].at = "remove" /\ i \in Instances /\ k \in Keys /\ RemoveEvent(i, k)
        /\ UNCHANGED <<up, regs, store, gone, crossed, inbox>>
        /\ call' = [call EXCEPT ![c] = [call[c] EXCEPT !.at = "erase", !.reg = lookup[i][k]]]
    BY <1>12, <2>1 DEF UnregisterRemove, Called, remote, history
  <2>3. call'[c].at = "erase" /\ call'[c].key = k /\ call'[c].reg = lookup[i][k] /\ Others(c)
    BY <1>0, <2>1, <2>2 DEF Call, Others
  <2> QED
    BY <1>1, <1>5, <2>2, <2>3 DEF TakesOut
<1>13. ASSUME NEW c \in Callers, UnregisterErase(c) PROVE \E k \in Keys : Erases(c, k)
  <2>1. PICK k : k = call[c].key
    OBVIOUS
  <2>2. /\ call[c].at = "erase" /\ k \in Keys /\ crossed \subseteq crossed'
        /\ UNCHANGED <<up, lookup, regs, inbox>> /\ store' = [store EXCEPT ![k] = 0]
        /\ call' = [call EXCEPT ![c] = [call[c] EXCEPT !.at = "announce", !.reg = store[k]]]
        /\ gone' = gone \cup ({call[c].reg} \ {store[k]})
    BY <1>13, <2>1 DEF UnregisterErase, WriteStore, Called, local
  <2>3. call'[c].at = "announce" /\ call'[c].key = k /\ call'[c].reg = store[k] /\ Others(c)
    BY <1>0, <2>1, <2>2 DEF Call, Others
  <2>4. store'[k] = 0 /\ \A h \in Keys \ {k} : store'[h] = store[h]
    BY <1>0, <2>2
  <2> QED
    BY <1>1, <2>1, <2>2, <2>3, <2>4 DEF Erases
<1>14. ASSUME NEW c \in Callers, UnregisterAnnounce(c) PROVE \E k \in Keys : Announces(c, k)
  <2>1. PICK k, r : k = call[c].key /\ r = call[c].reg
    OBVIOUS
  <2>2. /\ Send("unregistered", k, r) /\ UNCHANGED up /\ SameRegs /\ call[c].at = "announce"
        /\ Done(c) /\ k \in Keys /\ r \in Regs
    BY <1>14, <2>1 DEF UnregisterAnnounce, SameRegs, Called, local
  <2>3. PICK m : m = [n |-> sent + 1, key |-> k, reg |-> r]
    OBVIOUS
  <2>4. /\ m \in Msg
        /\ \A i \in Instances : up[i] = "up" =>
             \E j \in DOMAIN inbox'[i]["unregistered"] : inbox'[i]["unregistered"][j] = m
        /\ \A i \in Instances : \A j \in DOMAIN inbox[i]["unregistered"] :
             \E p \in DOMAIN inbox'[i]["unregistered"] : inbox'[i]["unregistered"][p] = inbox[i]["unregistered"][j]
        /\ \A i \in Instances : \A j \in DOMAIN inbox'[i]["unregistered"] :
             \/ inbox'[i]["unregistered"][j] = m
             \/ \E p \in DOMAIN inbox[i]["unregistered"] : inbox[i]["unregistered"][p] = inbox'[i]["unregistered"][j]
    BY <2>2, <2>3, SendFacts DEF Subjects
  <2>5. m.key = k /\ m.reg = r
    BY <2>3
  <2>6. /\ \A i \in Instances, n \in Msg : (Ends(i, n)' => Ends(i, n) \/ n = m) /\ (Ends(i, n) => Ends(i, n)')
        /\ \A i \in Instances : up[i] = "up" => Ends(i, m)'
    BY <2>4 DEF Ends
  <2>7. call'[c].at = "idle" /\ Others(c)
    BY <1>0, <2>2 DEF Done, Others
  <2> QED
    BY <2>1, <2>2, <2>4, <2>5, <2>6, <2>7 DEF Announces
<1>15. ASSUME NEW c \in Callers, NEW i \in Instances, NEW k \in Keys, NEW at, NEW r, Begin(c, i, k, at, r)
       PROVE  call[c].at = "idle" /\ call'[c].at = at /\ call'[c].key = k /\ call'[c].reg = r /\ Others(c)
  BY <1>0, <1>15 DEF Begin, Others
<1>16. ASSUME NEW c \in Callers, NEW i \in Instances, NEW k \in Keys,
              RegisterCheck(c, i, k) \/ UnregisterCheck(c, i, k)
       PROVE  Goes(c)
  <2>1. UNCHANGED <<up, inbox>> /\ SameRegs /\ (Begin(c, i, k, "add", 0) \/ Begin(c, i, k, "remove", 0))
    BY <1>16 DEF RegisterCheck, UnregisterCheck, SameRegs, local, remote, history
  <2>2. call[c].at = "idle" /\ call'[c].at \in {"add", "remove"} /\ Others(c)
    BY <1>15, <2>1
  <2> QED
    BY <1>1, <2>1, <2>2 DEF Goes
<1>17. ASSUME NEW c \in Callers, NEW i \in Instances, NEW k \in Keys, WatchdogRemove(c, i, k)
       PROVE  TakesOut(c, i, k)
  <2>1. PICK r : r = lookup[i][k]
    OBVIOUS
  <2>2. UNCHANGED <<up, regs, store, gone, crossed, inbox>> /\ Begin(c, i, k, "erase", r) /\ RemoveEvent(i, k)
    BY <1>17, <2>1 DEF WatchdogRemove, remote, history
  <2>3. call[c].at = "idle" /\ call'[c].at = "erase" /\ call'[c].key = k /\ call'[c].reg = r /\ Others(c)
    BY <1>15, <2>2
  <2> QED
    BY <1>1, <1>5, <2>1, <2>2, <2>3 DEF TakesOut
<1>18. CASE UNCHANGED vars
  BY <1>1, <1>18 DEF vars, local, remote, history, Rests, SameRegs
<1>19. ASSUME NEW c \in Callers, Proceed(c)
       PROVE  \/ Goes(c) \/ \E i \in Instances, k \in Keys : Adds(c, i, k) \/ TakesOut(c, i, k)
              \/ \E k \in Keys : Erases(c, k) \/ Announces(c, k) \/ \E r \in Regs : Stores(c, k, r)
  BY <1>8, <1>9, <1>10, <1>11, <1>12, <1>13, <1>14, <1>19 DEF Proceed
<1> QED
  BY <1>2, <1>3, <1>4, <1>6, <1>7, <1>16, <1>17, <1>18, <1>19 DEF Next

-----------------------------------------------------------------------------
(* What is announced is recorded.                                           *)

\* The registrations of the tables are numbers of registrations.
LEMMA Numbers ==
  ASSUME Maps, Called, Mailed
  PROVE  /\ Len(regs) \in Nat /\ 0 \in Regs /\ \A r \in Regs : r \in Nat /\ r # Len(regs) + 1
         /\ \A r \in Regs : r # 0 => r \in 1..Len(regs)
         /\ \A r \in 1..Len(regs) : r \in Nat /\ r # 0
         /\ \A i \in Instances, k \in Keys : lookup[i][k] \in Regs
         /\ \A k \in Keys : store[k] \in Regs
         /\ \A c \in Callers : call[c].reg \in Regs
         /\ \A i \in Instances, m \in Msg : Ends(i, m) => m.reg \in Regs
         /\ \A r \in 1..Len(regs) : regs[r].key \in Keys /\ regs[r].on \in Instances
<1>1. /\ Len(regs) \in Nat /\ 0 \in Regs /\ \A r \in Regs : r \in Nat /\ r # Len(regs) + 1
      /\ \A r \in Regs : r # 0 => r \in 1..Len(regs)
      /\ \A r \in 1..Len(regs) : r \in Nat /\ r # 0
  BY DEF Maps, Regs
<1>2. /\ \A i \in Instances, k \in Keys : lookup[i][k] \in Regs
      /\ \A k \in Keys : store[k] \in Regs
      /\ \A c \in Callers : call[c].reg \in Regs
  BY DEF Maps, Called
<1>3. \A i \in Instances, m \in Msg : Ends(i, m) => m.reg \in Regs
  BY DEF Mailed, Ends, Subjects
<1>4. \A r \in 1..Len(regs) : regs[r].key \in Keys /\ regs[r].on \in Instances
  <2> DEFINE T == [key : Keys, on : Instances]
  <2>1. regs \in Seq(T)
    BY DEF Maps
  <2> HIDE DEF T
  <2>2. \A r \in 1..Len(regs) : regs[r] \in T
    BY <2>1
  <2>3. \A e \in T : e.key \in Keys /\ e.on \in Instances
    BY DEF T
  <2> QED
    BY <2>2, <2>3
<1> QED
  BY <1>1, <1>2, <1>3, <1>4

LEMMA RecordedStep ==
  ASSUME Maps, Called, Mailed, Recorded, [Next]_vars
  PROVE  Recorded'
<1>0. /\ Len(regs) \in Nat /\ 0 \in Regs /\ \A r \in Regs : r \in Nat /\ r # Len(regs) + 1
      /\ \A r \in Regs : r # 0 => r \in 1..Len(regs)
      /\ \A i \in Instances, k \in Keys : lookup[i][k] \in Regs
      /\ \A k \in Keys : store[k] \in Regs
      /\ \A c \in Callers : call[c].reg \in Regs
  BY Numbers
<1>1. CASE Rests
  <2>1. /\ \A i \in Instances : up[i] = "up" => up'[i] = "up"
        /\ UNCHANGED <<lookup, regs, store, call>>
    BY <1>1 DEF Rests, SameRegs
  <2> QED
    BY <2>1 DEF Recorded
<1>2. ASSUME NEW i \in Instances, Crashes(i) PROVE Recorded'
  <2>1. /\ UNCHANGED <<regs, store>>
        /\ \A l \in Instances, k \in Keys : lookup'[l][k] # 0 => l # i /\ lookup'[l][k] = lookup[l][k] /\ up'[l] = up[l]
        /\ \A c \in Callers : call'[c] = call[c] \/ call'[c].at = "idle"
    BY <1>2 DEF Crashes
  <2> QED
    BY <2>1 DEF Recorded
<1>3. ASSUME UNCHANGED <<up, call, regs, store>>,
             \A l \in Instances, k \in Keys : lookup'[l][k] = 0 \/ lookup'[l][k] = lookup[l][k]
      PROVE  Recorded'
  BY <1>3 DEF Recorded
<1>4. ASSUME NEW i \in Instances, Clears(i) PROVE Recorded'
  <2>1. \A l \in Instances, k \in Keys : lookup'[l][k] = 0 \/ lookup'[l][k] = lookup[l][k]
    BY <1>4 DEF Clears
  <2> QED
    BY <1>3, <1>4, <2>1 DEF Clears
<1>5. ASSUME NEW i \in Instances, NEW m \in Msg, Drops(i, m) PROVE Recorded'
  <2>1. \A l \in Instances, k \in Keys : lookup'[l][k] = 0 \/ lookup'[l][k] = lookup[l][k]
    BY <1>5 DEF Drops, OtherLookups
  <2> QED
    BY <1>3, <1>5, <2>1 DEF Drops
<1>6. ASSUME NEW c \in Callers, NEW i \in Instances, NEW k \in Keys, Adds(c, i, k) PROVE Recorded'
  <2> DEFINE n == Len(regs) + 1
  <2>1. /\ UNCHANGED <<up, store>> /\ up[i] = "up"
        /\ regs'[n] = [key |-> k, on |-> i] /\ \A r \in Regs : r # 0 => regs'[r] = regs[r]
        /\ lookup'[i][k] = n /\ OtherLookups(i, k)
        /\ Others(c) /\ call'[c].at = "lock" /\ call'[c].on = i /\ call'[c].key = k /\ call'[c].reg = n
        /\ n # 0
    BY <1>0, <1>6 DEF Adds
  <2> HIDE DEF n
  <2>2. ASSUME NEW l \in Instances, NEW h \in Keys, lookup'[l][h] # 0
        PROVE  up'[l] = "up" /\ regs'[lookup'[l][h]] = [key |-> h, on |-> l]
    <3>1. CASE l = i /\ h = k
      BY <2>1, <3>1
    <3>2. CASE l # i \/ h # k
      <4>1. lookup'[l][h] = lookup[l][h]
        BY <2>1, <3>2 DEF OtherLookups
      <4> QED
        BY <1>0, <2>1, <2>2, <4>1 DEF Recorded
    <3> QED
      BY <3>1, <3>2
  <2>3. \A h \in Keys : store'[h] # 0 => regs'[store'[h]].key = h
    BY <1>0, <2>1 DEF Recorded
  <2>4. ASSUME NEW d \in Callers
        PROVE  /\ call'[d].at \in {"lock", "subscribe", "store", "publish"} =>
                    call'[d].reg # 0 /\ regs'[call'[d].reg] = [key |-> call'[d].key, on |-> call'[d].on]
               /\ call'[d].at = "erase" /\ call'[d].reg # 0 => regs'[call'[d].reg].key = call'[d].key
    <3>1. CASE d = c
      BY <2>1, <3>1
    <3>2. CASE d # c
      BY <1>0, <2>1, <3>2 DEF Recorded, Others
    <3> QED
      BY <3>1, <3>2
  <2> QED
    BY <2>2, <2>3, <2>4 DEF Recorded
<1>7. ASSUME NEW c \in Callers, NEW i \in Instances, NEW k \in Keys, TakesOut(c, i, k) PROVE Recorded'
  <2>1. /\ UNCHANGED <<up, regs, store>> /\ Others(c)
        /\ \A l \in Instances, h \in Keys : lookup'[l][h] = 0 \/ lookup'[l][h] = lookup[l][h]
        /\ call'[c].at = "erase" /\ call'[c].key = k /\ call'[c].reg = lookup[i][k]
    BY <1>7 DEF TakesOut, OtherLookups
  <2>2. lookup[i][k] # 0 => regs[lookup[i][k]].key = k
    <3>1. lookup[i][k] # 0 => regs[lookup[i][k]] = [key |-> k, on |-> i]
      BY DEF Recorded
    <3> QED
      BY <3>1
  <2> QED
    BY <2>1, <2>2 DEF Recorded, Others
<1>8. ASSUME NEW c \in Callers, Goes(c) PROVE Recorded'
  BY <1>8 DEF Goes, SameRegs, Others, Recorded
<1>9. ASSUME NEW c \in Callers, NEW k \in Keys, Erases(c, k) PROVE Recorded'
  <2>1. /\ UNCHANGED <<up, lookup, regs>> /\ Others(c) /\ call'[c].at = "announce"
        /\ \A h \in Keys : store'[h] = 0 \/ store'[h] = store[h]
    BY <1>9 DEF Erases
  <2> QED
    BY <2>1 DEF Recorded, Others
<1>10. ASSUME NEW c \in Callers, NEW k \in Keys, Announces(c, k) PROVE Recorded'
  BY <1>10 DEF Announces, SameRegs, Others, Recorded
<1>11. ASSUME NEW c \in Callers, NEW k \in Keys, NEW r \in Regs, Stores(c, k, r) PROVE Recorded'
  <2>1. regs[r] = [key |-> k, on |-> call[c].on] /\ r # 0
    BY <1>11 DEF Stores, Recorded
  <2>2. /\ UNCHANGED <<up, lookup, regs>> /\ Others(c) /\ store'[k] = r /\ \A h \in Keys \ {k} : store'[h] = store[h]
        /\ call'[c].at = "publish" /\ call'[c].on = call[c].on /\ call'[c].key = k /\ call'[c].reg = r
    BY <1>11 DEF Stores
  <2>3. \A h \in Keys : store'[h] # 0 => regs'[store'[h]].key = h
    BY <2>1, <2>2 DEF Recorded
  <2>4. ASSUME NEW d \in Callers
        PROVE  /\ call'[d].at \in {"lock", "subscribe", "store", "publish"} =>
                    call'[d].reg # 0 /\ regs'[call'[d].reg] = [key |-> call'[d].key, on |-> call'[d].on]
               /\ call'[d].at = "erase" /\ call'[d].reg # 0 => regs'[call'[d].reg].key = call'[d].key
    <3>1. CASE d = c
      BY <2>1, <2>2, <3>1
    <3>2. CASE d # c
      BY <2>2, <3>2 DEF Recorded, Others
    <3> QED
      BY <3>1, <3>2
  <2> QED
    BY <2>2, <2>3, <2>4 DEF Recorded
<1> QED
  BY <1>1, <1>2, <1>4, <1>5, <1>6, <1>7, <1>8, <1>9, <1>10, <1>11, Effects

LEMMA WrittenOnceStep ==
  ASSUME Maps, Called, Mailed, Recorded, WrittenOnce, [Next]_vars
  PROVE  WrittenOnce'
<1>0. /\ Len(regs) \in Nat /\ 0 \in Regs /\ \A r \in Regs : r \in Nat /\ r # Len(regs) + 1
      /\ \A r \in Regs : r # 0 => r \in 1..Len(regs)
      /\ \A r \in 1..Len(regs) : r \in Nat /\ r # 0
      /\ \A k \in Keys : store[k] \in Regs
      /\ \A c \in Callers : call[c].reg \in Regs
      /\ \A i \in Instances, m \in Msg : Ends(i, m) => m.reg \in Regs
  BY Numbers
\* Steps that write nothing and add no registration.
<1>1. ASSUME UNCHANGED regs, \A k \in Keys : store'[k] = store[k],
             \A r \in 1..Len(regs) : \A c \in Callers : Pends(c, r)' => Pends(c, r),
             \A r \in 1..Len(regs) : Ended(r)' => Ended(r)
      PROVE  WrittenOnce'
  <2>1. \A r \in 1..Len(regs) : Stored(r)' <=> Stored(r)
    BY <1>1 DEF Stored
  <2> QED
    BY <1>1, <2>1 DEF WrittenOnce
<1>2. ASSUME UNCHANGED <<regs, store>>, \A i \in Instances, m \in Msg : Ends(i, m)' => Ends(i, m),
             \A c \in Callers : call'[c] = call[c] \/ call'[c].at = "idle"
      PROVE  WrittenOnce'
  <2>1. \A r \in 1..Len(regs) : \A c \in Callers : Pends(c, r)' => Pends(c, r)
    BY <1>2 DEF Pends
  <2>2. \A r \in 1..Len(regs) : Ended(r)' => Ended(r)
    BY <1>2 DEF Ended
  <2> QED
    BY <1>1, <1>2, <2>1, <2>2
<1>3. CASE Rests
  BY <1>2, <1>3 DEF Rests, SameRegs, SameEnds
<1>4. ASSUME NEW i \in Instances, Crashes(i) PROVE WrittenOnce'
  <2>1. \A l \in Instances, m \in Msg : Ends(l, m)' => Ends(l, m)
    BY <1>4 DEF Crashes
  <2> QED
    BY <1>2, <1>4, <2>1 DEF Crashes
<1>5. ASSUME NEW i \in Instances, Clears(i) \/ \E m \in Msg : Drops(i, m) PROVE WrittenOnce'
  <2>1. UNCHANGED <<regs, store, call>> /\ \A l \in Instances, m \in Msg : Ends(l, m)' => Ends(l, m)
    BY <1>5 DEF Clears, Drops, SameEnds
  <2> QED
    BY <1>2, <2>1
<1>6. ASSUME NEW c \in Callers, Goes(c) PROVE WrittenOnce'
  <2>1. \A r \in 1..Len(regs) : \A d \in Callers : Pends(d, r)' => Pends(d, r)
    BY <1>6 DEF Goes, Others, Pends
  <2>2. \A r \in 1..Len(regs) : Ended(r)' => Ended(r)
    BY <1>6 DEF Goes, Others, SameEnds, Ended
  <2> QED
    BY <1>1, <1>6, <2>1, <2>2 DEF Goes, SameRegs
<1>7. ASSUME NEW c \in Callers, NEW i \in Instances, NEW k \in Keys, TakesOut(c, i, k) PROVE WrittenOnce'
  <2>1. \A r \in 1..Len(regs) : \A d \in Callers : Pends(d, r)' => Pends(d, r)
    BY <1>7 DEF TakesOut, Others, Pends
  <2>2. \A r \in 1..Len(regs) : Ended(r)' => Ended(r)
    BY <1>7 DEF TakesOut, Others, SameEnds, Ended
  <2> QED
    BY <1>1, <1>7, <2>1, <2>2 DEF TakesOut
<1>8. ASSUME NEW c \in Callers, NEW k \in Keys, Announces(c, k) PROVE WrittenOnce'
  <2>1. \A r \in 1..Len(regs) : \A d \in Callers : Pends(d, r)' => Pends(d, r)
    BY <1>8 DEF Announces, Others, Pends
  <2>2. \A r \in 1..Len(regs) : Ended(r)' => Ended(r)
    BY <1>8 DEF Announces, Others, Ended
  <2> QED
    BY <1>1, <1>8, <2>1, <2>2 DEF Announces, SameRegs
<1>9. ASSUME NEW c \in Callers, NEW i \in Instances, NEW k \in Keys, Adds(c, i, k) PROVE WrittenOnce'
  <2>0. PICK n : n = Len(regs) + 1
    OBVIOUS
  <2>1. /\ store' = store /\ SameEnds /\ Others(c) /\ call[c].at = "add"
        /\ call'[c].at = "lock" /\ call'[c].reg = n
        /\ \A r \in 1..Len(regs') : r \in 1..Len(regs) \/ r = n
        /\ \A r \in Regs : r # n
    BY <1>0, <1>9, <2>0 DEF Adds
  <2>2. ASSUME NEW r \in 1..Len(regs)
        PROVE  /\ \A d \in Callers : Pends(d, r)' => Pends(d, r)
               /\ Ended(r)' => Ended(r)
               /\ Stored(r)' => Stored(r)
    <3>1. r # n
      BY <1>0, <2>1 DEF Regs
    <3>2. \A d \in Callers : Pends(d, r)' => Pends(d, r)
      BY <2>1, <3>1 DEF Pends, Others
    <3>3. Ended(r)' => Ended(r)
      BY <2>1 DEF Ended, Others, SameEnds
    <3>4. Stored(r)' => Stored(r)
      BY <2>1 DEF Stored
    <3> QED
      BY <3>2, <3>3, <3>4
  <2>3. /\ \A d \in Callers : Pends(d, n)' => d = c
        /\ ~Stored(n)' /\ ~Ended(n)'
    <3>1. \A d \in Callers : Pends(d, n)' => d = c
      BY <1>0, <2>1 DEF Pends, Others
    <3>2. ~Stored(n)'
      BY <1>0, <2>1 DEF Stored
    <3>3. ~Ended(n)'
      BY <1>0, <2>1 DEF Ended, Others, SameEnds
    <3> QED
      BY <3>1, <3>2, <3>3
  <2>4. ASSUME NEW r \in 1..Len(regs')
        PROVE  /\ \A d, e \in Callers : Pends(d, r)' /\ Pends(e, r)' => d = e
               /\ (\E d \in Callers : Pends(d, r)') => ~Stored(r)'
               /\ Ended(r)' => ~Stored(r)' /\ \A d \in Callers : ~Pends(d, r)'
    <3>1. CASE r \in 1..Len(regs)
      BY <2>2, <3>1 DEF WrittenOnce
    <3>2. CASE r = n
      BY <2>3, <3>2
    <3> QED
      BY <2>1, <3>1, <3>2
  <2> QED
    BY <2>4 DEF WrittenOnce
<1>10. ASSUME NEW c \in Callers, NEW k \in Keys, NEW q \in Regs, Stores(c, k, q) PROVE WrittenOnce'
  <2>1. /\ UNCHANGED regs /\ SameEnds /\ Others(c) /\ call[c].at = "store" /\ call[c].reg = q
        /\ call'[c].at = "publish" /\ call'[c].reg = q
        /\ store'[k] = q /\ \A h \in Keys \ {k} : store'[h] = store[h]
    BY <1>10 DEF Stores
  <2>2. ASSUME NEW r \in 1..Len(regs)
        PROVE  /\ \A d, e \in Callers : Pends(d, r)' /\ Pends(e, r)' => d = e
               /\ (\E d \in Callers : Pends(d, r)') => ~Stored(r)'
               /\ Ended(r)' => ~Stored(r)' /\ \A d \in Callers : ~Pends(d, r)'
    <3>1. \A d \in Callers : Pends(d, r)' => d # c /\ Pends(d, r)
      BY <2>1 DEF Pends, Others
    <3>2. Ended(r)' => Ended(r)
      BY <2>1 DEF Ended, Others, SameEnds
    <3>3. CASE r # q
      <4>1. Stored(r)' => Stored(r)
        BY <2>1, <3>3 DEF Stored
      <4> QED
        BY <3>1, <3>2, <4>1 DEF WrittenOnce
    <3>4. CASE r = q
      <4>1. Pends(c, r)
        BY <2>1, <3>4 DEF Pends
      <4>2. ~Ended(r) /\ \A d \in Callers : Pends(d, r) => d = c
        BY <4>1 DEF WrittenOnce
      <4> QED
        BY <3>1, <3>2, <4>2
    <3> QED
      BY <3>3, <3>4
  <2> QED
    BY <2>1, <2>2 DEF WrittenOnce
<1>11. ASSUME NEW c \in Callers, NEW k \in Keys, Erases(c, k) PROVE WrittenOnce'
  <2>1. /\ UNCHANGED regs /\ SameEnds /\ Others(c)
        /\ call'[c].at = "announce" /\ call'[c].reg = store[k]
        /\ store'[k] = 0 /\ \A h \in Keys \ {k} : store'[h] = store[h]
    BY <1>11 DEF Erases
  <2>2. ASSUME NEW r \in 1..Len(regs)
        PROVE  /\ \A d, e \in Callers : Pends(d, r)' /\ Pends(e, r)' => d = e
               /\ (\E d \in Callers : Pends(d, r)') => ~Stored(r)'
               /\ Ended(r)' => ~Stored(r)' /\ \A d \in Callers : ~Pends(d, r)'
    <3>1. \A d \in Callers : Pends(d, r)' => Pends(d, r)
      BY <2>1 DEF Pends, Others
    <3>2. Ended(r)' => Ended(r) \/ r = store[k]
      BY <2>1 DEF Ended, Others, SameEnds
    <3>3. Stored(r)' => \E h \in Keys \ {k} : store[h] = r
      BY <1>0, <2>1 DEF Stored
    <3>4. Stored(r)' => Stored(r)
      BY <3>3 DEF Stored
    <3>5. CASE r # store[k]
      BY <3>1, <3>2, <3>4, <3>5 DEF WrittenOnce
    <3>6. CASE r = store[k]
      <4>1. Stored(r)
        BY <3>6 DEF Stored
      <4>2. \A d \in Callers : ~Pends(d, r)
        BY <4>1 DEF WrittenOnce
      <4>3. ~Stored(r)'
        BY <1>0, <3>3, <3>6 DEF Recorded
      <4> QED
        BY <3>1, <4>2, <4>3
    <3> QED
      BY <3>5, <3>6
  <2> QED
    BY <2>1, <2>2 DEF WrittenOnce
<1> QED
  BY <1>3, <1>4, <1>5, <1>6, <1>7, <1>8, <1>9, <1>10, <1>11, Effects

LEMMA HeldStep ==
  ASSUME Maps, Called, Mailed, Recorded, WrittenOnce, Held, [Next]_vars
  PROVE  Held'
<1>0. /\ Len(regs) \in Nat /\ 0 \in Regs /\ \A r \in Regs : r \in Nat /\ r # Len(regs) + 1
      /\ \A r \in Regs : r # 0 => r \in 1..Len(regs)
      /\ \A r \in 1..Len(regs) : r \in Nat /\ r # 0
      /\ \A k \in Keys : store[k] \in Regs
      /\ \A c \in Callers : call[c].reg \in Regs
      /\ \A r \in 1..Len(regs) : regs[r].key \in Keys /\ regs[r].on \in Instances
  BY Numbers
\* Steps that add no registration and write none of those that do not pend.
<1>1. ASSUME UNCHANGED regs, gone \subseteq gone',
             \A r \in 1..Len(regs) :
               /\ Stored(r)' => Stored(r) \/ \E c \in Callers : Pends(c, r)
               /\ \A c \in Callers : Pends(c, r)' => Pends(c, r)
               /\ (Stored(r)' \/ \E c \in Callers : Pends(c, r)') =>
                    /\ lookup[regs[r].on][regs[r].key] = r =>
                         \/ lookup'[regs[r].on][regs[r].key] = r \/ r \in gone'
                         \/ \E c \in Callers : Removes(c, r)'
                    /\ \A c \in Callers : Removes(c, r) => Removes(c, r)' \/ r \in gone'
      PROVE  Held'
  <2> SUFFICES ASSUME NEW r \in 1..Len(regs), Stored(r)' \/ \E c \in Callers : Pends(c, r)'
               PROVE  \/ r \in gone' \/ lookup'[regs[r].on][regs[r].key] = r
                      \/ \E c \in Callers : Removes(c, r)'
    BY <1>1 DEF Held
  <2>1. Stored(r) \/ \E c \in Callers : Pends(c, r)
    BY <1>1
  <2>2. \/ r \in gone \/ lookup[regs[r].on][regs[r].key] = r
        \/ \E c \in Callers : Removes(c, r)
    BY <2>1 DEF Held
  <2> QED
    BY <1>1, <2>2
<1>2. CASE Rests
  <2>1. UNCHANGED <<regs, gone, store, lookup, call>>
    BY <1>2 DEF Rests, SameRegs
  <2> QED
    BY <1>1, <2>1 DEF Stored, Pends, Removes
<1>3. ASSUME NEW i \in Instances, Crashes(i) PROVE Held'
  <2>1. /\ UNCHANGED <<regs, store>> /\ gone \subseteq gone'
        /\ \A l \in Instances, k \in Keys : lookup'[l][k] = lookup[l][k] \/ lookup[l][k] \in gone'
        /\ \A c \in Callers : call'[c] = call[c] \/ (call'[c].at = "idle" /\ call[c].reg \in gone')
    BY <1>3 DEF Crashes
  <2>2. ASSUME NEW r \in 1..Len(regs)
        PROVE  /\ Stored(r)' => Stored(r)
               /\ \A c \in Callers : Pends(c, r)' => Pends(c, r)
               /\ \A c \in Callers : Removes(c, r) => Removes(c, r)' \/ r \in gone'
               /\ lookup[regs[r].on][regs[r].key] = r => lookup'[regs[r].on][regs[r].key] = r \/ r \in gone'
    BY <1>0, <2>1 DEF Stored, Pends, Removes
  <2> QED
    BY <1>1, <2>1, <2>2
<1>4. ASSUME NEW i \in Instances, Clears(i) PROVE Held'
  <2>1. /\ UNCHANGED <<regs, store, call>> /\ gone \subseteq gone'
        /\ \A l \in Instances, k \in Keys : lookup'[l][k] = lookup[l][k] \/ lookup[l][k] \in gone'
    BY <1>4 DEF Clears
  <2> QED
    BY <1>0, <1>1, <2>1 DEF Stored, Pends, Removes
<1>5. ASSUME NEW i \in Instances, NEW m \in Msg, Drops(i, m) PROVE Held'
  <2>1. /\ UNCHANGED <<regs, store, call>> /\ gone \subseteq gone' /\ m.key \in Keys /\ Ends(i, m)
        /\ lookup[i][m.key] = m.reg \/ lookup[i][m.key] \in gone'
        /\ OtherLookups(i, m.key)
    BY <1>5 DEF Drops
  <2>2. ASSUME NEW r \in 1..Len(regs), Stored(r)' \/ \E c \in Callers : Pends(c, r)',
               lookup[regs[r].on][regs[r].key] = r
        PROVE  lookup'[regs[r].on][regs[r].key] = r \/ r \in gone'
    <3>1. Stored(r) \/ \E c \in Callers : Pends(c, r)
      BY <2>1, <2>2 DEF Stored, Pends
    <3>2. ~Ended(r)
      BY <3>1 DEF WrittenOnce
    <3>3. m.reg # r
      BY <2>1, <3>2 DEF Ended
    <3>4. CASE regs[r].on = i /\ regs[r].key = m.key
      BY <2>1, <2>2, <3>3, <3>4
    <3>5. CASE regs[r].on # i \/ regs[r].key # m.key
      BY <1>0, <2>1, <2>2, <3>5 DEF OtherLookups
    <3> QED
      BY <3>4, <3>5
  <2>3. \A r \in 1..Len(regs) :
          /\ Stored(r)' => Stored(r)
          /\ \A c \in Callers : Pends(c, r)' => Pends(c, r)
          /\ \A c \in Callers : Removes(c, r) => Removes(c, r)'
    BY <2>1 DEF Stored, Pends, Removes
  <2> QED
    BY <1>1, <2>1, <2>2, <2>3
<1>6. ASSUME NEW c \in Callers, Goes(c) PROVE Held'
  <2>1. UNCHANGED <<regs, store, lookup, gone>>
    BY <1>6 DEF Goes, SameRegs
  <2>2. ASSUME NEW r \in 1..Len(regs)
        PROVE  /\ Stored(r)' => Stored(r)
               /\ \A d \in Callers : Pends(d, r)' => Pends(d, r)
               /\ \A d \in Callers : Removes(d, r) => Removes(d, r)'
    BY <1>6, <2>1 DEF Goes, Others, Stored, Pends, Removes
  <2> QED
    BY <1>1, <2>1, <2>2
<1>7. ASSUME NEW c \in Callers, NEW k \in Keys, Announces(c, k) PROVE Held'
  <2>1. UNCHANGED <<regs, store, lookup, gone>>
    BY <1>7 DEF Announces, SameRegs
  <2>2. ASSUME NEW r \in 1..Len(regs)
        PROVE  /\ Stored(r)' => Stored(r)
               /\ \A d \in Callers : Pends(d, r)' => Pends(d, r)
               /\ \A d \in Callers : Removes(d, r) => Removes(d, r)'
    BY <1>7, <2>1 DEF Announces, Others, Stored, Pends, Removes
  <2> QED
    BY <1>1, <2>1, <2>2
<1>8. ASSUME NEW c \in Callers, NEW i \in Instances, NEW k \in Keys, TakesOut(c, i, k) PROVE Held'
  <2>1. /\ UNCHANGED <<regs, store, gone>> /\ OtherLookups(i, k) /\ Others(c)
        /\ call[c].at \in {"idle", "remove"} /\ call'[c].at = "erase" /\ call'[c].reg = lookup[i][k]
    BY <1>8 DEF TakesOut
  <2>2. ASSUME NEW r \in 1..Len(regs)
        PROVE  /\ Stored(r)' => Stored(r)
               /\ \A d \in Callers : Pends(d, r)' => Pends(d, r)
               /\ \A d \in Callers : Removes(d, r) => Removes(d, r)'
    BY <2>1 DEF Others, Stored, Pends, Removes
  <2>3. ASSUME NEW r \in 1..Len(regs), lookup[regs[r].on][regs[r].key] = r
        PROVE  lookup'[regs[r].on][regs[r].key] = r \/ \E d \in Callers : Removes(d, r)'
    <3>1. CASE regs[r].on = i /\ regs[r].key = k
      BY <2>1, <2>3, <3>1 DEF Removes
    <3>2. CASE regs[r].on # i \/ regs[r].key # k
      BY <1>0, <2>1, <2>3, <3>2 DEF OtherLookups
    <3> QED
      BY <3>1, <3>2
  <2> QED
    BY <1>1, <2>1, <2>2, <2>3
<1>9. ASSUME NEW c \in Callers, NEW k \in Keys, NEW q \in Regs, Stores(c, k, q) PROVE Held'
  <2>1. /\ UNCHANGED <<regs, lookup, gone>> /\ Others(c) /\ call[c].at = "store" /\ call[c].reg = q
        /\ call'[c].at = "publish" /\ store'[k] = q /\ \A h \in Keys \ {k} : store'[h] = store[h]
    BY <1>9 DEF Stores
  <2>2. ASSUME NEW r \in 1..Len(regs)
        PROVE  /\ Stored(r)' => Stored(r) \/ Pends(c, r)
               /\ \A d \in Callers : Pends(d, r)' => Pends(d, r)
               /\ \A d \in Callers : Removes(d, r) => Removes(d, r)'
    BY <2>1 DEF Others, Stored, Pends, Removes
  <2> QED
    BY <1>1, <2>1, <2>2
<1>10. ASSUME NEW c \in Callers, NEW k \in Keys, Erases(c, k) PROVE Held'
  <2>1. /\ UNCHANGED <<regs, lookup>> /\ gone \subseteq gone' /\ Others(c) /\ call[c].at = "erase"
        /\ call'[c].at = "announce" /\ store'[k] = 0 /\ \A h \in Keys \ {k} : store'[h] = store[h]
        /\ call[c].reg = store[k] \/ call[c].reg \in gone'
    BY <1>10 DEF Erases
  <2>2. ASSUME NEW r \in 1..Len(regs)
        PROVE  /\ Stored(r)' => \E h \in Keys \ {k} : store[h] = r
               /\ \A d \in Callers : Pends(d, r)' => Pends(d, r)
               /\ \A d \in Callers \ {c} : Removes(d, r) => Removes(d, r)'
    BY <1>0, <2>1 DEF Others, Stored, Pends, Removes
  <2>3. ASSUME NEW r \in 1..Len(regs), Removes(c, r), Stored(r)' \/ \E d \in Callers : Pends(d, r)'
        PROVE  r \in gone'
    <3>1. call[c].reg = r
      BY <2>3 DEF Removes
    <3>2. store[k] # r
      <4>1. SUFFICES ASSUME store[k] = r PROVE FALSE
        OBVIOUS
      <4>2. Stored(r)
        BY <4>1 DEF Stored
      <4>3. \A d \in Callers : ~Pends(d, r)'
        BY <2>2, <4>2 DEF WrittenOnce
      <4>4. PICK h \in Keys \ {k} : store[h] = r
        BY <2>2, <2>3, <4>3
      <4> QED
        BY <1>0, <4>1, <4>4 DEF Recorded
    <3> QED
      BY <2>1, <3>1, <3>2
  <2>4. \A r \in 1..Len(regs) : Stored(r)' => Stored(r)
    BY <2>2 DEF Stored
  <2> QED
    BY <1>1, <2>1, <2>2, <2>3, <2>4
<1>11. ASSUME NEW c \in Callers, NEW i \in Instances, NEW k \in Keys, Adds(c, i, k) PROVE Held'
  <2> DEFINE n == Len(regs) + 1
  <2>1. /\ UNCHANGED <<store, gone>> /\ Others(c) /\ call[c].at = "add" /\ lookup[i][k] = 0
        /\ \A r \in 1..Len(regs) : regs'[r] = regs[r]
        /\ regs'[n] = [key |-> k, on |-> i] /\ lookup'[i][k] = n /\ OtherLookups(i, k)
        /\ call'[c].at = "lock" /\ call'[c].reg = n
        /\ \A r \in 1..Len(regs') : r \in 1..Len(regs) \/ r = n
        /\ \A r \in Regs : r # n
    BY <1>0, <1>11 DEF Adds
  <2> HIDE DEF n
  <2>2. ASSUME NEW r \in 1..Len(regs), Stored(r)' \/ \E d \in Callers : Pends(d, r)'
        PROVE  \/ r \in gone' \/ lookup'[regs'[r].on][regs'[r].key] = r
               \/ \E d \in Callers : Removes(d, r)'
    <3>0. r # n /\ r # 0 /\ regs'[r] = regs[r]
      BY <1>0, <2>1 DEF Regs
    <3>1. Stored(r) \/ \E d \in Callers : Pends(d, r)
      BY <2>1, <2>2, <3>0 DEF Stored, Pends, Others
    <3>2. \/ r \in gone \/ lookup[regs[r].on][regs[r].key] = r
          \/ \E d \in Callers : Removes(d, r)
      BY <3>1 DEF Held
    <3>3. \A d \in Callers : Removes(d, r) => Removes(d, r)'
      BY <2>1 DEF Removes, Others
    <3>4. ASSUME lookup[regs[r].on][regs[r].key] = r
          PROVE  lookup'[regs[r].on][regs[r].key] = r
      <4>1. regs[r].on # i \/ regs[r].key # k
        BY <2>1, <3>0, <3>4
      <4> QED
        BY <1>0, <2>1, <3>4, <4>1 DEF OtherLookups
    <3> QED
      BY <2>1, <3>0, <3>2, <3>3, <3>4
  <2>3. lookup'[regs'[n].on][regs'[n].key] = n
    BY <2>1
  <2>4. ASSUME NEW r \in 1..Len(regs'), Stored(r)' \/ \E d \in Callers : Pends(d, r)'
        PROVE  \/ r \in gone' \/ lookup'[regs'[r].on][regs'[r].key] = r
               \/ \E d \in Callers : Removes(d, r)'
    <3>1. CASE r \in 1..Len(regs)
      BY <2>2, <2>4, <3>1
    <3>2. CASE r = n
      BY <2>3, <3>2
    <3> QED
      BY <2>1, <3>1, <3>2
  <2> QED
    BY <2>4 DEF Held
<1> QED
  BY <1>2, <1>3, <1>4, <1>5, <1>6, <1>7, <1>8, <1>9, <1>10, <1>11, Effects

LEMMA PromisedStep ==
  ASSUME Maps, Called, Mailed, Recorded, [Next]_vars,
         NEW i \in Instances, NEW k \in Keys, Promised(i, k)
  PROVE  Promised(i, k)'
<1>1. SUFFICES ASSUME lookup'[i][k] # 0, store'[k] = 0, k \notin crossed'
               PROVE  (\E d \in Callers : Backs(d, i, k)') \/ \E m \in Msg : m.key = k /\ Ends(i, m)'
  BY DEF Promised
\* Who is behind it stays so.
<1>2. ASSUME lookup[i][k] = lookup'[i][k], store[k] = 0, k \notin crossed,
             \A c \in Callers : Backs(c, i, k) =>
               \/ call'[c] = call[c]
               \/ /\ call'[c].key = k /\ call'[c].on = call[c].on
                  /\ call[c].at # "announce" /\ call'[c].at \in {"lock", "subscribe", "store"}
               \/ \E m \in Msg : m.key = k /\ Ends(i, m)',
             \A m \in Msg : m.key = k /\ Ends(i, m) => Ends(i, m)'
      PROVE  (\E d \in Callers : Backs(d, i, k)') \/ \E m \in Msg : m.key = k /\ Ends(i, m)'
  <2>1. CASE \E m \in Msg : m.key = k /\ Ends(i, m)
    BY <1>2, <2>1
  <2>2. CASE \E c \in Callers : Backs(c, i, k)
    <3>1. PICK c \in Callers : Backs(c, i, k)
      BY <2>2
    <3>2. CASE call'[c] = call[c]
      BY <3>1, <3>2 DEF Backs
    <3>3. CASE /\ call'[c].key = k /\ call'[c].on = call[c].on
               /\ call[c].at # "announce" /\ call'[c].at \in {"lock", "subscribe", "store"}
      BY <3>1, <3>3 DEF Backs
    <3> QED
      BY <1>2, <3>1, <3>2, <3>3
  <2> QED
    BY <1>1, <1>2, <2>1, <2>2 DEF Promised
<1>3. CASE Rests
  BY <1>1, <1>2, <1>3 DEF Rests, SameRegs, SameEnds
<1>4. ASSUME NEW l \in Instances, Crashes(l)
      PROVE  (\E d \in Callers : Backs(d, i, k)') \/ \E m \in Msg : m.key = k /\ Ends(i, m)'
  <2>1. /\ l # i /\ lookup'[i] = lookup[i] /\ UNCHANGED store /\ k \notin crossed
        /\ \A m \in Msg : Ends(i, m)' <=> Ends(i, m)
    BY <1>1, <1>4 DEF Crashes
  <2>2. \A c \in Callers : \/ call'[c] = call[c]
                           \/ call[c].on # i /\ (call[c].at = "announce" => call[c].key # k)
    BY <1>1, <1>4, <2>1 DEF Crashes
  <2> QED
    BY <1>1, <1>2, <2>1, <2>2 DEF Backs
<1>5. ASSUME NEW l \in Instances, NEW n \in Msg, Drops(l, n)
      PROVE  (\E d \in Callers : Backs(d, i, k)') \/ \E m \in Msg : m.key = k /\ Ends(i, m)'
  <2>1. /\ l # i \/ n.key # k
        /\ lookup'[i][k] = lookup[i][k] /\ UNCHANGED <<call, store, crossed>>
    BY <1>1, <1>5 DEF Drops, OtherLookups
  <2>2. \A m \in Msg : m.key = k /\ Ends(i, m) => Ends(i, m)'
    BY <1>5, <2>1 DEF Drops
  <2> QED
    BY <1>1, <1>2, <2>1, <2>2
<1>6. ASSUME NEW l \in Instances, Clears(l)
      PROVE  (\E d \in Callers : Backs(d, i, k)') \/ \E m \in Msg : m.key = k /\ Ends(i, m)'
  <2>1. lookup'[i][k] = lookup[i][k] /\ UNCHANGED <<call, store, crossed>> /\ SameEnds
    BY <1>1, <1>6 DEF Clears
  <2> QED
    BY <1>1, <1>2, <2>1 DEF SameEnds
<1>7. ASSUME NEW c \in Callers, NEW l \in Instances, NEW h \in Keys, Adds(c, l, h)
      PROVE  (\E d \in Callers : Backs(d, i, k)') \/ \E m \in Msg : m.key = k /\ Ends(i, m)'
  <2>1. CASE l = i /\ h = k
    BY <1>7, <2>1 DEF Adds, Backs
  <2>2. CASE l # i \/ h # k
    <3>1. /\ lookup'[i][k] = lookup[i][k] /\ UNCHANGED <<store, crossed>> /\ SameEnds
          /\ Others(c) /\ call[c].at = "add"
      BY <1>7, <2>2 DEF Adds, OtherLookups
    <3> QED
      BY <1>1, <1>2, <3>1 DEF SameEnds, Others, Backs
  <2> QED
    BY <2>1, <2>2
<1>8. ASSUME NEW c \in Callers, NEW l \in Instances, NEW h \in Keys, TakesOut(c, l, h)
      PROVE  (\E d \in Callers : Backs(d, i, k)') \/ \E m \in Msg : m.key = k /\ Ends(i, m)'
  <2>1. /\ lookup'[i][k] = lookup[i][k] /\ UNCHANGED <<store, crossed>> /\ SameEnds
        /\ Others(c) /\ call[c].at \in {"idle", "remove"}
    BY <1>1, <1>8 DEF TakesOut, OtherLookups
  <2> QED
    BY <1>1, <1>2, <2>1 DEF SameEnds, Others, Backs
<1>9. ASSUME NEW c \in Callers, Goes(c)
      PROVE  (\E d \in Callers : Backs(d, i, k)') \/ \E m \in Msg : m.key = k /\ Ends(i, m)'
  <2>1. UNCHANGED <<lookup, store, crossed>> /\ SameEnds /\ Others(c)
    BY <1>9 DEF Goes, SameRegs
  <2>2. \/ call[c].at \notin {"lock", "subscribe", "store", "announce"}
        \/ /\ call[c].at # "announce" /\ call'[c].at \in {"lock", "subscribe", "store"}
           /\ call'[c].on = call[c].on /\ call'[c].key = call[c].key
    BY <1>9 DEF Goes
  <2>3. \A m \in Msg : m.key = k /\ Ends(i, m) => Ends(i, m)'
    BY <2>1 DEF SameEnds
  <2>4. \A d \in Callers : d # c => call'[d] = call[d]
    BY <2>1 DEF Others
  <2> QED
    BY <1>1, <1>2, <2>1, <2>2, <2>3, <2>4 DEF Backs
<1>10. ASSUME NEW c \in Callers, NEW h \in Keys, NEW r \in Regs, Stores(c, h, r)
       PROVE  (\E d \in Callers : Backs(d, i, k)') \/ \E m \in Msg : m.key = k /\ Ends(i, m)'
  <2>1. call[c].at = "store" /\ r = call[c].reg /\ r # 0
    BY <1>10 DEF Stores, Recorded
  <2>2. h # k
    BY <1>1, <1>10, <2>1 DEF Stores
  <2>3. /\ UNCHANGED lookup /\ store'[k] = store[k] /\ crossed \subseteq crossed'
        /\ SameEnds /\ Others(c) /\ call[c].key = h
    BY <1>10, <2>2 DEF Stores
  <2> QED
    BY <1>1, <1>2, <2>2, <2>3 DEF SameEnds, Others, Backs
<1>11. ASSUME NEW c \in Callers, NEW h \in Keys, Erases(c, h)
       PROVE  (\E d \in Callers : Backs(d, i, k)') \/ \E m \in Msg : m.key = k /\ Ends(i, m)'
  <2>1. CASE h = k
    BY <1>11, <2>1 DEF Erases, Backs
  <2>2. CASE h # k
    <3>1. /\ UNCHANGED lookup /\ store'[k] = store[k] /\ crossed \subseteq crossed'
          /\ SameEnds /\ Others(c) /\ call[c].key = h
      BY <1>11, <2>2 DEF Erases
    <3> QED
      BY <1>1, <1>2, <2>2, <3>1 DEF SameEnds, Others, Backs
  <2> QED
    BY <2>1, <2>2
<1>12. ASSUME NEW c \in Callers, NEW h \in Keys, Announces(c, h)
       PROVE  (\E d \in Callers : Backs(d, i, k)') \/ \E m \in Msg : m.key = k /\ Ends(i, m)'
  <2>1. /\ UNCHANGED <<lookup, store, crossed>> /\ Others(c)
        /\ call[c].key = h /\ call[c].at = "announce"
        /\ \A m \in Msg : Ends(i, m) => Ends(i, m)'
        /\ up[i] = "up" => \E m \in Msg : m.key = h /\ Ends(i, m)'
    BY <1>12 DEF Announces, SameRegs
  <2>2. up[i] = "up"
    BY <1>1, <2>1 DEF Recorded
  <2>3. CASE h = k
    BY <2>1, <2>2, <2>3
  <2>4. CASE h # k
    BY <1>1, <1>2, <2>1, <2>4 DEF Others, Backs
  <2> QED
    BY <2>3, <2>4
<1> QED
  BY <1>3, <1>4, <1>5, <1>6, <1>7, <1>8, <1>9, <1>10, <1>11, <1>12, Effects

-----------------------------------------------------------------------------
LEMMA InitInv == Init => IInv
<1> SUFFICES ASSUME Init PROVE IInv
  OBVIOUS
<1>1. /\ Regs = {0} /\ Nothing \in [Keys -> {0}] /\ NoMail \in Mail
      /\ \A s \in Subjects : NoMail[s] = <<>>
  BY DEF Init, Regs, Nothing, NoMail, Mail
<1>2. Idle \in Call /\ Idle.at = "idle" /\ Idle.reg = 0
  BY DEF Idle, Call, Steps
<1>3. Maps
  BY <1>1 DEF Init, Maps
<1>4. Called
  BY <1>1, <1>2 DEF Init, Called
<1>5. Mailed /\ Empty
  BY <1>1 DEF Init, Mailed, Empty
<1>6. \A k \in Keys : Written(k) /\ \A i \in Instances : Informed(i, k)
  BY <1>2 DEF Init, Written, Writes, Informed
<1> QED
  BY <1>3, <1>4, <1>5, <1>6 DEF IInv

LEMMA StepInv == IInv /\ [Next]_vars => IInv'
<1> SUFFICES ASSUME IInv, [Next]_vars PROVE IInv'
  OBVIOUS
<1>1. Maps' /\ Called' /\ Mailed' /\ Empty'
  BY MapsStep, CalledStep, MailedStep DEF IInv
<1>2. \A k \in Keys : Written(k)'
  BY WrittenStep DEF IInv
<1>3. \A k \in Keys, i \in Instances : Informed(i, k)'
  BY InformedStep
<1> QED
  BY <1>1, <1>2, <1>3 DEF IInv

LEMMA Always == Spec => []IInv
BY InitInv, StepInv, PTL DEF Spec

LEMMA InitRecorded == Init => RInv
<1> SUFFICES ASSUME Init PROVE RInv
  OBVIOUS
<1>1. /\ \A i \in Instances, k \in Keys : lookup[i][k] = 0
      /\ \A k \in Keys : store[k] = 0
      /\ \A c \in Callers : call[c].at = "idle"
      /\ Len(regs) = 0
  BY DEF Init, Nothing, Idle
<1>2. Recorded
  BY <1>1 DEF Recorded
<1>3. WrittenOnce /\ Held
  BY <1>1 DEF WrittenOnce, Held
<1>4. \A i \in Instances, k \in Keys : Promised(i, k)
  BY <1>1 DEF Promised
<1> QED
  BY <1>2, <1>3, <1>4 DEF RInv

LEMMA StepRecorded == IInv /\ RInv /\ [Next]_vars => RInv'
<1> SUFFICES ASSUME IInv, RInv, [Next]_vars PROVE RInv'
  OBVIOUS
<1>1. Maps /\ Called /\ Mailed /\ Recorded /\ WrittenOnce /\ Held
  BY DEF IInv, RInv
<1>2. Recorded'
  BY <1>1, RecordedStep
<1>3. WrittenOnce'
  BY <1>1, WrittenOnceStep
<1>4. Held'
  BY <1>1, HeldStep
<1>5. \A i \in Instances, k \in Keys : Promised(i, k)'
  BY <1>1, PromisedStep DEF RInv
<1> QED
  BY <1>2, <1>3, <1>4, <1>5 DEF RInv

LEMMA AlwaysRecorded == Spec => [](IInv /\ RInv)
BY InitRecorded, StepRecorded, Always, PTL DEF Spec

-----------------------------------------------------------------------------
\* The variables keep their types, and one caller at a time holds the mutex of
\* an instance.
THEOREM TypeCorrect == Spec => []TypeOK
<1>1. IInv => TypeOK
  <2> SUFFICES ASSUME IInv PROVE TypeOK
    OBVIOUS
  <2>1. Maps /\ Called
    BY DEF IInv
  <2>2. \A r \in 1..Len(regs) : regs[r] \in [key : Keys, on : Instances]
    <3> DEFINE T == [key : Keys, on : Instances]
    <3>1. regs \in Seq(T)
      BY <2>1 DEF Maps
    <3> HIDE DEF T
    <3>2. \A r \in 1..Len(regs) : regs[r] \in T
      BY <3>1
    <3> QED
      BY <3>2 DEF T
  <2>3. \A c \in Callers : call[c].at \in Steps
    <3>1. \A c \in Callers : call[c] \in Call
      BY <2>1 DEF Called
    <3> QED
      BY <3>1 DEF Call
  <2> QED
    BY <2>1, <2>2, <2>3 DEF Maps, Called, TypeOK
<1> QED
  BY <1>1, Always, PTL

\* When nothing is under way for a key, what an instance knows of it is what
\* the store holds, however many instances started, crashed and registered.
THEOREM InstancesAgree == Spec => []Agreement
<1>1. IInv => Agreement
  <2> SUFFICES ASSUME IInv, NEW k \in Keys, NEW i \in Instances,
                      Quiet(k), up[i] = "up", k \notin crossed \cup mixed[i]
               PROVE  live[i][k] = store[k]
    BY DEF Agreement
  <2>1. Informed(i, k) /\ \A c \in Callers : ~Writes(c, k)
    BY DEF IInv, Quiet, Writes
  <2>2. \A s \in Subjects, m \in Msg : ~Waits(i, k, s, m)
    BY DEF Quiet, Waits
  <2> QED
    BY <2>1, <2>2 DEF Informed, Knows
<1> QED
  BY <1>1, Always, PTL

\* When nothing is under way for a key and its store and messages were written
\* in one order, no lookup records an event that the store does not announce,
\* and what the store announces is recorded where it was registered, unless
\* that registration stopped without being unregistered.
THEOREM AnnouncedIsRecorded == Spec => []KnownIsRecorded
<1>1. IInv /\ RInv => KnownIsRecorded
  <2> SUFFICES ASSUME IInv, RInv, NEW k \in Keys, Quiet(k), k \notin crossed
               PROVE  IF store[k] = 0 THEN \A i \in Instances : lookup[i][k] = 0
                      ELSE store[k] \in gone \/ lookup[regs[store[k]].on][k] = store[k]
    BY DEF KnownIsRecorded
  <2>1. Maps /\ Called /\ Mailed /\ Recorded /\ Held /\ \A i \in Instances : Promised(i, k)
    BY DEF IInv, RInv
  <2>2. /\ \A c \in Callers : call[c].key # k
        /\ \A i \in Instances, m \in Msg : Ends(i, m) => m.key # k
    BY DEF Quiet, Ends, Subjects
  <2>3. ASSUME store[k] = 0, NEW i \in Instances PROVE lookup[i][k] = 0
    BY <2>1, <2>2, <2>3 DEF Promised, Backs
  <2>4. ASSUME store[k] # 0 PROVE store[k] \in gone \/ lookup[regs[store[k]].on][k] = store[k]
    <3>1. store[k] \in 1..Len(regs) /\ Stored(store[k])
      BY <2>1, <2>4, Numbers DEF Stored
    <3>2. regs[store[k]].key = k
      BY <2>1, <2>4 DEF Recorded
    <3>3. \A c \in Callers : ~Removes(c, store[k])
      <4>1. ASSUME NEW c \in Callers, call[c].at = "erase", call[c].reg = store[k] PROVE FALSE
        <5>1. regs[call[c].reg].key = call[c].key
          BY <2>1, <2>4, <4>1 DEF Recorded
        <5> QED
          BY <2>2, <3>2, <4>1, <5>1
      <4> QED
        BY <4>1 DEF Removes
    <3> QED
      BY <2>1, <3>1, <3>2, <3>3 DEF Held
  <2> QED
    BY <2>3, <2>4
<1> QED
  BY <1>1, AlwaysRecorded, PTL
=============================================================================
