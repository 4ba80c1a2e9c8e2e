---------------------------- MODULE ReplayProofs ----------------------------
(***************************************************************************)
(* Proofs about Replay as the analysis and the command run it, for any     *)
(* number of providers, any page sizes and any stored messages: in the     *)
(* analysis, what was stored is processed once, in order, and completely;  *)
(* the command sends the first pages over and over.                        *)
(*                                                                         *)
(* The argument follows a message of a kind on its way: from the database  *)
(* to the buffer, to the channel, to the head that the merge compares and  *)
(* to the processors.  Together these places hold, in the order of the     *)
(* ids, what the queries have read, and the next page begins behind it.    *)
(***************************************************************************)
EXTENDS Replay, FiniteSetTheorems, SequenceTheorems, TLAPS

\* What is stored: entries of rs_info are numbered from 1.
Stored ==
  \A k \in Providers :
    /\ rows[k] \in SUBSET Message /\ IsFiniteSet(rows[k])
    /\ \A r \in rows[k] : r.id > 0

\* The replay of the analysis.
Analysis == Parameters /\ Advances
AnalysisSpec == Analysis /\ Stored /\ ReplayInit /\ [][ReplayNext]_<<rows, replayVars>>

\* The head of k is still to be processed.
HasHead(k) == head[k] # NoRow /\ ~(merge = "refill" /\ pData[turn] = k)
HasOffer(k) == prov[k] = "send"
Merged == {pData[i] : i \in DOMAIN pData}

\* One message comes before another one of its kind.
Before(a, b) == a # b /\ a.id <= b.id

(* The strengthening. *)

\* The places hold messages of their kind ...
Placed(k) ==
  /\ \A i \in DOMAIN out : out[i].kind = k => out[i].row \in rows[k]
  /\ head[k] # NoRow => head[k] \in rows[k]
  /\ HasOffer(k) => offer[k] \in rows[k]
  /\ \A i \in DOMAIN buffer[k] : buffer[k][i] \in rows[k]

\* ... that were read ...
Read(k) ==
  /\ HasHead(k) => head[k].id < from[k]
  /\ HasOffer(k) => offer[k].id < from[k]
  /\ \A i \in DOMAIN buffer[k] : buffer[k][i].id < from[k]
  /\ \A i \in DOMAIN out : out[i].kind = k => out[i].row.id < from[k]

\* ... in the order of the ids ...
Queued(k) ==
  /\ \A i, j \in DOMAIN buffer[k] : i < j => Before(buffer[k][i], buffer[k][j])
  /\ \A j \in DOMAIN buffer[k] :
       /\ HasOffer(k) => Before(offer[k], buffer[k][j])
       /\ HasHead(k) => Before(head[k], buffer[k][j])
  /\ HasHead(k) /\ HasOffer(k) => Before(head[k], offer[k])

Done(k) ==
  \A i \in DOMAIN out : out[i].kind = k =>
    /\ HasHead(k) => Before(out[i].row, head[k])
    /\ HasOffer(k) => Before(out[i].row, offer[k])
    /\ \A j \in DOMAIN buffer[k] : Before(out[i].row, buffer[k][j])

\* ... and none is missing.
There(k, id) ==
  \/ \E i \in DOMAIN out : out[i].kind = k /\ out[i].row.id = id
  \/ HasHead(k) /\ head[k].id = id
  \/ HasOffer(k) /\ offer[k].id = id
  \/ \E i \in DOMAIN buffer[k] : buffer[k][i].id = id

Complete(k) == \A r \in rows[k] : r.id < from[k] => There(k, r.id)

Line(k) == Placed(k) /\ Read(k) /\ Queued(k) /\ Done(k) /\ Complete(k)

\* A provider that has closed its channel has read everything, and the merge
\* forgets it only then.
Closed(k) ==
  /\ prov[k] = "closed" => buffer[k] = <<>> /\ \A r \in rows[k] : r.id < from[k]
  /\ k \notin Merged => prov[k] = "closed" /\ ~HasHead(k)

\* The merge.
Merging ==
  /\ \A i, j \in DOMAIN pData : pData[i] = pData[j] => i = j
  /\ merge \in {"idle", "fill"} => pData = Order /\ out = <<>> /\ turn \in DOMAIN Order
  /\ merge = "idle" => turn = 1
  /\ merge \in {"idle", "fill"} => \A i \in DOMAIN Order : i >= turn => head[Order[i]] = NoRow
  /\ merge \in {"fill", "pick", "refill"} => pData # <<>>
  /\ merge = "done" => pData = <<>>
  /\ merge = "refill" => head[pData[turn]] # NoRow

\* A provider has no head only if it has nothing to give.
Headed ==
  \A i \in DOMAIN pData :
    /\ (merge = "fill" /\ i < turn) \/ merge \in {"pick", "refill"}
    /\ head[pData[i]] = NoRow
    => rows[pData[i]] = {}

\* What of a kind comes after a processed message: nothing older that is not
\* behind a message of that kind that is not older.
Bounded(k) ==
  \A i \in DOMAIN out : \E r \in rows[k] :
    /\ r.ts >= out[i].row.ts /\ r.id < from[k]
    /\ HasHead(k) => r.id <= head[k].id
    /\ HasOffer(k) => r.id <= offer[k].id
    /\ \A j \in DOMAIN buffer[k] : r.id <= buffer[k][j].id

IInv ==
  /\ Analysis /\ Stored /\ ReplayTypeOK
  /\ \A k \in Providers : Line(k) /\ Closed(k) /\ (k \in Merged => Bounded(k))
  /\ Merging /\ Headed
  /\ EachOnce /\ MergeOrdered /\ CrashOnlyIfEmpty
-----------------------------------------------------------------------------
(* Facts about sequences and pages.                                         *)

LEMMA TailFacts ==
  ASSUME NEW T, NEW s \in Seq(T), s # <<>>
  PROVE  /\ Head(s) = s[1] /\ 1 \in DOMAIN s /\ Tail(s) \in Seq(T) /\ DOMAIN s = 1 .. Len(s)
         /\ \A j \in DOMAIN Tail(s) : j + 1 \in DOMAIN s /\ Tail(s)[j] = s[j + 1] /\ j \in Nat
         /\ \A i \in DOMAIN s : i = 1 \/ (i - 1 \in DOMAIN Tail(s) /\ Tail(s)[i - 1] = s[i])
<1>1. Len(s) \in Nat /\ Len(s) > 0 /\ DOMAIN s = 1 .. Len(s)
  OBVIOUS
<1>2. /\ Tail(s) \in Seq(T) /\ Len(Tail(s)) = Len(s) - 1 /\ DOMAIN Tail(s) = 1 .. (Len(s) - 1)
      /\ \A j \in 1 .. (Len(s) - 1) : Tail(s)[j] = s[j + 1]
  BY <1>1, HeadTailProperties
<1>3. \A i \in DOMAIN s : i # 1 => i - 1 \in 1 .. (Len(s) - 1) /\ (i - 1) + 1 = i
  BY <1>1
<1> QED
  BY <1>1, <1>2, <1>3

LEMMA AppendFacts ==
  ASSUME NEW T, NEW s \in Seq(T), NEW e \in T
  PROVE  /\ Append(s, e) \in Seq(T) /\ Len(s) + 1 \in DOMAIN Append(s, e) /\ Append(s, e)[Len(s) + 1] = e
         /\ DOMAIN s = 1 .. Len(s) /\ Len(s) \in Nat
         /\ \A i \in DOMAIN s : i \in DOMAIN Append(s, e) /\ Append(s, e)[i] = s[i] /\ i < Len(s) + 1
         /\ \A i \in DOMAIN Append(s, e) : i \in DOMAIN s \/ i = Len(s) + 1
  OBVIOUS

LEMMA MessageFacts ==
  /\ NoRow \in Message
  /\ \A r \in Message : r.id \in Nat /\ r.ts \in Nat
  BY DEF NoRow, Message

\* What a page has, of the rows S.
LEMMA PagesFacts ==
  ASSUME NEW S \in SUBSET Message, IsFiniteSet(S), NEW f \in Nat, NEW n \in Nat, NEW p \in Pages(S, f, n)
  PROVE  /\ p \in Seq(Message) /\ Len(p) \in Nat /\ Len(p) <= n /\ DOMAIN p = 1 .. Len(p)
         /\ \A i \in DOMAIN p : p[i] \in S /\ p[i].id >= f
         /\ \A i, j \in DOMAIN p : i < j => p[i] # p[j] /\ p[i].id <= p[j].id
         /\ p = <<>> /\ n > 0 => \A r \in S : r.id < f
         /\ p # <<>> =>
              /\ Len(p) \in DOMAIN p
              /\ \A r \in S : r.id >= f /\ r.id <= p[Len(p)].id => \E i \in DOMAIN p : p[i].id = r.id
<1> DEFINE R == {r \in S : r.id >= f}
           m == Smaller(n, Cardinality(R))
<1>1. IsFiniteSet(R)
  BY FS_Subset
<1>2. Cardinality(R) \in Nat /\ (Cardinality(R) = 0 <=> R = {})
  BY <1>1, FS_CardinalityType, FS_EmptySet
<1>3. m \in Nat /\ m <= n /\ (m = 0 => n = 0 \/ R = {})
  BY <1>2 DEF Smaller
<1>4. /\ p \in [1 .. m -> R]
      /\ \A i, j \in DOMAIN p : i < j => p[i] # p[j] /\ p[i].id <= p[j].id
      /\ \A r \in R : (\A i \in DOMAIN p : p[i] # r) => \A i \in DOMAIN p : p[i].id <= r.id
  BY DEF Pages
<1>5. R \subseteq Message /\ \A r \in R : r \in S /\ r.id >= f
  OBVIOUS
<1>6. \A r \in S : r.id \in Nat
  BY DEF Message
<1> HIDE DEF m
<1>7. p \in Seq(Message) /\ Len(p) = m /\ DOMAIN p = 1 .. m
  BY <1>3, <1>4, <1>5
<1>8. ASSUME p = <<>>, n > 0 PROVE \A r \in S : r.id < f
  <2>1. m = 0
    BY <1>3, <1>7, <1>8
  <2>2. R = {}
    BY <1>3, <1>8, <2>1
  <2> QED
    BY <1>6, <2>2
<1>9. ASSUME p # <<>>
      PROVE  /\ m \in DOMAIN p
             /\ \A r \in S : r.id >= f /\ r.id <= p[m].id => \E i \in DOMAIN p : p[i].id = r.id
  <2>1. m # 0
    BY <1>7, <1>9
  <2>2. m \in DOMAIN p
    BY <1>3, <1>7, <2>1
  <2>3. ASSUME NEW r \in S, r.id >= f, r.id <= p[m].id, \A i \in DOMAIN p : p[i] # r
        PROVE  p[m].id = r.id
    <3>1. r \in R /\ p[m] \in S
      BY <1>4, <1>5, <1>7, <2>2, <2>3
    <3>2. p[m].id <= r.id
      BY <1>4, <2>2, <2>3, <3>1
    <3> QED
      BY <1>6, <2>3, <3>1, <3>2
  <2> QED
    BY <2>2, <2>3
<1> HIDE DEF R
<1>10. \A i \in DOMAIN p : p[i] \in R
  BY <1>4, <1>7
<1> QED
  BY <1>3, <1>4, <1>5, <1>7, <1>8, <1>9, <1>10

-----------------------------------------------------------------------------
(* The steps as the messages see them.                                      *)

Same(k) ==
  /\ head'[k] = head[k] /\ offer'[k] = offer[k] /\ buffer'[k] = buffer[k] /\ from'[k] = from[k]
  /\ HasHead(k)' = HasHead(k) /\ HasOffer(k)' = HasOffer(k)

\* Nothing moves.
Still == out' = out /\ \A k \in Providers : Same(k)

\* k offers the first of the messages in s and keeps the others.
Offers(k, s) ==
  /\ out' = out /\ \A l \in Providers \ {k} : Same(l)
  /\ head'[k] = head[k] /\ HasHead(k)' = HasHead(k)
  /\ ~HasOffer(k) /\ HasOffer(k)'
  /\ s \in Seq(Message) /\ s # <<>> /\ offer'[k] = Head(s) /\ buffer'[k] = Tail(s)

FromBuffer(k) == Offers(k, buffer[k]) /\ from'[k] = from[k]

FromPage(k, p) ==
  /\ Offers(k, p) /\ buffer[k] = <<>>
  /\ from'[k] \in Nat /\ from[k] <= from'[k]
  /\ \A i \in DOMAIN p : p[i] \in rows[k] /\ p[i].id >= from[k] /\ p[i].id < from'[k]
  /\ \A i, j \in DOMAIN p : i < j => Before(p[i], p[j])
  /\ \A r \in rows[k] : r.id >= from[k] /\ r.id < from'[k] => \E i \in DOMAIN p : p[i].id = r.id

\* The merge gets the message that k offers.
Receives(k) ==
  /\ out' = out /\ \A l \in Providers \ {k} : Same(l)
  /\ from'[k] = from[k] /\ buffer'[k] = buffer[k]
  /\ HasOffer(k) /\ ~HasOffer(k)'
  /\ ~HasHead(k) /\ HasHead(k)' /\ head'[k] = offer[k]

\* The merge gets nothing.
Dries(k) ==
  /\ out' = out /\ \A l \in Providers \ {k} : Same(l)
  /\ from'[k] = from[k] /\ buffer'[k] = buffer[k]
  /\ prov[k] = "closed" /\ ~HasOffer(k) /\ ~HasOffer(k)'
  /\ ~HasHead(k) /\ ~HasHead(k)' /\ head'[k] = NoRow

Processes(k) ==
  /\ k \in Merged /\ out' = Append(out, [kind |-> k, row |-> head[k]])
  /\ \A l \in Providers \ {k} : Same(l)
  /\ from'[k] = from[k] /\ buffer'[k] = buffer[k] /\ HasOffer(k)' = HasOffer(k) /\ offer'[k] = offer[k]
  /\ HasHead(k) /\ ~HasHead(k)' /\ head'[k] = head[k]
  /\ \A l \in Merged : HasHead(l) /\ head[k].ts <= head[l].ts

LEMMA BufferStep ==
  ASSUME IInv, NEW k \in Providers, NextBuffered(k)
  PROVE  FromBuffer(k) /\ UNCHANGED <<merge, pData, turn, crash>>
<1>0. ReplayTypeOK
  BY DEF IInv
<1>1. UNCHANGED <<from, merge, pData, turn, head, out, crash>> /\ buffer[k] # <<>> /\ prov[k] = "next"
  BY DEF NextBuffered
<1>2. /\ offer' = [offer EXCEPT ![k] = Head(buffer[k])] /\ buffer' = [buffer EXCEPT ![k] = Tail(buffer[k])]
      /\ prov' = [prov EXCEPT ![k] = "send"]
  BY DEF NextBuffered, Offer
<1> QED
  BY <1>0, <1>1, <1>2 DEF FromBuffer, Offers, Same, HasHead, HasOffer, ReplayTypeOK

LEMMA PageStep ==
  ASSUME IInv, NEW k \in Providers, NextPage(k)
  PROVE  /\ UNCHANGED <<merge, pData, turn, crash>>
         /\ \/ Still /\ prov'[k] = "closed" /\ buffer[k] = <<>> /\ \A r \in rows[k] : r.id < from[k]
            \/ \E p \in Seq(Message) : FromPage(k, p)
<1>0. ReplayTypeOK /\ Stored /\ Parameters /\ Advances
  BY DEF IInv, Analysis
<1>1. UNCHANGED <<merge, pData, turn, head, out, crash>> /\ buffer[k] = <<>> /\ prov[k] = "next"
  BY DEF NextPage
<1>2. rows[k] \in SUBSET Message /\ IsFiniteSet(rows[k]) /\ from[k] \in Nat /\ PageLimit[k] \in Nat /\ PageLimit[k] > 0
  BY <1>0 DEF ReplayTypeOK, Stored, Parameters
<1>3. PICK p \in Pages(rows[k], from[k], PageLimit[k]) :
        IF p = <<>>
        THEN prov' = [prov EXCEPT ![k] = "closed"] /\ UNCHANGED <<offer, buffer, from>>
        ELSE /\ Offer(k, Head(p), Tail(p))
             /\ from' = [from EXCEPT ![k] = NextId(k, p)]
  BY DEF NextPage
<1>4. /\ p \in Seq(Message) /\ Len(p) \in Nat /\ DOMAIN p = 1 .. Len(p)
      /\ \A i \in DOMAIN p : p[i] \in rows[k] /\ p[i].id >= from[k]
      /\ \A i, j \in DOMAIN p : i < j => p[i] # p[j] /\ p[i].id <= p[j].id
      /\ p = <<>> => \A r \in rows[k] : r.id < from[k]
      /\ p # <<>> =>
           /\ Len(p) \in DOMAIN p
           /\ \A r \in rows[k] : r.id >= from[k] /\ r.id <= p[Len(p)].id => \E i \in DOMAIN p : p[i].id = r.id
  BY <1>2, PagesFacts
<1>5. CASE p = <<>>
  BY <1>0, <1>1, <1>3, <1>4, <1>5 DEF Still, Same, HasHead, HasOffer, ReplayTypeOK
<1>6. CASE p # <<>>
  <2> DEFINE f == p[Len(p)].id + 1
  <2>1. \A i \in DOMAIN p : p[i].id \in Nat
    BY <1>2, <1>4, MessageFacts
  <2>2. f \in Nat /\ from[k] <= f
    BY <1>2, <1>4, <1>6, <2>1
  <2>3. \A i \in DOMAIN p : p[i].id < f
    <3>1. ASSUME NEW i \in DOMAIN p PROVE p[i].id <= p[Len(p)].id
      <4>1. i = Len(p) \/ i < Len(p)
        BY <1>4
      <4>2. Len(p) \in DOMAIN p /\ p[i].id \in Nat
        BY <1>4, <1>6, <2>1
      <4>3. CASE i = Len(p)
        BY <4>2, <4>3
      <4>4. CASE i < Len(p)
        BY <1>4, <4>2, <4>4
      <4> QED
        BY <4>1, <4>3, <4>4
    <3>2. p[Len(p)].id \in Nat
      BY <1>4, <1>6, <2>1
    <3> QED
      BY <2>1, <3>1, <3>2
  <2>4. \A r \in rows[k] : r.id >= from[k] /\ r.id < f => \E i \in DOMAIN p : p[i].id = r.id
    <3>1. p[Len(p)].id \in Nat /\ \A r \in rows[k] : r.id \in Nat
      BY <1>2, <1>4, <1>6, <2>1, MessageFacts
    <3>2. \A r \in rows[k] : r.id < f => r.id <= p[Len(p)].id
      BY <3>1
    <3> QED
      BY <1>4, <1>6, <3>2
  <2>5. /\ offer' = [offer EXCEPT ![k] = Head(p)] /\ buffer' = [buffer EXCEPT ![k] = Tail(p)]
        /\ prov' = [prov EXCEPT ![k] = "send"] /\ from' = [from EXCEPT ![k] = f]
    BY <1>0, <1>3, <1>6 DEF Offer, NextId
  <2> HIDE DEF f
  <2>6. Offers(k, p)
    BY <1>0, <1>1, <1>4, <1>6, <2>5 DEF Offers, Same, HasHead, HasOffer, ReplayTypeOK
  <2>7. from'[k] = f
    BY <1>0, <2>5 DEF ReplayTypeOK
  <2>8. FromPage(k, p)
    BY <1>1, <1>4, <2>2, <2>3, <2>4, <2>6, <2>7 DEF FromPage, Before
  <2> QED
    BY <1>1, <1>4, <2>8
<1> QED
  BY <1>5, <1>6

\* The channel that the merge reads.
LEMMA ReceiveFacts ==
  ASSUME IInv, NEW k \in Providers, Receive(k), ~HasHead(k), UNCHANGED <<from, buffer, offer, out>>,
         \A l \in Providers \ {k} : HasHead(l) = (head[l] # NoRow), merge' # "refill"
  PROVE  /\ prov[k] = "send" => Receives(k) /\ prov' = [prov EXCEPT ![k] = "next"]
         /\ prov[k] # "send" => Dries(k) /\ prov' = prov
<1>0. ReplayTypeOK
  BY DEF IInv
<1>1. \A l \in Providers : HasHead(l)' = (head'[l] # NoRow)
  BY DEF HasHead
<1>2. CASE prov[k] = "send"
  <2>1. head' = [head EXCEPT ![k] = offer[k]] /\ prov' = [prov EXCEPT ![k] = "next"] /\ offer[k] # NoRow
    BY <1>0, <1>2 DEF Receive, ReplayTypeOK
  <2> QED
    BY <1>0, <1>1, <1>2, <2>1 DEF Receives, Same, HasOffer, ReplayTypeOK
<1>3. CASE prov[k] # "send"
  <2>1. head' = [head EXCEPT ![k] = NoRow] /\ prov' = prov /\ prov[k] = "closed"
    BY <1>3 DEF Receive
  <2> QED
    BY <1>0, <1>1, <1>3, <2>1 DEF Dries, Same, HasOffer, ReplayTypeOK
<1> QED
  BY <1>2, <1>3

LEMMA FillStep ==
  ASSUME IInv, Fill
  PROVE  /\ turn \in DOMAIN pData
         /\ \E k \in Providers :
              /\ k = pData[turn] /\ (Receives(k) \/ Dries(k))
              /\ prov' = prov \/ prov' = [prov EXCEPT ![k] = "next"]
<1>0. ReplayTypeOK /\ Merging
  BY DEF IInv
<1>1. turn \in DOMAIN pData /\ pData[turn] \in Providers
  BY <1>0 DEF Fill, Merging, ReplayTypeOK
<1>2. PICK k \in Providers : k = pData[turn]
  BY <1>1
<1>3. /\ merge = "fill" /\ merge' # "refill"
      /\ head[k] = NoRow /\ Receive(k) /\ UNCHANGED <<from, buffer, offer, out>>
  <2>1. merge = "fill" /\ Receive(k) /\ UNCHANGED <<from, buffer, offer, out>>
    BY <1>2 DEF Fill
  <2>2. merge' # "refill"
    BY <2>1 DEF Fill
  <2>3. pData = Order /\ turn \in DOMAIN Order /\ turn \in Nat
    BY <1>0, <2>1 DEF Merging, ReplayTypeOK
  <2>4. head[k] = NoRow
    BY <1>0, <1>2, <2>1, <2>3 DEF Merging
  <2> QED
    BY <2>1, <2>2, <2>4
<1>4. \A l \in Providers : HasHead(l) = (head[l] # NoRow)
  BY <1>3 DEF HasHead
<1>5. ~HasHead(k)
  BY <1>3 DEF HasHead
<1> QED
  BY <1>1, <1>2, <1>3, <1>4, <1>5, ReceiveFacts

LEMMA RefillStep ==
  ASSUME IInv, Refill
  PROVE  /\ turn \in DOMAIN pData
         /\ \E k \in Providers :
              /\ k = pData[turn]
              /\ \/ /\ Receives(k) /\ prov' = [prov EXCEPT ![k] = "next"]
                    /\ pData' = pData /\ merge' = "pick"
                 \/ /\ Dries(k) /\ prov' = prov /\ pData' = Without(turn)
                    /\ merge' = IF Len(pData) = 1 THEN "done" ELSE "pick"
<1>0. ReplayTypeOK
  BY DEF IInv
<1>1. turn \in DOMAIN pData /\ pData[turn] \in Providers
  BY <1>0 DEF Refill, ReplayTypeOK
<1>2. PICK k \in Providers : k = pData[turn]
  BY <1>1
<1>3. merge = "refill" /\ merge' # "refill" /\ Receive(k) /\ UNCHANGED <<from, buffer, offer, out>>
  BY <1>1, <1>2 DEF Refill
<1>4. ~HasHead(k) /\ \A l \in Providers \ {k} : HasHead(l) = (head[l] # NoRow)
  BY <1>2, <1>3 DEF HasHead
<1>5. /\ prov[k] = "send" => Receives(k) /\ prov' = [prov EXCEPT ![k] = "next"]
      /\ prov[k] # "send" => Dries(k) /\ prov' = prov
  BY <1>3, <1>4, ReceiveFacts
<1> QED
  BY <1>1, <1>2, <1>5 DEF Refill

LEMMA PickStep ==
  ASSUME IInv, Pick
  PROVE  \E k \in Merged : k \in Providers /\ Processes(k)
<1>0. ReplayTypeOK /\ Merging
  BY DEF IInv
<1>1. /\ merge = "pick" /\ merge' = "refill"
      /\ UNCHANGED <<from, buffer, prov, offer, pData, head, crash>>
      /\ \A i \in DOMAIN pData : head[pData[i]] # NoRow
  BY DEF Pick, Dry
<1>2. PICK i \in DOMAIN pData :
        /\ IsNext(i) /\ turn' = i
        /\ out' = Append(out, [kind |-> pData[i], row |-> head[pData[i]]])
  BY DEF Pick
<1>3. \A j \in DOMAIN pData : pData[j] \in Providers
  BY <1>0 DEF ReplayTypeOK
<1>4. PICK k \in Merged : k = pData[i] /\ k \in Providers
  BY <1>3 DEF Merged
<1>5. \A l \in Providers : HasHead(l) = (head[l] # NoRow) /\ HasHead(l)' = (head[l] # NoRow /\ k # l)
  BY <1>1, <1>2, <1>4 DEF HasHead
<1>6. \A l \in Merged : HasHead(l) /\ head[k].ts <= head[l].ts
  BY <1>1, <1>2, <1>3, <1>4, <1>5 DEF Merged, IsNext
<1>7. Processes(k)
  BY <1>1, <1>2, <1>4, <1>5, <1>6 DEF Processes, Same, HasOffer
<1> QED
  BY <1>4, <1>7

\* The steps that move no message.
LEMMA StillStep ==
  ASSUME IInv,
         StartReplay \/ PickNil \/ (\E k \in Providers : LoadFails(k)) \/ UNCHANGED replayVars
  PROVE  Still /\ UNCHANGED <<prov, pData, turn, head>>
<1>0. Merging
  BY DEF IInv
<1>1. UNCHANGED <<from, buffer, prov, offer, pData, turn, head, out>>
  BY DEF StartReplay, PickNil, LoadFails, replayVars
<1>2. merge' = merge \/ (merge = "idle" /\ merge' = "fill")
  BY DEF StartReplay, PickNil, LoadFails, replayVars
<1> QED
  BY <1>1, <1>2 DEF Still, Same, HasHead, HasOffer

Moves ==
  \/ Still
  \/ \E k \in Providers :
       \/ FromBuffer(k) \/ (\E p \in Seq(Message) : FromPage(k, p))
       \/ Receives(k) \/ Dries(k) \/ Processes(k)

LEMMA StepMoves ==
  ASSUME IInv, [ReplayNext]_<<rows, replayVars>>
  PROVE  rows' = rows /\ Moves
<1>1. rows' = rows
  BY DEF ReplayNext
<1>2. \/ StartReplay \/ PickNil \/ (\E k \in Providers : LoadFails(k)) \/ UNCHANGED replayVars
      \/ (\E k \in Providers : NextBuffered(k) \/ NextPage(k)) \/ Fill \/ Pick \/ Refill
  BY DEF ReplayNext, ReplayStep
<1> QED
  BY <1>1, <1>2, StillStep, BufferStep, PageStep, FillStep, RefillStep, PickStep DEF Moves

-----------------------------------------------------------------------------
(* What a step does to the line of a kind.                                  *)

\* The types that the steps below need.
LEMMA TypeFacts ==
  ASSUME ReplayTypeOK, Stored, NEW k \in Providers
  PROVE  /\ buffer[k] \in Seq(Message) /\ from[k] \in Nat /\ offer[k] \in Message /\ head[k] \in Message
         /\ offer[k].id \in Nat /\ head[k].id \in Nat /\ head[k].ts \in Nat
         /\ \A i \in DOMAIN buffer[k] : buffer[k][i] \in Message /\ buffer[k][i].id \in Nat
         /\ \A r \in rows[k] : r.id \in Nat /\ r.ts \in Nat
         /\ out \in Seq([kind : Providers, row : Message])
         /\ \A i \in DOMAIN out : out[i].kind \in Providers /\ out[i].row.id \in Nat /\ out[i].row.ts \in Nat
<1>1. /\ buffer[k] \in Seq(Message) /\ from[k] \in Nat /\ offer[k] \in Message /\ head[k] \in Message
      /\ out \in Seq([kind : Providers, row : Message])
  BY DEF ReplayTypeOK
<1>2. rows[k] \subseteq Message
  BY DEF Stored
<1>3. DOMAIN out = 1 .. Len(out) /\ \A i \in DOMAIN out : out[i] \in [kind : Providers, row : Message]
  <2> DEFINE T == [kind : Providers, row : Message]
  <2>1. out \in Seq(T)
    BY <1>1
  <2> HIDE DEF T
  <2>2. \A i \in DOMAIN out : out[i] \in T
    BY <2>1
  <2> QED
    BY <2>1, <2>2 DEF T
<1>4. \A i \in DOMAIN out : out[i].kind \in Providers /\ out[i].row \in Message
  BY <1>3
<1>5. \A i \in DOMAIN buffer[k] : buffer[k][i] \in Message
  BY <1>1
<1> QED
  BY <1>1, <1>2, <1>4, <1>5, MessageFacts

\* The messages s, from the buffer or a page, continue the line.
GoesOn(k, s) ==
  /\ from'[k] \in Nat /\ from[k] <= from'[k]
  /\ \A j \in DOMAIN s : s[j] \in rows[k] /\ s[j].id < from'[k]
  /\ \A i, j \in DOMAIN s : i < j => Before(s[i], s[j])
  /\ \A j \in DOMAIN s :
       /\ HasHead(k) => Before(head[k], s[j])
       /\ \A i \in DOMAIN out : out[i].kind = k => Before(out[i].row, s[j])
       /\ \A r \in rows[k] :
            r.id < from[k] /\ (\A i \in DOMAIN buffer[k] : r.id <= buffer[k][i].id) => r.id <= s[j].id
  /\ \A r \in rows[k] : r.id < from'[k] =>
       \/ \E i \in DOMAIN out : out[i].kind = k /\ out[i].row.id = r.id
       \/ HasHead(k) /\ head[k].id = r.id
       \/ \E j \in DOMAIN s : s[j].id = r.id

Supplies(k) == \E s \in Seq(Message) : Offers(k, s) /\ GoesOn(k, s)

LEMMA FromBufferSupplies ==
  ASSUME IInv, NEW k \in Providers, FromBuffer(k)
  PROVE  Supplies(k)
<1>1. /\ Placed(k) /\ Read(k) /\ Queued(k) /\ Done(k) /\ Complete(k)
  BY DEF IInv, Line
<1>2. buffer[k] \in Seq(Message) /\ from[k] \in Nat
  BY TypeFacts DEF IInv
<1>3. Offers(k, buffer[k]) /\ from'[k] = from[k] /\ ~HasOffer(k)
  BY DEF FromBuffer, Offers
<1>4. GoesOn(k, buffer[k])
  <2>1. \A r \in rows[k] : r.id < from'[k] =>
           \/ \E i \in DOMAIN out : out[i].kind = k /\ out[i].row.id = r.id
           \/ HasHead(k) /\ head[k].id = r.id
           \/ \E j \in DOMAIN buffer[k] : buffer[k][j].id = r.id
    BY <1>1, <1>3 DEF Complete, There
  <2> QED
    BY <1>1, <1>2, <1>3, <2>1 DEF GoesOn, Placed, Read, Queued, Done
<1> QED
  BY <1>2, <1>3, <1>4 DEF Supplies

LEMMA FromPageSupplies ==
  ASSUME IInv, NEW k \in Providers, NEW p \in Seq(Message), FromPage(k, p)
  PROVE  Supplies(k)
<1>1. /\ Placed(k) /\ Read(k) /\ Complete(k)
  BY DEF IInv, Line
<1>2. /\ from[k] \in Nat /\ head[k].id \in Nat /\ \A r \in rows[k] : r.id \in Nat
      /\ \A i \in DOMAIN out : out[i].row.id \in Nat
  BY TypeFacts DEF IInv
<1>3. /\ Offers(k, p) /\ ~HasOffer(k) /\ buffer[k] = <<>> /\ from'[k] \in Nat /\ from[k] <= from'[k]
      /\ \A i \in DOMAIN p : p[i] \in rows[k] /\ p[i].id >= from[k] /\ p[i].id < from'[k]
      /\ \A i, j \in DOMAIN p : i < j => Before(p[i], p[j])
      /\ \A r \in rows[k] : r.id >= from[k] /\ r.id < from'[k] => \E i \in DOMAIN p : p[i].id = r.id
  BY DEF FromPage, Offers
<1>4. \A j \in DOMAIN p : p[j].id \in Nat
  BY <1>2, <1>3
<1>5. \A j \in DOMAIN p :
        /\ HasHead(k) => Before(head[k], p[j])
        /\ \A i \in DOMAIN out : out[i].kind = k => Before(out[i].row, p[j])
        /\ \A r \in rows[k] : r.id < from[k] => r.id <= p[j].id
  <2> SUFFICES ASSUME NEW j \in DOMAIN p
               PROVE  /\ HasHead(k) => Before(head[k], p[j])
                      /\ \A i \in DOMAIN out : out[i].kind = k => Before(out[i].row, p[j])
                      /\ \A r \in rows[k] : r.id < from[k] => r.id <= p[j].id
    OBVIOUS
  <2>1. p[j].id \in Nat /\ from[k] <= p[j].id
    BY <1>2, <1>3, <1>4
  <2>2. HasHead(k) => Before(head[k], p[j])
    BY <1>1, <1>2, <2>1 DEF Read, Before
  <2>3. \A i \in DOMAIN out : out[i].kind = k => Before(out[i].row, p[j])
    BY <1>1, <1>2, <2>1 DEF Read, Before
  <2>4. \A r \in rows[k] : r.id < from[k] => r.id <= p[j].id
    BY <1>2, <2>1
  <2> QED
    BY <2>2, <2>3, <2>4
<1>6. ASSUME NEW r \in rows[k], r.id < from'[k]
      PROVE  \/ \E i \in DOMAIN out : out[i].kind = k /\ out[i].row.id = r.id
             \/ HasHead(k) /\ head[k].id = r.id
             \/ \E j \in DOMAIN p : p[j].id = r.id
  <2>1. CASE r.id < from[k]
    <3>1. There(k, r.id)
      BY <1>1, <2>1 DEF Complete
    <3> QED
      BY <1>3, <3>1 DEF There
  <2>2. CASE ~(r.id < from[k])
    <3>1. r.id >= from[k]
      BY <1>2, <2>2
    <3> QED
      BY <1>3, <1>6, <3>1
  <2> QED
    BY <2>1, <2>2
<1>7. GoesOn(k, p)
  BY <1>3, <1>5, <1>6 DEF GoesOn
<1> QED
  BY <1>3, <1>7 DEF Supplies

\* A kind whose messages stay where they are.
LEMMA SameLine ==
  ASSUME NEW k \in Providers, Same(k), out' = out, rows' = rows
  PROVE  /\ Line(k) => Line(k)'
         /\ Bounded(k) => Bounded(k)'
<1>1. \A id : There(k, id) => There(k, id)'
  BY DEF Same, There
<1>2. Complete(k) => Complete(k)'
  BY <1>1 DEF Same, Complete
<1>3. Placed(k) => Placed(k)'
  BY DEF Same, Placed
<1>4. Read(k) => Read(k)'
  BY DEF Same, Read
<1>5. Queued(k) => Queued(k)'
  BY DEF Same, Queued
<1>6. Done(k) => Done(k)'
  BY DEF Same, Done
<1>7. Bounded(k) => Bounded(k)'
  BY DEF Same, Bounded
<1> QED
  BY <1>2, <1>3, <1>4, <1>5, <1>6, <1>7 DEF Line

LEMMA SuppliesLine ==
  ASSUME IInv, rows' = rows, NEW k \in Providers, Supplies(k)
  PROVE  Line(k)' /\ (Bounded(k) => Bounded(k)')
<1>1. /\ Placed(k) /\ Read(k) /\ Queued(k) /\ Done(k) /\ Complete(k)
  BY DEF IInv, Line
<1>2. /\ from[k] \in Nat /\ head[k].id \in Nat /\ \A r \in rows[k] : r.id \in Nat
      /\ \A i \in DOMAIN out : out[i].row.id \in Nat
  BY TypeFacts DEF IInv
<1>3. PICK s \in Seq(Message) : Offers(k, s) /\ GoesOn(k, s)
  BY DEF Supplies
<1>4. /\ out' = out /\ head'[k] = head[k] /\ HasHead(k)' = HasHead(k) /\ HasOffer(k)'
      /\ s # <<>> /\ offer'[k] = Head(s) /\ buffer'[k] = Tail(s)
  BY <1>3 DEF Offers
<1>5. /\ offer'[k] = s[1] /\ 1 \in DOMAIN s
      /\ \A j \in DOMAIN buffer'[k] :
           j + 1 \in DOMAIN s /\ buffer'[k][j] = s[j + 1] /\ j \in Nat /\ 1 < j + 1
      /\ \A i \in DOMAIN s : i = 1 \/ (i - 1 \in DOMAIN buffer'[k] /\ buffer'[k][i - 1] = s[i])
  <2>1. /\ Head(s) = s[1] /\ 1 \in DOMAIN s
        /\ \A j \in DOMAIN Tail(s) : j + 1 \in DOMAIN s /\ Tail(s)[j] = s[j + 1] /\ j \in 1 .. Len(Tail(s))
        /\ \A i \in DOMAIN s : i = 1 \/ (i - 1 \in DOMAIN Tail(s) /\ Tail(s)[i - 1] = s[i])
    BY <1>4, TailFacts
  <2> QED
    BY <1>4, <2>1
<1>6. /\ from'[k] \in Nat /\ from[k] <= from'[k]
      /\ \A j \in DOMAIN s : s[j] \in rows[k] /\ s[j].id < from'[k]
      /\ \A i, j \in DOMAIN s : i < j => Before(s[i], s[j])
  BY <1>3 DEF GoesOn
<1>7. Placed(k)'
  BY <1>1, <1>4, <1>5, <1>6 DEF Placed
<1>8. Read(k)'
  BY <1>1, <1>2, <1>4, <1>5, <1>6 DEF Read
<1>9. Queued(k)'
  <2>1. HasHead(k) => \A j \in DOMAIN s : Before(head[k], s[j])
    BY <1>3 DEF GoesOn
  <2>2. \A i, j \in DOMAIN buffer'[k] : i < j => Before(buffer'[k][i], buffer'[k][j])
    BY <1>5, <1>6
  <2> QED
    BY <1>4, <1>5, <1>6, <2>1, <2>2 DEF Queued, Before
<1>10. Done(k)'
  <2>1. /\ HasHead(k) => \A i \in DOMAIN out : out[i].kind = k => Before(out[i].row, head[k])
        /\ \A j \in DOMAIN s : \A i \in DOMAIN out : out[i].kind = k => Before(out[i].row, s[j])
    BY <1>1, <1>3 DEF GoesOn, Done
  <2> QED
    BY <1>4, <1>5, <2>1 DEF Done, Before
<1>11. Complete(k)'
  <2> SUFFICES ASSUME NEW r \in rows[k], r.id < from'[k] PROVE There(k, r.id)'
    BY DEF Complete
  <2>1. \/ \E i \in DOMAIN out : out[i].kind = k /\ out[i].row.id = r.id
        \/ HasHead(k) /\ head[k].id = r.id
        \/ \E j \in DOMAIN s : s[j].id = r.id
    BY <1>3 DEF GoesOn
  <2> QED
    BY <1>4, <1>5, <2>1 DEF There
<1>12. ASSUME Bounded(k) PROVE Bounded(k)'
  <2> SUFFICES ASSUME NEW i \in DOMAIN out
               PROVE  \E r \in rows[k] :
                        /\ r.ts >= out[i].row.ts /\ r.id < from'[k]
                        /\ HasHead(k) => r.id <= head[k].id
                        /\ r.id <= offer'[k].id
                        /\ \A j \in DOMAIN buffer'[k] : r.id <= buffer'[k][j].id
    BY <1>4 DEF Bounded
  <2>1. PICK r \in rows[k] :
          /\ r.ts >= out[i].row.ts /\ r.id < from[k]
          /\ HasHead(k) => r.id <= head[k].id
          /\ \A j \in DOMAIN buffer[k] : r.id <= buffer[k][j].id
    BY <1>12 DEF Bounded
  <2>2. \A j \in DOMAIN s : r.id <= s[j].id
    BY <1>3, <2>1 DEF GoesOn
  <2>3. r.id < from'[k]
    BY <1>2, <1>6, <2>1
  <2> QED
    BY <1>5, <2>1, <2>2, <2>3
<1> QED
  BY <1>7, <1>8, <1>9, <1>10, <1>11, <1>12 DEF Line

LEMMA ReceivesLine ==
  ASSUME IInv, rows' = rows, NEW k \in Providers, Receives(k) \/ Dries(k)
  PROVE  Line(k)' /\ (Bounded(k) => Bounded(k)')
<1>1. /\ Placed(k) /\ Read(k) /\ Queued(k) /\ Done(k) /\ Complete(k)
  BY DEF IInv, Line
<1>2. /\ out' = out /\ from'[k] = from[k] /\ buffer'[k] = buffer[k] /\ ~HasOffer(k)' /\ ~HasHead(k)
      /\ \/ HasOffer(k) /\ HasHead(k)' /\ head'[k] = offer[k]
         \/ ~HasOffer(k) /\ ~HasHead(k)' /\ head'[k] = NoRow
  BY DEF Receives, Dries
<1>3. Placed(k)'
  BY <1>1, <1>2 DEF Placed
<1>4. Read(k)'
  BY <1>1, <1>2 DEF Read
<1>5. Queued(k)'
  BY <1>1, <1>2 DEF Queued, Before
<1>6. Done(k)'
  BY <1>1, <1>2 DEF Done, Before
<1>7. Complete(k)'
  <2>1. \A id : There(k, id) => There(k, id)'
    BY <1>2 DEF There
  <2> QED
    BY <1>1, <1>2, <2>1 DEF Complete
<1>8. Bounded(k) => Bounded(k)'
  BY <1>2 DEF Bounded
<1> QED
  BY <1>3, <1>4, <1>5, <1>6, <1>7, <1>8 DEF Line

\* The head of k is appended to what was processed.
LEMMA OutFacts ==
  ASSUME IInv, NEW k \in Providers, Processes(k)
  PROVE  \E n \in Nat \ {0} :
           /\ n \in DOMAIN out' /\ out'[n].kind = k /\ out'[n].row = head[k]
           /\ \A i \in DOMAIN out : i \in DOMAIN out' /\ out'[i] = out[i] /\ i \in Nat /\ i < n
           /\ \A i \in DOMAIN out' : i \in DOMAIN out \/ i = n
<1> DEFINE T == [kind : Providers, row : Message]
           e == [kind |-> k, row |-> head[k]]
<1>1. out \in Seq(T) /\ head[k] \in Message
  BY TypeFacts DEF IInv
<1>2. e \in T /\ e.kind = k /\ e.row = head[k] /\ out' = Append(out, e)
  BY <1>1 DEF Processes
<1> HIDE DEF T, e
<1> DEFINE n == Len(out) + 1
<1>3. /\ n \in DOMAIN out' /\ out'[n] = e /\ DOMAIN out = 1 .. Len(out) /\ Len(out) \in Nat
      /\ \A i \in DOMAIN out : i \in DOMAIN out' /\ out'[i] = out[i] /\ i < n
      /\ \A i \in DOMAIN out' : i \in DOMAIN out \/ i = n
  BY <1>1, <1>2, AppendFacts
<1>4. n \in Nat \ {0} /\ \A i \in DOMAIN out : i \in Nat
  BY <1>3
<1> HIDE DEF n
<1> QED
  BY <1>2, <1>3, <1>4

LEMMA ProcessesLine ==
  ASSUME IInv, rows' = rows, NEW k \in Providers, Processes(k), NEW l \in Providers
  PROVE  Line(l)' /\ (l \in Merged => Bounded(l)')
<1>1. /\ Placed(l) /\ Read(l) /\ Queued(l) /\ Done(l) /\ Complete(l)
      /\ l \in Merged => Bounded(l)
  BY DEF IInv, Line
<1>2. PICK n \in Nat \ {0} :
        /\ n \in DOMAIN out' /\ out'[n].kind = k /\ out'[n].row = head[k]
        /\ \A i \in DOMAIN out : i \in DOMAIN out' /\ out'[i] = out[i] /\ i \in Nat /\ i < n
        /\ \A i \in DOMAIN out' : i \in DOMAIN out \/ i = n
  BY OutFacts
<1>3. /\ HasHead(k) /\ ~HasHead(k)'
      /\ from'[l] = from[l] /\ buffer'[l] = buffer[l] /\ offer'[l] = offer[l] /\ head'[l] = head[l]
      /\ HasOffer(l)' = HasOffer(l) /\ (l # k => HasHead(l)' = HasHead(l))
  BY DEF Processes, Same
<1>4. HasHead(k) => head[k] # NoRow
  BY DEF HasHead
<1>5. Placed(l)'
  <2>1. ASSUME NEW i \in DOMAIN out', out'[i].kind = l PROVE out'[i].row \in rows[l]
    <3>1. CASE i \in DOMAIN out
      BY <1>1, <1>2, <2>1, <3>1 DEF Placed
    <3>2. CASE i = n
      BY <1>1, <1>2, <1>3, <1>4, <2>1, <3>2 DEF Placed
    <3> QED
      BY <1>2, <3>1, <3>2
  <2> QED
    BY <1>1, <1>3, <2>1 DEF Placed
<1>6. Read(l)'
  <2>1. ASSUME NEW i \in DOMAIN out', out'[i].kind = l PROVE out'[i].row.id < from[l]
    <3>1. CASE i \in DOMAIN out
      BY <1>1, <1>2, <2>1, <3>1 DEF Read
    <3>2. CASE i = n
      BY <1>1, <1>2, <1>3, <2>1, <3>2 DEF Read
    <3> QED
      BY <1>2, <3>1, <3>2
  <2> QED
    BY <1>1, <1>3, <2>1 DEF Read
<1>7. Queued(l)'
  BY <1>1, <1>3 DEF Queued
<1>8. Done(l)'
  <2> SUFFICES ASSUME NEW i \in DOMAIN out', out'[i].kind = l
               PROVE  /\ HasHead(l)' => Before(out'[i].row, head[l])
                      /\ HasOffer(l) => Before(out'[i].row, offer[l])
                      /\ \A j \in DOMAIN buffer[l] : Before(out'[i].row, buffer[l][j])
    BY <1>3 DEF Done, Before
  <2>1. CASE i \in DOMAIN out
    BY <1>1, <1>2, <1>3, <2>1 DEF Done
  <2>2. CASE i = n
    BY <1>1, <1>2, <1>3, <2>2 DEF Queued
  <2> QED
    BY <1>2, <2>1, <2>2
<1>9. Complete(l)'
  <2>1. \A id : There(l, id) => There(l, id)'
    BY <1>2, <1>3 DEF There
  <2> QED
    BY <1>1, <1>3, <2>1 DEF Complete
<1>10. ASSUME l \in Merged PROVE Bounded(l)'
  <2> SUFFICES ASSUME NEW i \in DOMAIN out'
               PROVE  \E r \in rows[l] :
                        /\ r.ts >= out'[i].row.ts /\ r.id < from[l]
                        /\ HasHead(l)' => r.id <= head[l].id
                        /\ HasOffer(l) => r.id <= offer[l].id
                        /\ \A j \in DOMAIN buffer[l] : r.id <= buffer[l][j].id
    BY <1>3 DEF Bounded
  <2>1. CASE i \in DOMAIN out
    BY <1>1, <1>2, <1>3, <1>10, <2>1 DEF Bounded
  <2>2. CASE i = n
    <3>1. HasHead(l) /\ head[k].ts <= head[l].ts
      BY <1>10 DEF Processes
    <3>2. head[l].id \in Nat /\ head[l].ts \in Nat /\ head[k].ts \in Nat
      BY TypeFacts DEF IInv
    <3>3. head[l] \in rows[l] /\ head[l].id < from[l]
      BY <1>1, <3>1 DEF Placed, Read, HasHead
    <3>4. /\ HasOffer(l) => head[l].id <= offer[l].id
          /\ \A j \in DOMAIN buffer[l] : head[l].id <= buffer[l][j].id
      BY <1>1, <3>1 DEF Queued, Before
    <3>5. head[l].ts >= out'[i].row.ts /\ head[l].id <= head[l].id
      BY <1>2, <2>2, <3>1, <3>2
    <3> QED
      BY <3>3, <3>4, <3>5
  <2> QED
    BY <1>2, <2>1, <2>2
<1> QED
  BY <1>5, <1>6, <1>7, <1>8, <1>9, <1>10 DEF Line

-----------------------------------------------------------------------------
(* The providers that are merged.                                           *)

LEMMA WithoutFacts ==
  ASSUME pData \in Seq(Providers), NEW i \in DOMAIN pData
  PROVE  /\ Without(i) \in Seq(Providers)
         /\ \A j \in DOMAIN Without(i) : \E m \in DOMAIN pData : m # i /\ Without(i)[j] = pData[m]
         /\ \A m \in DOMAIN pData : m = i \/ \E j \in DOMAIN Without(i) : Without(i)[j] = pData[m]
         /\ (\A m, l \in DOMAIN pData : pData[m] = pData[l] => m = l) =>
              \A m, l \in DOMAIN Without(i) : Without(i)[m] = Without(i)[l] => m = l
         /\ Len(pData) = 1 <=> Without(i) = <<>>
         /\ Len(Without(i)) = Len(pData) - 1
<1> DEFINE n == Len(pData) - 1
           w == Without(i)
<1>1. /\ Len(pData) \in Nat /\ DOMAIN pData = 1 .. Len(pData) /\ i \in 1 .. Len(pData) /\ n \in Nat
      /\ \A m \in DOMAIN pData : pData[m] \in Providers
  OBVIOUS
<1>2. w = [j \in 1 .. n |-> IF j < i THEN pData[j] ELSE pData[j + 1]]
  BY DEF Without
<1> HIDE DEF w
<1>3. \A j \in 1 .. n : /\ j < i => w[j] = pData[j] /\ j \in DOMAIN pData /\ j # i
                        /\ ~(j < i) => w[j] = pData[j + 1] /\ j + 1 \in DOMAIN pData /\ j + 1 # i
                        /\ j \in Nat
  BY <1>1, <1>2
<1>4. w \in [1 .. n -> Providers]
  BY <1>1, <1>2, <1>3
<1>5. w \in Seq(Providers) /\ Len(w) = n /\ DOMAIN w = 1 .. n
  <2>1. n \in Nat
    BY <1>1
  <2> HIDE DEF n
  <2> QED
    BY <1>4, <2>1
<1>6. \A m \in DOMAIN pData :
        m = i \/ (m < i /\ m \in 1 .. n) \/ (~(m - 1 < i) /\ m - 1 \in 1 .. n /\ (m - 1) + 1 = m)
  BY <1>1
<1>7. \A m \in DOMAIN pData : m = i \/ \E j \in 1 .. n : w[j] = pData[m]
  BY <1>3, <1>6
<1>8. ASSUME \A m, l \in DOMAIN pData : pData[m] = pData[l] => m = l,
             NEW m \in 1 .. n, NEW l \in 1 .. n, w[m] = w[l]
      PROVE  m = l
  <2>1. CASE m < i /\ l < i
    BY <1>3, <1>8, <2>1
  <2>2. CASE m < i /\ ~(l < i)
    <3>1. m = l + 1
      BY <1>3, <1>8, <2>2
    <3> QED
      BY <1>1, <2>2, <3>1
  <2>3. CASE ~(m < i) /\ l < i
    <3>1. m + 1 = l
      BY <1>3, <1>8, <2>3
    <3> QED
      BY <1>1, <2>3, <3>1
  <2>4. CASE ~(m < i) /\ ~(l < i)
    <3>1. m + 1 = l + 1
      BY <1>3, <1>8, <2>4
    <3> QED
      BY <3>1
  <2> QED
    BY <2>1, <2>2, <2>3, <2>4
<1>9. Len(pData) = 1 <=> w = <<>>
  BY <1>1, <1>5
<1>10. \A j \in 1 .. n : \E m \in DOMAIN pData : m # i /\ w[j] = pData[m]
  BY <1>3
<1>11. Len(w) = Len(pData) - 1
  BY <1>5
<1> HIDE DEF n
<1> QED
  BY <1>5, <1>7, <1>8, <1>9, <1>10, <1>11 DEF w

LEMMA LinesStep ==
  ASSUME IInv, [ReplayNext]_<<rows, replayVars>>, NEW l \in Providers
  PROVE  Line(l)' /\ (l \in Merged' => Bounded(l)')
<1>1. rows' = rows /\ Moves
  BY StepMoves
<1>2. pData' = pData \/ (turn \in DOMAIN pData /\ pData' = Without(turn))
  <2>1. CASE Refill
    BY <2>1, RefillStep
  <2>2. CASE ~Refill
    BY <2>2 DEF ReplayNext, ReplayStep, StartReplay, NextBuffered, NextPage, LoadFails, Fill, Pick,
                PickNil, replayVars
  <2> QED
    BY <2>1, <2>2
<1>3. l \in Merged' => l \in Merged
  <2>1. CASE pData' = pData
    BY <2>1 DEF Merged
  <2>2. CASE turn \in DOMAIN pData /\ pData' = Without(turn)
    <3>1. pData \in Seq(Providers)
      BY DEF IInv, ReplayTypeOK
    <3> QED
      BY <2>2, <3>1, WithoutFacts DEF Merged
  <2> QED
    BY <1>2, <2>1, <2>2
<1>4. Line(l) /\ (l \in Merged => Bounded(l))
  BY DEF IInv
<1>5. CASE Still
  BY <1>1, <1>3, <1>4, <1>5, SameLine DEF Still
<1>6. ASSUME NEW k \in Providers, FromBuffer(k) \/ \E p \in Seq(Message) : FromPage(k, p)
      PROVE  Line(l)' /\ (l \in Merged' => Bounded(l)')
  <2>1. Supplies(k) /\ out' = out /\ \A m \in Providers \ {k} : Same(m)
    BY <1>6, FromBufferSupplies, FromPageSupplies DEF FromBuffer, FromPage, Offers
  <2> QED
    BY <1>1, <1>3, <1>4, <2>1, SuppliesLine, SameLine
<1>7. ASSUME NEW k \in Providers, Receives(k) \/ Dries(k)
      PROVE  Line(l)' /\ (l \in Merged' => Bounded(l)')
  <2>1. out' = out /\ \A m \in Providers \ {k} : Same(m)
    BY <1>7 DEF Receives, Dries
  <2> QED
    BY <1>1, <1>3, <1>4, <1>7, <2>1, ReceivesLine, SameLine
<1>8. ASSUME NEW k \in Providers, Processes(k)
      PROVE  Line(l)' /\ (l \in Merged' => Bounded(l)')
  BY <1>1, <1>3, <1>8, ProcessesLine
<1> QED
  BY <1>1, <1>5, <1>6, <1>7, <1>8 DEF Moves

\* The types.
LEMMA TypeStep ==
  ASSUME IInv, [ReplayNext]_<<rows, replayVars>>
  PROVE  ReplayTypeOK'
<1>0. ReplayTypeOK /\ Stored /\ Analysis /\ Merging
  BY DEF IInv
<1>1. CASE StartReplay \/ PickNil \/ (\E k \in Providers : LoadFails(k)) \/ UNCHANGED replayVars
  <2>1. UNCHANGED <<from, buffer, prov, offer, pData, turn, head, out>>
    BY <1>1 DEF StartReplay, PickNil, LoadFails, replayVars
  <2>2. /\ crash' \in {"no", "load", "nil"} /\ errors' \in Nat
        /\ merge' = merge \/ (merge = "idle" /\ merge' = "fill" /\ turn \in DOMAIN pData)
    BY <1>0, <1>1 DEF StartReplay, PickNil, LoadFails, replayVars, ReplayTypeOK, Merging
  <2> QED
    BY <1>0, <2>1, <2>2 DEF ReplayTypeOK
<1>2. ASSUME NEW k \in Providers, NEW r, NEW s \in Seq(Message), r \in rows[k], Offer(k, r, s),
             from' \in [Providers -> Nat], UNCHANGED <<merge, pData, turn, head, out, crash, errors>>
      PROVE  ReplayTypeOK'
  <2>1. r \in Message /\ r # NoRow
    BY <1>0, <1>2, MessageFacts DEF Stored, NoRow
  <2>2. /\ offer' = [offer EXCEPT ![k] = r] /\ buffer' = [buffer EXCEPT ![k] = s]
        /\ prov' = [prov EXCEPT ![k] = "send"]
    BY <1>2 DEF Offer
  <2>3. /\ offer' \in [Providers -> Message] /\ buffer' \in [Providers -> Seq(Message)]
        /\ prov' \in [Providers -> {"next", "send", "closed"}]
    BY <1>0, <2>1, <2>2 DEF ReplayTypeOK
  <2>4. \A l \in Providers : prov'[l] = "send" => offer'[l] # NoRow
    BY <1>0, <2>1, <2>2 DEF ReplayTypeOK
  <2> QED
    BY <1>0, <1>2, <2>3, <2>4 DEF ReplayTypeOK
<1>3. ASSUME NEW k \in Providers, NextBuffered(k) PROVE ReplayTypeOK'
  <2>1. buffer[k] \in Seq(Message) /\ buffer[k] # <<>>
    BY <1>0, <1>3 DEF NextBuffered, ReplayTypeOK
  <2>2. Head(buffer[k]) = buffer[k][1] /\ 1 \in DOMAIN buffer[k] /\ Tail(buffer[k]) \in Seq(Message)
    BY <2>1, TailFacts
  <2>3. buffer[k][1] \in rows[k]
    BY <2>2 DEF IInv, Line, Placed
  <2> QED
    BY <1>0, <1>2, <1>3, <2>2, <2>3 DEF NextBuffered, ReplayTypeOK
<1>4. ASSUME NEW k \in Providers, NextPage(k) PROVE ReplayTypeOK'
  <2>1. rows[k] \in SUBSET Message /\ IsFiniteSet(rows[k]) /\ from[k] \in Nat /\ PageLimit[k] \in Nat
    BY <1>0 DEF ReplayTypeOK, Stored, Analysis, Parameters
  <2>2. PICK p \in Pages(rows[k], from[k], PageLimit[k]) :
          IF p = <<>>
          THEN prov' = [prov EXCEPT ![k] = "closed"] /\ UNCHANGED <<offer, buffer, from>>
          ELSE /\ Offer(k, Head(p), Tail(p))
               /\ from' = [from EXCEPT ![k] = p[Len(p)].id + 1]
    BY <1>0, <1>4 DEF NextPage, NextId, Analysis
  <2>3. UNCHANGED <<merge, pData, turn, head, out, crash, errors>>
    BY <1>4 DEF NextPage
  <2>4. /\ p \in Seq(Message) /\ DOMAIN p = 1 .. Len(p) /\ Len(p) \in Nat
        /\ \A i \in DOMAIN p : p[i] \in rows[k]
        /\ p # <<>> => Len(p) \in DOMAIN p
    BY <2>1, PagesFacts
  <2>5. CASE p = <<>>
    BY <1>0, <2>2, <2>3, <2>5 DEF ReplayTypeOK
  <2>6. CASE p # <<>>
    <3>1. Head(p) = p[1] /\ 1 \in DOMAIN p /\ Tail(p) \in Seq(Message)
      BY <2>4, <2>6, TailFacts
    <3>2. p[1] \in rows[k] /\ p[Len(p)].id \in Nat
      BY <2>1, <2>4, <2>6, <3>1, MessageFacts
    <3>3. from' \in [Providers -> Nat]
      <4> DEFINE f == p[Len(p)].id + 1
      <4>1. from' = [from EXCEPT ![k] = f] /\ f \in Nat
        BY <2>2, <2>6, <3>2
      <4> HIDE DEF f
      <4> QED
        BY <1>0, <4>1 DEF ReplayTypeOK
    <3>4. Offer(k, p[1], Tail(p))
      BY <2>2, <2>6, <3>1
    <3> QED
      BY <1>2, <2>3, <3>1, <3>2, <3>3, <3>4
  <2> QED
    BY <2>5, <2>6
<1>5. ASSUME NEW k \in Providers, Receive(k)
      PROVE  /\ head' \in [Providers -> Message] /\ prov' \in [Providers -> {"next", "send", "closed"}]
             /\ \A l \in Providers : prov'[l] = "send" => prov[l] = "send"
  BY <1>0, <1>5, MessageFacts DEF Receive, ReplayTypeOK
<1>6. CASE Fill
  <2>1. /\ turn \in DOMAIN pData /\ pData[turn] \in Providers /\ Receive(pData[turn])
        /\ UNCHANGED <<from, buffer, offer, pData, out, crash, errors>> /\ merge = "fill"
        /\ IF turn = Len(pData) THEN merge' = "pick" /\ turn' = 1 ELSE turn' = turn + 1 /\ merge' = merge
    BY <1>0, <1>6 DEF Fill, ReplayTypeOK
  <2>2. turn' \in Nat /\ (merge' = "fill" => turn' \in DOMAIN pData)
    <3>1. DOMAIN pData = 1 .. Len(pData) /\ Len(pData) \in Nat
      BY <1>0 DEF ReplayTypeOK
    <3> QED
      BY <2>1, <3>1
  <2> QED
    BY <1>0, <1>5, <2>1, <2>2 DEF ReplayTypeOK
<1>7. CASE Pick
  <2>1. PICK i \in DOMAIN pData :
          turn' = i /\ out' = Append(out, [kind |-> pData[i], row |-> head[pData[i]]])
    BY <1>7 DEF Pick
  <2>2. UNCHANGED <<from, buffer, prov, offer, pData, head, crash, errors>> /\ merge' = "refill"
    BY <1>7 DEF Pick
  <2>3. pData[i] \in Providers /\ head[pData[i]] \in Message /\ i \in Nat
    BY <1>0 DEF ReplayTypeOK
  <2>4. out' \in Seq([kind : Providers, row : Message])
    <3> DEFINE T == [kind : Providers, row : Message]
               e == [kind |-> pData[i], row |-> head[pData[i]]]
    <3>1. e \in T /\ out \in Seq(T)
      BY <1>0, <2>3 DEF ReplayTypeOK
    <3>2. out' = Append(out, e)
      BY <2>1
    <3> HIDE DEF e, T
    <3>3. out' \in Seq(T)
      BY <3>1, <3>2, AppendFacts
    <3> QED
      BY <3>3 DEF T
  <2> QED
    BY <1>0, <2>1, <2>2, <2>3, <2>4 DEF ReplayTypeOK
<1>8. CASE Refill
  <2>1. /\ turn \in DOMAIN pData /\ pData[turn] \in Providers /\ Receive(pData[turn])
        /\ UNCHANGED <<from, buffer, offer, turn, out, crash, errors>> /\ merge' \in {"pick", "done"}
        /\ pData' = pData \/ pData' = Without(turn)
    BY <1>0, <1>8 DEF Refill, ReplayTypeOK
  <2>2. pData' \in Seq(Providers)
    BY <1>0, <2>1, WithoutFacts DEF ReplayTypeOK
  <2> QED
    BY <1>0, <1>5, <2>1, <2>2 DEF ReplayTypeOK
<1> QED
  BY <1>1, <1>3, <1>4, <1>6, <1>7, <1>8 DEF ReplayNext, ReplayStep

-----------------------------------------------------------------------------
(* The merge.                                                               *)

LEMMA ClosedStep ==
  ASSUME IInv, [ReplayNext]_<<rows, replayVars>>, NEW l \in Providers
  PROVE  Closed(l)'
<1>0. /\ ReplayTypeOK /\ Closed(l) /\ rows' = rows
      /\ \A k \in Providers : k \notin Merged => prov[k] = "closed"
  BY StepMoves DEF IInv, Closed
<1>1. CASE StartReplay \/ PickNil \/ (\E k \in Providers : LoadFails(k)) \/ UNCHANGED replayVars
  <2>1. Same(l) /\ prov' = prov /\ pData' = pData
    BY <1>1, StillStep DEF Still
  <2> QED
    BY <1>0, <2>1 DEF Closed, Same, Merged
<1>2. ASSUME NEW k \in Providers, NextBuffered(k) \/ NextPage(k) PROVE Closed(l)'
  <2>1. prov[k] = "next" /\ pData' = pData /\ k \in Merged
    BY <1>0, <1>2 DEF NextBuffered, NextPage
  <2>2. CASE l = k
    <3>1. prov'[k] = "closed" => buffer'[k] = <<>> /\ \A r \in rows[k] : r.id < from'[k]
      BY <1>2, BufferStep, PageStep DEF FromBuffer, FromPage, Offers, HasOffer, Still, Same
    <3> QED
      BY <1>0, <2>1, <2>2, <3>1 DEF Closed, Merged
  <2>3. CASE l # k
    <3>1. Same(l)
      BY <1>2, <2>3, BufferStep, PageStep DEF FromBuffer, FromPage, Offers, Still
    <3>2. prov'[l] = prov[l]
      BY <1>0, <1>2, <2>3 DEF NextBuffered, NextPage, Offer, ReplayTypeOK
    <3> QED
      BY <1>0, <2>1, <3>1, <3>2 DEF Closed, Same, Merged
  <2> QED
    BY <2>2, <2>3
<1>3. ASSUME NEW k \in Merged, k \in Providers, Receives(k) \/ Dries(k),
             prov' = prov \/ prov' = [prov EXCEPT ![k] = "next"], pData' = pData
      PROVE  Closed(l)'
  <2>1. buffer'[l] = buffer[l] /\ from'[l] = from[l] /\ (l # k => HasHead(l)' = HasHead(l))
    BY <1>3 DEF Receives, Dries, Same
  <2>2. prov'[l] = "closed" => prov[l] = "closed"
    BY <1>0, <1>3 DEF ReplayTypeOK
  <2>3. prov'[l] = prov[l] \/ l = k
    BY <1>0, <1>3 DEF ReplayTypeOK
  <2> QED
    BY <1>0, <1>3, <2>1, <2>2, <2>3 DEF Closed, Merged
<1>4. CASE Fill
  <2>1. pData' = pData
    BY <1>4 DEF Fill
  <2>2. PICK k \in Providers :
          /\ k \in Merged /\ (Receives(k) \/ Dries(k))
          /\ prov' = prov \/ prov' = [prov EXCEPT ![k] = "next"]
    BY <1>4, FillStep DEF Merged
  <2> QED
    BY <1>3, <2>1, <2>2
<1>5. CASE Pick
  <2>1. prov' = prov /\ pData' = pData
    BY <1>5 DEF Pick
  <2>2. PICK k \in Merged : k \in Providers /\ Processes(k)
    BY <1>5, PickStep
  <2>3. buffer'[l] = buffer[l] /\ from'[l] = from[l] /\ (HasHead(l)' => HasHead(l))
    BY <2>2 DEF Processes, Same
  <2> QED
    BY <1>0, <2>1, <2>3 DEF Closed, Merged
<1>6. CASE Refill
  <2>1. PICK k \in Providers :
          /\ turn \in DOMAIN pData /\ k = pData[turn]
          /\ \/ Receives(k) /\ prov' = [prov EXCEPT ![k] = "next"] /\ pData' = pData
             \/ Dries(k) /\ prov' = prov /\ pData' = Without(turn)
    BY <1>6, RefillStep
  <2>2. CASE Receives(k) /\ prov' = [prov EXCEPT ![k] = "next"] /\ pData' = pData
    <3>1. k \in Merged
      BY <2>1 DEF Merged
    <3> QED
      BY <1>3, <2>2, <3>1
  <2>3. CASE Dries(k) /\ prov' = prov /\ pData' = Without(turn)
    <3>1. /\ prov[k] = "closed" /\ ~HasHead(k)'
          /\ buffer'[l] = buffer[l] /\ from'[l] = from[l]
          /\ l # k => HasHead(l)' = HasHead(l)
      BY <2>3 DEF Dries, Same
    <3>2. l \notin Merged' => l \notin Merged \/ l = k
      <4>1. pData \in Seq(Providers)
        BY <1>0 DEF ReplayTypeOK
      <4>2. \A m \in DOMAIN pData : m = turn \/ \E j \in DOMAIN pData' : pData'[j] = pData[m]
        BY <2>1, <2>3, <4>1, WithoutFacts
      <4> QED
        BY <2>1, <4>2 DEF Merged
    <3>3. prov'[l] = "closed" => buffer'[l] = <<>> /\ \A r \in rows[l] : r.id < from'[l]
      BY <1>0, <2>3, <3>1 DEF Closed
    <3>4. l \notin Merged' => prov'[l] = "closed" /\ ~HasHead(l)'
      BY <1>0, <2>3, <3>1, <3>2 DEF Closed
    <3> QED
      BY <1>0, <3>3, <3>4 DEF Closed
  <2> QED
    BY <2>1, <2>2, <2>3
<1> QED
  BY <1>1, <1>2, <1>4, <1>5, <1>6 DEF ReplayNext, ReplayStep

\* The goroutines of the providers do not touch the merge.
LEMMA ProviderSteps ==
  ASSUME NEW k \in Providers, NextBuffered(k) \/ NextPage(k)
  PROVE  UNCHANGED <<merge, pData, turn, head, out, crash>>
BY DEF NextBuffered, NextPage

LEMMA MergingStep ==
  ASSUME IInv, [ReplayNext]_<<rows, replayVars>>
  PROVE  Merging'
<1>0. /\ ReplayTypeOK /\ Merging /\ Parameters
      /\ DOMAIN pData = 1 .. Len(pData) /\ Len(pData) \in Nat
      /\ \A i \in DOMAIN pData : pData[i] \in Providers
  BY DEF IInv, Analysis, ReplayTypeOK
<1>1. CASE StartReplay \/ PickNil \/ (\E k \in Providers : LoadFails(k)) \/ UNCHANGED replayVars
  <2>1. /\ UNCHANGED <<pData, turn, head, out>>
        /\ merge' = merge \/ (merge = "idle" /\ merge' = "fill")
    BY <1>1 DEF StartReplay, PickNil, LoadFails, replayVars
  <2>2. Order # <<>>
    BY <1>0 DEF Parameters
  <2> QED
    BY <1>0, <2>1, <2>2 DEF Merging
<1>2. ASSUME NEW k \in Providers, NextBuffered(k) \/ NextPage(k) PROVE Merging'
  BY <1>0, <1>2, ProviderSteps DEF Merging
<1>3. CASE Fill
  <2>1. /\ pData' = pData /\ out' = out /\ merge = "fill" /\ turn \in DOMAIN pData
        /\ IF turn = Len(pData) THEN merge' = "pick" /\ turn' = 1 ELSE turn' = turn + 1 /\ merge' = merge
    BY <1>0, <1>3 DEF Fill, Merging
  <2>2. pData = Order /\ out = <<>> /\ \A i \in DOMAIN Order : i >= turn => head[Order[i]] = NoRow
    BY <1>0, <2>1 DEF Merging
  <2>3. CASE turn = Len(pData)
    BY <1>0, <2>1, <2>3 DEF Merging
  <2>4. CASE turn # Len(pData)
    <3>1. turn' \in DOMAIN pData /\ merge' = "fill" /\ turn' = turn + 1
      BY <1>0, <2>1, <2>4
    <3>2. ASSUME NEW i \in DOMAIN Order, i >= turn' PROVE head'[Order[i]] = NoRow
      <4>1. i >= turn /\ i # turn
        BY <1>0, <2>1, <2>2, <3>1, <3>2
      <4>2. Order[i] # pData[turn] /\ Order[i] \in Providers
        BY <1>0, <2>1, <2>2, <4>1 DEF Merging
      <4>3. PICK k \in Providers : k = pData[turn] /\ (Receives(k) \/ Dries(k))
        BY <1>3, FillStep
      <4>4. head'[Order[i]] = head[Order[i]]
        BY <4>2, <4>3 DEF Receives, Dries, Same
      <4> QED
        BY <2>2, <4>1, <4>4
    <3> QED
      BY <1>0, <2>1, <2>2, <3>1, <3>2 DEF Merging
  <2> QED
    BY <2>3, <2>4
<1>4. CASE Pick
  <2>1. pData' = pData /\ head' = head /\ merge' = "refill"
    BY <1>4 DEF Pick
  <2>2. turn' \in DOMAIN pData /\ merge = "pick" /\ head[pData[turn']] # NoRow
    BY <1>4 DEF Pick, Dry
  <2> QED
    BY <1>0, <2>1, <2>2 DEF Merging
<1>5. CASE Refill
  <2>1. /\ turn \in DOMAIN pData
        /\ \/ pData' = pData /\ merge' = "pick"
           \/ pData' = Without(turn) /\ merge' = IF Len(pData) = 1 THEN "done" ELSE "pick"
    BY <1>5, RefillStep
  <2>2. CASE pData' = pData /\ merge' = "pick"
    BY <1>0, <2>1, <2>2 DEF Merging
  <2>3. CASE pData' = Without(turn) /\ merge' = IF Len(pData) = 1 THEN "done" ELSE "pick"
    <3>1. pData \in Seq(Providers) /\ \A m, i \in DOMAIN pData : pData[m] = pData[i] => m = i
      BY <1>0 DEF Merging, ReplayTypeOK
    <3>2. /\ \A m, i \in DOMAIN Without(turn) : Without(turn)[m] = Without(turn)[i] => m = i
          /\ Len(pData) = 1 <=> Without(turn) = <<>>
      BY <2>1, <3>1, WithoutFacts
    <3>3. /\ \A m, i \in DOMAIN pData' : pData'[m] = pData'[i] => m = i
          /\ Len(pData) = 1 <=> pData' = <<>>
      BY <2>3, <3>2
    <3> QED
      BY <2>3, <3>3 DEF Merging
  <2> QED
    BY <2>1, <2>2, <2>3
<1> QED
  BY <1>1, <1>2, <1>3, <1>4, <1>5 DEF ReplayNext, ReplayStep

\* A provider that the merge finds closed at the beginning had nothing to give.
LEMMA NothingStored ==
  ASSUME IInv, NEW k \in Providers, Dries(k), out = <<>>
  PROVE  rows[k] = {}
<1>1. Complete(k) /\ Closed(k)
  BY DEF IInv, Line
<1>2. prov[k] = "closed" /\ ~HasOffer(k) /\ ~HasHead(k)
  BY DEF Dries
<1>3. buffer[k] = <<>> /\ \A r \in rows[k] : r.id < from[k]
  BY <1>1, <1>2 DEF Closed
<1>4. \A r \in rows[k] : There(k, r.id)
  BY <1>1, <1>3 DEF Complete
<1> QED
  BY <1>2, <1>3, <1>4 DEF There

LEMMA HeadedStep ==
  ASSUME IInv, [ReplayNext]_<<rows, replayVars>>
  PROVE  Headed'
<1>0. /\ ReplayTypeOK /\ Merging /\ Headed /\ rows' = rows
      /\ DOMAIN pData = 1 .. Len(pData) /\ Len(pData) \in Nat
      /\ \A i \in DOMAIN pData : pData[i] \in Providers
  BY StepMoves DEF IInv, ReplayTypeOK
<1>1. CASE StartReplay \/ PickNil \/ (\E k \in Providers : LoadFails(k)) \/ UNCHANGED replayVars
  <2>1. /\ UNCHANGED <<pData, turn, head>>
        /\ merge' = merge \/ (merge' = "fill" /\ turn = 1)
    BY <1>0, <1>1 DEF StartReplay, PickNil, LoadFails, replayVars, Merging
  <2> QED
    BY <1>0, <2>1 DEF Headed
<1>2. ASSUME NEW k \in Providers, NextBuffered(k) \/ NextPage(k) PROVE Headed'
  BY <1>0, <1>2, ProviderSteps DEF Headed
<1>3. ASSUME NEW k \in Providers, Receives(k) PROVE head'[k] # NoRow
  BY <1>0, <1>3 DEF Receives, HasOffer, ReplayTypeOK
<1>4. CASE Fill
  <2>1. /\ pData' = pData /\ merge = "fill" /\ out = <<>>
        /\ turn' = turn + 1 \/ turn = Len(pData)
    BY <1>0, <1>4 DEF Fill, Merging
  <2>a. PICK k \in Providers : turn \in DOMAIN pData /\ k = pData[turn] /\ (Receives(k) \/ Dries(k))
    BY <1>4, FillStep
  <2>2. ASSUME NEW i \in DOMAIN pData, i < turn \/ i = turn, head'[pData[i]] = NoRow
        PROVE  rows[pData[i]] = {}
    <3>1. CASE i = turn
      BY <1>3, <2>1, <2>a, <2>2, <3>1, NothingStored
    <3>2. CASE i < turn
      <4>1. pData[i] # k /\ pData[i] \in Providers
        BY <1>0, <2>a, <3>2 DEF Merging
      <4>2. head'[pData[i]] = head[pData[i]]
        BY <2>a, <4>1 DEF Receives, Dries, Same
      <4> QED
        BY <1>0, <2>1, <2>2, <3>2, <4>2 DEF Headed
    <3> QED
      BY <2>2, <3>1, <3>2
  <2>3. ASSUME NEW i \in DOMAIN pData,
               (merge' = "fill" /\ i < turn') \/ merge' \in {"pick", "refill"}
        PROVE  i < turn \/ i = turn
    <3>1. merge' # "fill" => turn = Len(pData)
      BY <1>4, <2>1 DEF Fill
    <3>2. merge' = "fill" => turn' = turn + 1
      BY <1>4 DEF Fill
    <3> QED
      BY <1>0, <2>1, <2>a, <2>3, <3>1, <3>2
  <2> QED
    BY <1>0, <2>1, <2>2, <2>3 DEF Headed
<1>5. CASE Pick
  <2>1. UNCHANGED <<pData, head>> /\ merge = "pick"
    BY <1>5 DEF Pick
  <2>2. merge' = "refill"
    BY <1>5 DEF Pick
  <2> QED
    BY <1>0, <2>1, <2>2 DEF Headed
<1>6. CASE Refill
  <2>1. PICK k \in Providers :
          /\ turn \in DOMAIN pData /\ k = pData[turn]
          /\ (Receives(k) /\ pData' = pData) \/ (Dries(k) /\ pData' = Without(turn))
    BY <1>6, RefillStep
  <2>2. merge = "refill" /\ merge' \in {"pick", "done"}
    BY <1>6 DEF Refill
  <2>3. ASSUME NEW i \in DOMAIN pData, i # turn, head'[pData[i]] = NoRow
        PROVE  rows[pData[i]] = {}
    <3>1. pData[i] # k /\ pData[i] \in Providers
      BY <1>0, <2>1, <2>3 DEF Merging
    <3>2. head'[pData[i]] = head[pData[i]]
      BY <2>1, <3>1 DEF Receives, Dries, Same
    <3> QED
      BY <1>0, <2>2, <2>3, <3>2 DEF Headed
  <2>4. CASE Receives(k) /\ pData' = pData
    <3>1. head'[k] # NoRow
      BY <1>3, <2>4
    <3> QED
      BY <1>0, <2>1, <2>2, <2>3, <2>4, <3>1 DEF Headed
  <2>5. CASE pData' = Without(turn)
    <3>1. pData \in Seq(Providers)
      BY <1>0 DEF ReplayTypeOK
    <3>2. \A j \in DOMAIN Without(turn) :
            \E m \in DOMAIN pData : m # turn /\ Without(turn)[j] = pData[m]
      BY <2>1, <3>1, WithoutFacts
    <3>3. \A j \in DOMAIN pData' : \E m \in DOMAIN pData : m # turn /\ pData'[j] = pData[m]
      BY <2>5, <3>2
    <3> QED
      BY <1>0, <2>2, <2>3, <3>3 DEF Headed
  <2> QED
    BY <2>1, <2>4, <2>5
<1> QED
  BY <1>1, <1>2, <1>4, <1>5, <1>6 DEF ReplayNext, ReplayStep

-----------------------------------------------------------------------------
(* What the properties say of a step.                                       *)

LEMMA OrderStep ==
  ASSUME IInv, [ReplayNext]_<<rows, replayVars>>
  PROVE  EachOnce' /\ MergeOrdered'
<1>1. rows' = rows /\ Moves /\ EachOnce /\ MergeOrdered
  BY StepMoves DEF IInv
<1>2. CASE out' = out
  BY <1>1, <1>2 DEF EachOnce, MergeOrdered
<1>3. ASSUME NEW k \in Providers, Processes(k) PROVE EachOnce' /\ MergeOrdered'
  <2>1. /\ Done(k) /\ Bounded(k) /\ HasHead(k) /\ head[k].id \in Nat /\ head[k].ts \in Nat
        /\ \A i \in DOMAIN out : out[i].row.ts \in Nat
        /\ \A r \in rows[k] : r.id \in Nat /\ r.ts \in Nat
    BY <1>3, TypeFacts DEF IInv, Line, Processes
  <2>2. PICK n \in Nat \ {0} :
          /\ n \in DOMAIN out' /\ out'[n].kind = k /\ out'[n].row = head[k]
          /\ \A i \in DOMAIN out : i \in DOMAIN out' /\ out'[i] = out[i] /\ i \in Nat /\ i < n
          /\ \A i \in DOMAIN out' : i \in DOMAIN out \/ i = n
    BY <1>3, OutFacts
  <2>3. \A i, j \in DOMAIN out' : i < j => i \in DOMAIN out /\ (j \in DOMAIN out \/ j = n)
    BY <2>2
  <2>4. EachOnce'
    <3> SUFFICES ASSUME NEW i \in DOMAIN out', NEW j \in DOMAIN out', i < j, out'[i].kind = out'[j].kind
                 PROVE  out'[i].row # out'[j].row /\ out'[i].row.id <= out'[j].row.id
      BY DEF EachOnce
    <3>1. CASE j \in DOMAIN out
      BY <1>1, <2>2, <2>3, <3>1 DEF EachOnce
    <3>2. CASE j = n
      BY <2>1, <2>2, <2>3, <3>2 DEF Done, Before
    <3> QED
      BY <2>3, <3>1, <3>2
  <2>5. MergeOrdered'
    <3> SUFFICES ASSUME NEW i \in DOMAIN out', NEW j \in DOMAIN out', i < j,
                        out'[j].row.ts < out'[i].row.ts
                 PROVE  \E r \in rows[out'[j].kind] : r.id <= out'[j].row.id /\ r.ts >= out'[i].row.ts
      BY <1>1 DEF MergeOrdered
    <3>1. CASE j \in DOMAIN out
      BY <1>1, <2>2, <2>3, <3>1 DEF MergeOrdered
    <3>2. CASE j = n
      BY <2>1, <2>2, <2>3, <3>2 DEF Bounded
    <3> QED
      BY <2>3, <3>1, <3>2
  <2> QED
    BY <2>4, <2>5
<1> QED
  BY <1>1, <1>2, <1>3
     DEF Moves, Still, FromBuffer, FromPage, Offers, Receives, Dries

LEMMA CrashStep ==
  ASSUME IInv, [ReplayNext]_<<rows, replayVars>>
  PROVE  CrashOnlyIfEmpty'
<1>1. rows' = rows /\ CrashOnlyIfEmpty /\ Headed /\ ReplayTypeOK
  BY StepMoves DEF IInv
<1>2. CASE PickNil
  <2>1. PICK i \in DOMAIN pData : merge = "pick" /\ head[pData[i]] = NoRow
    BY <1>2 DEF PickNil, Dry
  <2>2. rows[pData[i]] = {} /\ pData[i] \in Providers
    BY <1>1, <2>1 DEF Headed, ReplayTypeOK
  <2> QED
    BY <1>1, <2>2 DEF CrashOnlyIfEmpty
<1>3. CASE ~PickNil
  <2>1. crash' = crash \/ crash' = "load"
    BY <1>3 DEF ReplayNext, ReplayStep, StartReplay, NextBuffered, NextPage, LoadFails, Fill, Pick,
                Refill, replayVars
  <2> QED
    BY <1>1, <2>1 DEF CrashOnlyIfEmpty
<1> QED
  BY <1>2, <1>3

LEMMA InitInv == Analysis /\ Stored /\ ReplayInit => IInv
<1> SUFFICES ASSUME Analysis, Stored, ReplayInit PROVE IInv
  OBVIOUS
<1>1. /\ Order \in Seq(Providers) /\ Order # <<>> /\ DOMAIN Order = 1 .. Len(Order) /\ Len(Order) \in Nat
      /\ \A i, j \in DOMAIN Order : Order[i] = Order[j] => i = j
      /\ \A i \in DOMAIN Order : Order[i] \in Providers
  BY DEF Analysis, Parameters
<1>2. /\ pData = Order /\ turn = 1 /\ merge = "idle" /\ out = <<>> /\ crash = "no" /\ errors = 0
      /\ \A k \in Providers : /\ head[k] = NoRow /\ offer[k] = NoRow /\ buffer[k] = <<>>
                              /\ prov[k] = "next" /\ from[k] = 0
  BY DEF ReplayInit
<1>3. Merged = Providers
  BY <1>2 DEF Merged, Providers
<1>4. \A k \in Providers : ~HasHead(k) /\ ~HasOffer(k)
  BY <1>2 DEF HasHead, HasOffer
<1>5. ReplayTypeOK
  <2>1. /\ from \in [Providers -> Nat] /\ buffer \in [Providers -> Seq(Message)]
        /\ prov \in [Providers -> {"next", "send", "closed"}]
        /\ offer \in [Providers -> Message] /\ head \in [Providers -> Message]
    BY MessageFacts DEF ReplayInit
  <2> QED
    BY <1>1, <1>2, <2>1 DEF ReplayTypeOK
<1>6. ASSUME NEW k \in Providers PROVE Line(k) /\ Closed(k) /\ Bounded(k)
  <2>1. /\ DOMAIN buffer[k] = {} /\ DOMAIN out = {} /\ from[k] = 0 /\ prov[k] = "next"
        /\ ~HasHead(k) /\ ~HasOffer(k) /\ head[k] = NoRow
    BY <1>2, <1>4
  <2>2. \A r \in rows[k] : r.id \in Nat
    BY MessageFacts DEF Stored
  <2>3. Complete(k)
    BY <2>1, <2>2 DEF Complete
  <2> QED
    BY <1>3, <2>1, <2>3 DEF Line, Placed, Read, Queued, Done, Closed, Bounded
<1>7. Merging
  BY <1>1, <1>2 DEF Merging
<1>8. Headed
  BY <1>2 DEF Headed
<1>9. EachOnce /\ MergeOrdered /\ CrashOnlyIfEmpty
  BY <1>2 DEF EachOnce, MergeOrdered, CrashOnlyIfEmpty
<1> QED
  BY <1>5, <1>6, <1>7, <1>8, <1>9 DEF IInv

LEMMA StepInv == IInv /\ [ReplayNext]_<<rows, replayVars>> => IInv'
<1> SUFFICES ASSUME IInv, [ReplayNext]_<<rows, replayVars>> PROVE IInv'
  OBVIOUS
<1>1. Analysis' /\ Stored'
  BY StepMoves DEF IInv, Analysis, Parameters, Stored
<1>2. \A k \in Providers : Line(k)' /\ Closed(k)' /\ (k \in Merged' => Bounded(k)')
  BY LinesStep, ClosedStep
<1> QED
  BY <1>1, <1>2, TypeStep, MergingStep, HeadedStep, OrderStep, CrashStep DEF IInv

LEMMA Always == AnalysisSpec => []IInv
BY InitInv, StepInv, PTL DEF AnalysisSpec

-----------------------------------------------------------------------------
(* The types of the providers, the merge and their channels.                *)
THEOREM TypeCorrect == AnalysisSpec => []ReplayTypeOK
<1>1. IInv => ReplayTypeOK
  BY DEF IInv
<1> QED
  BY Always, <1>1, PTL

(***************************************************************************)
(* The merge of processData brings no message out of order that was not    *)
(* late among its own kind already, at whatever speed the providers run.   *)
(***************************************************************************)
THEOREM MergeKeepsOrder == AnalysisSpec => []MergeOrdered
<1>1. IInv => MergeOrdered
  BY DEF IInv
<1> QED
  BY Always, <1>1, PTL

\* When the merge is done, all was processed.
LEMMA CompleteAtEnd == IInv => AllOnce
<1> SUFFICES ASSUME IInv PROVE AllOnce
  OBVIOUS
<1>1. EachOnce /\ Merging
  BY DEF IInv
<1>2. ASSUME merge = "done", NEW k \in Providers, NEW r \in rows[k]
      PROVE  \E i \in DOMAIN out : out[i].kind = k /\ out[i].row.id = r.id
  <2>1. k \notin Merged
    BY <1>1, <1>2 DEF Merging, Merged
  <2>2. Closed(k) /\ Complete(k)
    BY DEF IInv, Line
  <2>3. prov[k] = "closed" /\ ~HasHead(k) /\ buffer[k] = <<>> /\ r.id < from[k]
    BY <2>1, <2>2 DEF Closed
  <2> QED
    BY <2>2, <2>3 DEF Complete, There, HasOffer
<1> QED
  BY <1>1, <1>2 DEF AllOnce

(***************************************************************************)
(* The recomputation of the analysis processes every stored message once,  *)
(* those of a kind in the order of their ids, and when it has ended it has *)
(* missed none: no page, buffer or channel drops or repeats one.           *)
(***************************************************************************)
THEOREM EverythingReplayedOnce == AnalysisSpec => []AllOnce
BY Always, CompleteAtEnd, PTL

(***************************************************************************)
(* As long as its queries succeed, the recomputation ends the process only *)
(* for an event that has no message at all of one kind.                    *)
(***************************************************************************)
THEOREM NilOnlyIfEmpty == AnalysisSpec => []CrashOnlyIfEmpty
<1>1. IInv => CrashOnlyIfEmpty
  BY DEF IInv
<1> QED
  BY Always, <1>1, PTL
-----------------------------------------------------------------------------
(* The replay command, whose loaders ask for the page they began with over  *)
(* and over (NextId), of an event that has messages of each kind.           *)

Command == Parameters /\ ~Advances /\ \A k \in Providers : rows[k] # {}
CommandSpec == Command /\ Stored /\ ReplayInit /\ [][ReplayNext]_<<rows, replayVars>>

\* The messages that the first query for a kind may have as its result.
FirstPage(k) ==
  {r \in rows[k] : \E p \in Pages(rows[k], 0, PageLimit[k]) : \E i \in DOMAIN p : p[i] = r}

(***************************************************************************)
(* The extent of the finding about EachOnce: for an event with messages of *)
(* each kind, however many, the command sends messages of the first page   *)
(* of each kind only, and goes on with them: no provider closes its        *)
(* channel, the merge is never done, and never without a message.  Only a  *)
(* query that fails, or the server that takes no more, ends it.            *)
(***************************************************************************)
SendsFirstPages == \A i \in DOMAIN out : out[i].row \in FirstPage(out[i].kind)

NeverEnds == merge # "done" /\ crash # "nil" /\ \A k \in Providers : prov[k] # "closed"

\* What a kind has under way.
OfFirst(k) ==
  /\ from[k] = 0 /\ prov[k] \in {"next", "send"}
  /\ \A i \in DOMAIN buffer[k] : buffer[k][i] \in FirstPage(k)
  /\ prov[k] = "send" => offer[k] \in FirstPage(k)
  /\ head[k] # NoRow => head[k] \in FirstPage(k)

\* All heads are there once they were filled.
Filled ==
  /\ pData = Order /\ merge # "done"
  /\ merge = "idle" => turn = 1
  /\ merge \in {"fill", "refill"} => turn \in DOMAIN Order
  /\ merge = "fill" => \A i \in DOMAIN Order : i < turn => head[Order[i]] # NoRow
  /\ merge \in {"pick", "refill"} => \A i \in DOMAIN Order : head[Order[i]] # NoRow

CInv ==
  /\ Command /\ Stored
  /\ from \in [Providers -> Nat] /\ buffer \in [Providers -> Seq(Message)]
  /\ prov \in [Providers -> {"next", "send"}]
  /\ offer \in [Providers -> Message] /\ head \in [Providers -> Message]
  /\ out \in Seq([kind : Providers, row : Message])
  /\ crash # "nil" /\ Filled /\ SendsFirstPages
  /\ \A k \in Providers : OfFirst(k)

LEMMA FirstFacts ==
  ASSUME Command, Stored, NEW k \in Providers
  PROVE  /\ \A p \in Pages(rows[k], 0, PageLimit[k]) :
              /\ p \in Seq(Message) /\ p # <<>>
              /\ \A i \in DOMAIN p : p[i] \in FirstPage(k)
         /\ \A r \in FirstPage(k) : r \in Message /\ r # NoRow
<1>1. rows[k] \in SUBSET Message /\ IsFiniteSet(rows[k]) /\ rows[k] # {} /\ PageLimit[k] \in Nat /\ PageLimit[k] > 0
  BY DEF Command, Parameters, Stored
<1>2. ASSUME NEW p \in Pages(rows[k], 0, PageLimit[k])
      PROVE  p \in Seq(Message) /\ p # <<>> /\ \A i \in DOMAIN p : p[i] \in FirstPage(k)
  <2>1. /\ p \in Seq(Message) /\ \A i \in DOMAIN p : p[i] \in rows[k]
        /\ p = <<>> => \A r \in rows[k] : r.id < 0
    BY <1>1, PagesFacts
  <2>2. \A r \in rows[k] : ~(r.id < 0)
    BY <1>1, MessageFacts
  <2> QED
    BY <1>1, <2>1, <2>2 DEF FirstPage
<1>3. \A r \in rows[k] : r \in Message /\ r # NoRow
  BY <1>1 DEF Stored, NoRow
<1> QED
  BY <1>2, <1>3 DEF FirstPage

\* A kind that a step leaves alone.
LEMMA FirstFrame ==
  ASSUME NEW k \in Providers, OfFirst(k), UNCHANGED rows, from'[k] = from[k], prov'[k] = prov[k],
         buffer'[k] = buffer[k], offer'[k] = offer[k], head'[k] = head[k]
  PROVE  OfFirst(k)'
  BY DEF OfFirst, FirstPage

\* A provider offers a message of its first page.
LEMMA FirstOffered ==
  ASSUME CInv, UNCHANGED rows, NEW k \in Providers, NextBuffered(k) \/ NextPage(k)
  PROVE  CInv'
<1>1. PICK s \in Seq(Message) :
        /\ s # <<>> /\ \A i \in DOMAIN s : s[i] \in FirstPage(k)
        /\ offer' = [offer EXCEPT ![k] = Head(s)] /\ buffer' = [buffer EXCEPT ![k] = Tail(s)]
        /\ prov' = [prov EXCEPT ![k] = "send"] /\ from' = from
  <2>1. CASE NextBuffered(k)
    BY <2>1 DEF NextBuffered, Offer, CInv, OfFirst
  <2>2. CASE NextPage(k)
    <3>1. PICK p \in Pages(rows[k], 0, PageLimit[k]) :
            IF p = <<>>
            THEN prov' = [prov EXCEPT ![k] = "closed"] /\ UNCHANGED <<offer, buffer, from>>
            ELSE /\ Offer(k, Head(p), Tail(p))
                 /\ from' = [from EXCEPT ![k] = NextId(k, p)]
      BY <2>2 DEF NextPage, CInv, OfFirst
    <3>2. p \in Seq(Message) /\ p # <<>> /\ \A i \in DOMAIN p : p[i] \in FirstPage(k)
      BY FirstFacts DEF CInv
    <3>3. from' = from
      BY <3>1, <3>2 DEF NextId, CInv, Command
    <3> QED
      BY <3>1, <3>2, <3>3 DEF Offer
  <2> QED
    BY <2>1, <2>2
<1>2. UNCHANGED <<merge, pData, turn, head, out, crash>>
  BY DEF NextBuffered, NextPage
<1>3. /\ Head(s) \in FirstPage(k) /\ Head(s) \in Message /\ Tail(s) \in Seq(Message)
      /\ \A j \in DOMAIN Tail(s) : Tail(s)[j] \in FirstPage(k)
  BY <1>1, TailFacts
<1>4. /\ buffer' \in [Providers -> Seq(Message)] /\ offer' \in [Providers -> Message]
      /\ prov' \in [Providers -> {"next", "send"}]
      /\ buffer'[k] = Tail(s) /\ offer'[k] = Head(s) /\ prov'[k] = "send"
      /\ \A l \in Providers \ {k} : buffer'[l] = buffer[l] /\ offer'[l] = offer[l] /\ prov'[l] = prov[l]
  BY <1>1, <1>3 DEF CInv
<1>5. ASSUME NEW l \in Providers PROVE OfFirst(l)'
  <2>1. CASE l = k
    BY <1>1, <1>2, <1>3, <1>4, <2>1 DEF CInv, OfFirst, FirstPage
  <2>2. CASE l # k
    BY <1>1, <1>2, <1>4, <2>2, FirstFrame DEF CInv
  <2> QED
    BY <2>1, <2>2
<1>6. Command' /\ Stored' /\ Filled' /\ SendsFirstPages'
  BY <1>2 DEF CInv, Command, Parameters, Stored, Filled, SendsFirstPages, FirstPage
<1> QED
  BY <1>1, <1>2, <1>4, <1>5, <1>6 DEF CInv

\* The merge receives from a provider that has not closed its channel.
LEMMA FirstReceived ==
  ASSUME CInv, UNCHANGED rows, Fill \/ Refill
  PROVE  CInv'
<1>0. /\ turn \in DOMAIN Order /\ pData = Order /\ Order[turn] \in Providers
      /\ DOMAIN Order = 1 .. Len(Order) /\ Len(Order) \in Nat
  BY DEF CInv, Filled, Fill, Refill, Providers, Command, Parameters
<1>1. PICK k \in Providers : k = Order[turn] /\ k = pData[turn]
  BY <1>0
<1>2. /\ Receive(k) /\ UNCHANGED <<from, buffer, offer, out, crash>>
      /\ prov[k] \in {"next", "send"}
  BY <1>1 DEF Fill, Refill, CInv
<1>3. prov[k] = "send" /\ head' = [head EXCEPT ![k] = offer[k]] /\ prov' = [prov EXCEPT ![k] = "next"]
  BY <1>2 DEF Receive
<1>4. offer[k] \in FirstPage(k) /\ offer[k] # NoRow /\ offer[k] \in Message
  BY <1>3, FirstFacts DEF CInv, OfFirst
<1>5. /\ head' \in [Providers -> Message] /\ prov' \in [Providers -> {"next", "send"}]
      /\ head'[k] = offer[k] /\ prov'[k] = "next"
      /\ \A l \in Providers \ {k} : head'[l] = head[l] /\ prov'[l] = prov[l]
  BY <1>3, <1>4 DEF CInv
<1>6. ASSUME NEW l \in Providers PROVE OfFirst(l)'
  <2>1. CASE l = k
    BY <1>2, <1>4, <1>5, <2>1 DEF CInv, OfFirst, FirstPage
  <2>2. CASE l # k
    BY <1>2, <1>5, <2>2, FirstFrame DEF CInv
  <2> QED
    BY <2>1, <2>2
<1>7. Filled'
  <2>1. \A i \in DOMAIN Order : Order[i] \in Providers
    BY DEF Providers
  <2>2. \A i \in DOMAIN Order : head[Order[i]] # NoRow \/ i = turn => head'[Order[i]] # NoRow
    BY <1>1, <1>4, <1>5, <2>1
  <2>3. CASE Fill
    <3>1. /\ merge = "fill" /\ pData' = pData /\ turn \in Nat
          /\ \/ turn = Len(Order) /\ merge' = "pick" /\ turn' = 1
             \/ turn # Len(Order) /\ turn' = turn + 1 /\ merge' = "fill"
      BY <1>0, <2>3 DEF Fill
    <3>2. \A i \in DOMAIN Order : i < turn => head[Order[i]] # NoRow
      BY <3>1 DEF CInv, Filled
    <3>3. \A i \in DOMAIN Order : i <= turn => head'[Order[i]] # NoRow
      BY <1>0, <2>2, <3>2
    <3>4. CASE turn = Len(Order) /\ merge' = "pick" /\ turn' = 1
      BY <1>0, <3>1, <3>3, <3>4 DEF Filled
    <3>5. CASE turn # Len(Order) /\ turn' = turn + 1 /\ merge' = "fill"
      <4>1. turn' \in DOMAIN Order /\ \A i \in DOMAIN Order : i < turn' => i <= turn
        BY <1>0, <3>5
      <4> QED
        BY <1>0, <3>1, <3>3, <3>5, <4>1 DEF Filled
    <3> QED
      BY <3>1, <3>4, <3>5
  <2>4. CASE Refill
    <3>1. merge = "refill" /\ merge' = "pick" /\ pData' = pData
      BY <1>1, <1>3, <2>4 DEF Refill
    <3> QED
      BY <1>0, <2>2, <3>1 DEF CInv, Filled
  <2> QED
    BY <2>3, <2>4
<1>8. Command' /\ Stored' /\ SendsFirstPages'
  BY <1>2 DEF CInv, Command, Parameters, Stored, SendsFirstPages, FirstPage
<1> QED
  BY <1>2, <1>5, <1>6, <1>7, <1>8 DEF CInv

\* The merge sends a head.
LEMMA FirstSent ==
  ASSUME CInv, UNCHANGED rows, Pick
  PROVE  CInv'
<1>1. PICK i \in DOMAIN Order :
        turn' = i /\ out' = Append(out, [kind |-> Order[i], row |-> head[Order[i]]])
  BY DEF Pick, CInv, Filled
<1>2. PICK k \in Providers : k = Order[i]
  BY DEF Providers
<1>3. /\ merge = "pick" /\ merge' = "refill"
      /\ UNCHANGED <<from, buffer, prov, offer, pData, head, crash>>
  BY DEF Pick
<1>4. head[k] \in FirstPage(k) /\ head[k] \in Message
  BY <1>2, <1>3 DEF CInv, Filled, OfFirst
<1> DEFINE e == [kind |-> k, row |-> head[k]]
           T == [kind : Providers, row : Message]
<1>5. e \in T /\ e.kind = k /\ e.row = head[k] /\ out' = Append(out, e) /\ out \in Seq(T)
  BY <1>1, <1>2, <1>4 DEF CInv
<1> HIDE DEF e, T
<1>6. /\ out' \in Seq(T)
      /\ \A j \in DOMAIN out' : out'[j] = e \/ (j \in DOMAIN out /\ out'[j] = out[j])
  BY <1>5, AppendFacts
<1>7. SendsFirstPages'
  <2>1. ASSUME NEW j \in DOMAIN out'
        PROVE  out'[j].row \in FirstPage(out'[j].kind)
    <3>1. CASE out'[j] = e
      BY <1>4, <1>5, <3>1
    <3>2. CASE j \in DOMAIN out /\ out'[j] = out[j]
      BY <3>2 DEF CInv, SendsFirstPages
    <3> QED
      BY <1>6, <3>1, <3>2
  <2> QED
    BY <2>1 DEF SendsFirstPages, FirstPage
<1>8. \A l \in Providers : OfFirst(l)'
  BY <1>3, FirstFrame DEF CInv
<1>9. Command' /\ Stored' /\ Filled'
  BY <1>1, <1>3 DEF CInv, Command, Parameters, Stored, Filled
<1> QED
  BY <1>3, <1>6, <1>7, <1>8, <1>9 DEF CInv, T

LEMMA CommandStep == CInv /\ [ReplayNext]_<<rows, replayVars>> => CInv'
<1> SUFFICES ASSUME CInv, [ReplayNext]_<<rows, replayVars>> PROVE CInv'
  OBVIOUS
<1>1. UNCHANGED rows
  BY DEF ReplayNext
<1>2. CASE StartReplay \/ (\E k \in Providers : LoadFails(k)) \/ UNCHANGED <<rows, replayVars>>
  <2>1. UNCHANGED <<from, buffer, prov, offer, pData, turn, head, out>>
    BY <1>2 DEF StartReplay, LoadFails, replayVars
  <2>2. crash' # "nil" /\ (merge' = merge \/ (merge = "idle" /\ merge' = "fill"))
    BY <1>2 DEF StartReplay, LoadFails, replayVars, CInv
  <2>3. Filled'
    <3>1. Order \in Seq(Providers) /\ Order # <<>>
      BY DEF CInv, Command, Parameters
    <3>2. 1 \in DOMAIN Order /\ \A i \in DOMAIN Order : ~(i < 1)
      BY <3>1
    <3> QED
      BY <2>1, <2>2, <3>2 DEF CInv, Filled
  <2>4. \A l \in Providers : OfFirst(l)'
    BY <1>1, <2>1, FirstFrame DEF CInv
  <2>5. Command' /\ Stored' /\ SendsFirstPages'
    BY <1>1, <2>1 DEF CInv, Command, Parameters, Stored, SendsFirstPages, FirstPage
  <2> QED
    BY <2>1, <2>2, <2>3, <2>4, <2>5 DEF CInv
<1>3. ~PickNil
  BY DEF PickNil, Dry, CInv, Filled
<1> QED
  BY <1>1, <1>2, <1>3, FirstOffered, FirstReceived, FirstSent DEF ReplayNext, ReplayStep

(***************************************************************************)
(* For any number of providers, page sizes and stored messages, with some  *)
(* of each kind: what the replay command sends is always a message of the  *)
(* first page of its kind, and the command never comes to the end of the   *)
(* event.                                                                  *)
(***************************************************************************)
THEOREM CommandRepeatsFirstPages == CommandSpec => [](SendsFirstPages /\ NeverEnds)
<1>1. Command /\ Stored /\ ReplayInit => CInv
  <2> SUFFICES ASSUME Command, Stored, ReplayInit PROVE CInv
    OBVIOUS
  <2>1. /\ from \in [Providers -> Nat] /\ buffer \in [Providers -> Seq(Message)]
        /\ prov \in [Providers -> {"next", "send"}]
        /\ offer \in [Providers -> Message] /\ head \in [Providers -> Message]
        /\ out \in Seq([kind : Providers, row : Message])
    BY MessageFacts DEF ReplayInit
  <2>2. crash # "nil" /\ Filled /\ SendsFirstPages
    BY DEF ReplayInit, Filled, SendsFirstPages
  <2>3. \A k \in Providers : OfFirst(k)
    BY DEF ReplayInit, OfFirst
  <2> QED
    BY <2>1, <2>2, <2>3 DEF CInv
<1>2. CInv => SendsFirstPages /\ NeverEnds
  BY DEF CInv, Filled, NeverEnds
<1> QED
  BY <1>1, <1>2, CommandStep, PTL DEF CommandSpec
-----------------------------------------------------------------------------
(* Termination.  The rank of a replay: what each provider has not read yet, *)
(* what it has read and not handed over, then the number of the providers   *)
(* that are merged and how far the merge is.                                *)

Unread(k) == {r \in rows[k] : r.id >= from[k]}
Load(k) == 2 * Len(buffer[k]) + [next |-> 1, send |-> 2, closed |-> 0][prov[k]]
Stage ==
  CASE merge = "idle" -> Len(pData) + 2
    [] merge = "fill" -> Len(pData) - turn + 2
    [] merge = "pick" -> 1
    [] OTHER -> 0

Ranked ==
  /\ \A k \in Providers : IsFiniteSet(Unread(k)) /\ Load(k) \in Nat
  /\ Len(pData) \in Nat /\ Stage \in Nat

GetsOn(k) ==
  \/ Unread(k)' \subseteq Unread(k) /\ Unread(k)' # Unread(k)
  \/ Unread(k)' = Unread(k) /\ Load(k)' < Load(k)
Stays(k) == Unread(k)' = Unread(k) /\ Load(k)' = Load(k)

\* The process ends, or a provider gets on and none falls back, or they stay
\* and the merge gets on.
Progress ==
  \/ crash = "no" /\ crash' # "no"
  \/ crash' = crash /\ (\E k \in Providers : GetsOn(k)) /\ \A k \in Providers : GetsOn(k) \/ Stays(k)
  \/ /\ crash' = crash /\ \A k \in Providers : Stays(k)
     /\ Len(pData') < Len(pData) \/ (Len(pData') = Len(pData) /\ Stage' < Stage)

LEMMA RankFacts == IInv => Ranked
<1> SUFFICES ASSUME IInv PROVE Ranked
  OBVIOUS
<1>0. ReplayTypeOK /\ Stored /\ Merging
  BY DEF IInv
<1>1. ASSUME NEW k \in Providers PROVE IsFiniteSet(Unread(k)) /\ Load(k) \in Nat
  <2>1. IsFiniteSet(rows[k]) /\ Unread(k) \subseteq rows[k]
    BY <1>0 DEF Stored, Unread
  <2>2. IsFiniteSet(Unread(k))
    BY <2>1, FS_Subset
  <2>3. Len(buffer[k]) \in Nat /\ prov[k] \in {"next", "send", "closed"}
    BY <1>0 DEF ReplayTypeOK
  <2> QED
    BY <2>2, <2>3 DEF Load
<1>2. Len(pData) \in Nat /\ turn \in Nat /\ (merge = "fill" => turn <= Len(pData))
  <2>1. pData \in Seq(Providers) /\ turn \in Nat /\ (merge = "fill" => turn \in DOMAIN pData)
    BY <1>0 DEF ReplayTypeOK
  <2> QED
    BY <2>1
<1> QED
  BY <1>1, <1>2 DEF Ranked, Stage

\* A provider gets on, and nothing changes for the others.
LEMMA OneGetsOn ==
  ASSUME ReplayTypeOK, NEW k \in Providers, GetsOn(k), crash' = crash, rows' = rows,
         \A l \in Providers \ {k} : from'[l] = from[l] /\ buffer'[l] = buffer[l] /\ prov'[l] = prov[l]
  PROVE  Progress
<1>1. \A l \in Providers \ {k} : Stays(l)
  BY DEF Stays, Unread, Load
<1> QED
  BY <1>1 DEF Progress

\* The providers stay.
LEMMA MergeGetsOn ==
  ASSUME crash' = crash, rows' = rows, UNCHANGED <<from, buffer, prov>>,
         Len(pData') < Len(pData) \/ (Len(pData') = Len(pData) /\ Stage' < Stage)
  PROVE  Progress
<1>1. \A k \in Providers : Stays(k)
  BY DEF Stays, Unread, Load
<1> QED
  BY <1>1 DEF Progress

LEMMA BufferedGetsOn ==
  ASSUME IInv, rows' = rows, NEW k \in Providers, NextBuffered(k)
  PROVE  Progress
<1>0. ReplayTypeOK
  BY DEF IInv
<1>1. /\ UNCHANGED <<from, crash>> /\ buffer[k] # <<>> /\ prov[k] = "next"
      /\ buffer' = [buffer EXCEPT ![k] = Tail(buffer[k])] /\ prov' = [prov EXCEPT ![k] = "send"]
  BY DEF NextBuffered, Offer
<1>2. buffer[k] \in Seq(Message) /\ Len(Tail(buffer[k])) = Len(buffer[k]) - 1 /\ Len(buffer[k]) \in Nat
  <2>1. buffer[k] \in Seq(Message)
    BY <1>0 DEF ReplayTypeOK
  <2> QED
    BY <1>1, <2>1, HeadTailProperties
<1>3. /\ buffer'[k] = Tail(buffer[k]) /\ prov'[k] = "send"
      /\ \A l \in Providers \ {k} : from'[l] = from[l] /\ buffer'[l] = buffer[l] /\ prov'[l] = prov[l]
  BY <1>0, <1>1 DEF ReplayTypeOK
<1>4. GetsOn(k)
  <2>1. Load(k)' = 2 * Len(buffer'[k]) + 2 /\ Load(k) = 2 * Len(buffer[k]) + 1
    BY <1>1, <1>3 DEF Load
  <2>2. Load(k)' < Load(k)
    BY <1>2, <1>3, <2>1
  <2>3. Unread(k)' = Unread(k)
    BY <1>1 DEF Unread
  <2> QED
    BY <2>2, <2>3 DEF GetsOn
<1> QED
  BY <1>0, <1>1, <1>3, <1>4, OneGetsOn

\* The page has entries that were unread, and the next page begins behind them.
LEMMA PageGetsOn ==
  ASSUME IInv, rows' = rows, NEW k \in Providers, NextPage(k)
  PROVE  Progress
<1>0. ReplayTypeOK /\ Stored
  BY DEF IInv
<1>1. crash' = crash /\ prov[k] = "next" /\ buffer[k] = <<>>
  BY DEF NextPage
<1>2. \A l \in Providers \ {k} : from'[l] = from[l] /\ buffer'[l] = buffer[l] /\ prov'[l] = prov[l]
  BY <1>0 DEF NextPage, Offer, ReplayTypeOK
<1>3. CASE Still /\ prov'[k] = "closed"
  <2>1. from'[k] = from[k] /\ buffer'[k] = buffer[k]
    BY <1>3 DEF Still, Same
  <2>2. Unread(k)' = Unread(k)
    BY <2>1 DEF Unread
  <2>3. Load(k)' = 0 /\ Load(k) = 1
    BY <1>1, <1>3, <2>1 DEF Load
  <2>4. GetsOn(k)
    BY <2>2, <2>3 DEF GetsOn
  <2> QED
    BY <1>0, <1>1, <1>2, <2>4, OneGetsOn
<1>4. ASSUME NEW p \in Seq(Message), FromPage(k, p) PROVE Progress
  <2>1. /\ p # <<>> /\ from[k] \in Nat /\ from'[k] \in Nat /\ from[k] <= from'[k]
        /\ \A i \in DOMAIN p : p[i] \in rows[k] /\ p[i].id >= from[k] /\ p[i].id < from'[k]
    BY <1>0, <1>4 DEF FromPage, Offers, ReplayTypeOK
  <2>2. 1 \in DOMAIN p
    BY <2>1
  <2>3. \A r \in rows[k] : r.id \in Nat
    BY <1>0, MessageFacts DEF Stored
  <2>4. Unread(k)' \subseteq Unread(k)
    BY <2>1, <2>3 DEF Unread
  <2>5. p[1] \in Unread(k) /\ p[1] \notin Unread(k)'
    BY <2>1, <2>2, <2>3 DEF Unread
  <2>6. GetsOn(k)
    BY <2>4, <2>5 DEF GetsOn
  <2> QED
    BY <1>0, <1>1, <1>2, <2>6, OneGetsOn
<1> QED
  BY <1>3, <1>4, PageStep

\* A message that the merge receives leaves its provider.
LEMMA ReceiptGetsOn ==
  ASSUME IInv, rows' = rows, NEW k \in Providers, prov[k] = "send", prov' = [prov EXCEPT ![k] = "next"],
         UNCHANGED <<from, buffer, crash>>
  PROVE  Progress
<1>0. ReplayTypeOK
  BY DEF IInv
<1>1. prov'[k] = "next" /\ \A l \in Providers \ {k} : prov'[l] = prov[l]
  BY <1>0 DEF ReplayTypeOK
<1>2. Load(k)' = 2 * Len(buffer[k]) + 1 /\ Load(k) = 2 * Len(buffer[k]) + 2 /\ Len(buffer[k]) \in Nat
  BY <1>0, <1>1 DEF Load, ReplayTypeOK
<1>3. GetsOn(k)
  BY <1>2 DEF GetsOn, Unread
<1> QED
  BY <1>0, <1>1, <1>3, OneGetsOn

LEMMA FillGetsOn ==
  ASSUME IInv, rows' = rows, Fill
  PROVE  Progress
<1>0. ReplayTypeOK
  BY DEF IInv
<1>1. /\ UNCHANGED <<from, buffer, pData, crash>> /\ merge = "fill" /\ Receive(pData[turn])
      /\ IF turn = Len(pData) THEN merge' = "pick" /\ turn' = 1 ELSE turn' = turn + 1 /\ merge' = merge
  BY DEF Fill
<1>2. turn \in DOMAIN pData /\ pData[turn] \in Providers /\ Len(pData) \in Nat /\ turn \in Nat /\ turn <= Len(pData)
  <2>1. turn \in DOMAIN pData /\ pData \in Seq(Providers)
    BY <1>0, <1>1 DEF ReplayTypeOK
  <2> QED
    BY <2>1
<1>3. CASE prov[pData[turn]] = "send"
  <2>1. prov' = [prov EXCEPT ![pData[turn]] = "next"]
    BY <1>1, <1>3 DEF Receive
  <2> QED
    BY <1>1, <1>2, <1>3, <2>1, ReceiptGetsOn
<1>4. CASE prov[pData[turn]] # "send"
  <2>1. prov' = prov
    BY <1>1, <1>4 DEF Receive
  <2>2. Stage' < Stage
    BY <1>1, <1>2 DEF Stage
  <2> QED
    BY <1>1, <2>1, <2>2, MergeGetsOn
<1> QED
  BY <1>3, <1>4

LEMMA RefillGetsOn ==
  ASSUME IInv, rows' = rows, Refill
  PROVE  Progress
<1>0. ReplayTypeOK
  BY DEF IInv
<1>1. UNCHANGED <<from, buffer, crash>> /\ merge = "refill" /\ Receive(pData[turn])
  BY DEF Refill
<1>2. turn \in DOMAIN pData /\ pData[turn] \in Providers /\ Len(pData) \in Nat /\ Len(pData) > 0
  <2>1. turn \in DOMAIN pData /\ pData \in Seq(Providers)
    BY <1>0, <1>1 DEF ReplayTypeOK
  <2> QED
    BY <2>1
<1>3. CASE prov[pData[turn]] = "send"
  <2>1. prov' = [prov EXCEPT ![pData[turn]] = "next"]
    BY <1>1, <1>3 DEF Receive
  <2> QED
    BY <1>1, <1>2, <1>3, <2>1, ReceiptGetsOn
<1>4. CASE prov[pData[turn]] # "send"
  <2>1. prov' = prov /\ pData' = Without(turn)
    BY <1>1, <1>4 DEF Receive, Refill
  <2>2. Len(pData') < Len(pData)
    <3>1. Len(pData') = Len(pData) - 1
      BY <1>0, <1>2, <2>1, WithoutFacts DEF ReplayTypeOK
    <3> QED
      BY <1>2, <3>1
  <2> QED
    BY <1>1, <2>1, <2>2, MergeGetsOn
<1> QED
  BY <1>3, <1>4

LEMMA StepGetsOn ==
  ASSUME IInv, ReplayNext
  PROVE  Progress
<1>0. ReplayTypeOK /\ Merging /\ rows' = rows
  BY DEF IInv, ReplayNext
<1>1. CASE StartReplay
  <2>1. /\ UNCHANGED <<from, buffer, prov, pData, turn, crash>> /\ merge = "idle" /\ merge' = "fill"
    BY <1>1 DEF StartReplay
  <2>2. turn = 1 /\ Len(pData) \in Nat
    BY <1>0, <2>1 DEF Merging, ReplayTypeOK
  <2>3. Stage' < Stage
    BY <2>1, <2>2 DEF Stage
  <2> QED
    BY <1>0, <2>1, <2>3, MergeGetsOn
<1>2. CASE PickNil \/ \E k \in Providers : LoadFails(k)
  BY <1>2 DEF PickNil, LoadFails, Running, Progress
<1>3. CASE Pick
  <2>1. UNCHANGED <<from, buffer, prov, pData, crash>> /\ merge = "pick" /\ merge' = "refill"
    BY <1>3 DEF Pick
  <2>2. Stage' < Stage
    BY <2>1 DEF Stage
  <2> QED
    BY <1>0, <2>1, <2>2, MergeGetsOn
<1> QED
  BY <1>0, <1>1, <1>2, <1>3, BufferedGetsOn, PageGetsOn, FillGetsOn, RefillGetsOn DEF ReplayNext, ReplayStep

(***************************************************************************)
(* The recomputation takes finitely many steps, whatever is stored and     *)
(* however its goroutines interleave: every step lowers a rank that cannot *)
(* fall for ever.  It rests on the next page beginning behind the last     *)
(* one, which is what the loaders of the replay command lack.              *)
(***************************************************************************)
THEOREM ReplayTerminates == AnalysisSpec => []Ranked /\ [][Progress]_<<rows, replayVars>>
<1>1. IInv /\ [ReplayNext]_<<rows, replayVars>> => [Progress]_<<rows, replayVars>>
  BY StepGetsOn
<1> QED
  BY Always, RankFacts, <1>1, PTL DEF AnalysisSpec

\* Nobody waits for somebody that waits: a goroutine can go on, but for the
\* database, or all have returned.
SomebodyGoesOn ==
  \/ Returned
  \/ \E k \in Providers : prov[k] = "next"
  \/ merge = "pick"
  \/ merge \in {"fill", "refill"} /\ prov[pData[turn]] \in {"send", "closed"}

LEMMA InvGoesOn == IInv /\ Running => SomebodyGoesOn
<1> SUFFICES ASSUME IInv, Running PROVE SomebodyGoesOn
  OBVIOUS
<1>0. ReplayTypeOK /\ Merging /\ \A k \in Providers : Closed(k)
  BY DEF IInv
<1>1. CASE merge = "done"
  <2>1. Merged = {}
    BY <1>0, <1>1 DEF Merging, Merged
  <2>2. \A k \in Providers : prov[k] = "closed"
    BY <1>0, <2>1 DEF Closed
  <2> QED
    BY <1>1, <2>2 DEF SomebodyGoesOn, Returned
<1>2. CASE merge \in {"fill", "refill"}
  <2>1. pData[turn] \in Providers
    BY <1>0, <1>2 DEF ReplayTypeOK
  <2>2. prov[pData[turn]] \in {"next", "send", "closed"}
    BY <1>0, <2>1 DEF ReplayTypeOK
  <2> QED
    BY <1>2, <2>1, <2>2 DEF SomebodyGoesOn
<1> QED
  BY <1>0, <1>1, <1>2 DEF SomebodyGoesOn, Running, ReplayTypeOK

(***************************************************************************)
(* The goroutines of a replay that runs never all wait for each other on   *)
(* their unbuffered channels, and when the merge is done every provider    *)
(* has closed its channel: none is left behind.                            *)
(***************************************************************************)
THEOREM NeverStuck == AnalysisSpec => [](Running => SomebodyGoesOn)
BY Always, InvGoesOn, PTL
=============================================================================
