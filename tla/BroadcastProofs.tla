-------------------------- MODULE BroadcastProofs --------------------------
(***************************************************************************)
(* Proofs about the broadcast server for any number of clients, producers  *)
(* and messages.                                                           *)
(***************************************************************************)
EXTENDS Broadcast, TLAPS

\* Cutting one element out of a sequence, the effect of
\* append(listeners[:i], listeners[i+1:]...).
LEMMA RemoveAtFacts ==
  ASSUME NEW S, NEW s \in Seq(S), NEW i \in DOMAIN s
  PROVE  /\ RemoveAt(s, i) \in Seq(S)
         /\ Len(RemoveAt(s, i)) = Len(s) - 1
         /\ \A j \in 1 .. (Len(s) - 1) :
              RemoveAt(s, i)[j] = IF j < i THEN s[j] ELSE s[j + 1]
<1> DEFINE a == SubSeq(s, 1, i - 1)
           b == SubSeq(s, i + 1, Len(s))
<1>1. i \in 1 .. Len(s) /\ Len(s) \in Nat /\ \A j \in 1 .. Len(s) : s[j] \in S
  OBVIOUS
<1>2. a \in Seq(S) /\ Len(a) = i - 1 /\ \A j \in 1 .. (i - 1) : a[j] = s[j]
  BY <1>1
<1>3. b \in Seq(S) /\ Len(b) = Len(s) - i
      /\ \A j \in 1 .. (Len(s) - i) : b[j] = s[i + j]
  BY <1>1
<1> HIDE DEF a, b
<1>4. a \o b \in Seq(S) /\ Len(a \o b) = Len(s) - 1
  BY <1>1, <1>2, <1>3
<1>5. \A j \in 1 .. (Len(s) - 1) :
        (a \o b)[j] = IF j < i THEN a[j] ELSE b[j - (i - 1)]
  BY <1>1, <1>2, <1>3
<1>6. \A j \in 1 .. (Len(s) - 1) :
        (a \o b)[j] = IF j < i THEN s[j] ELSE s[j + 1]
  <2> TAKE j \in 1 .. (Len(s) - 1)
  <2>1. CASE j < i
    BY <2>1, <1>1, <1>2, <1>5
  <2>2. CASE ~(j < i)
    <3>1. j - (i - 1) \in 1 .. (Len(s) - i) /\ i + (j - (i - 1)) = j + 1
      BY <2>2, <1>1
    <3>2. b[j - (i - 1)] = s[j + 1]
      BY <3>1, <1>3
    <3>3. (a \o b)[j] = b[j - (i - 1)]
      BY <2>2, <1>5
    <3>4. QED
      BY <2>2, <3>2, <3>3
  <2>3. QED
    BY <2>1, <2>2
<1>7. RemoveAt(s, i) = a \o b
  BY DEF RemoveAt, a, b
<1>8. QED
  BY <1>4, <1>6, <1>7

\* A delivered message is added to the messages a client got.
LEMMA RangeAppend ==
  ASSUME NEW s \in Seq(Nat), NEW x \in Nat
  PROVE  Range(Append(s, x)) = Range(s) \cup {x}
<1> DEFINE t == Append(s, x)
<1>1. DOMAIN t = 1 .. (Len(s) + 1) /\ DOMAIN s = 1 .. Len(s)
  OBVIOUS
<1>2. \A j \in 1 .. Len(s) : t[j] = s[j]
  OBVIOUS
<1>3. t[Len(s) + 1] = x
  OBVIOUS
<1>4. QED
  BY <1>1, <1>2, <1>3 DEF Range

\* The variables have their types initially.
LEMMA InitType == Init => TypeOK
<1> SUFFICES ASSUME Init PROVE TypeOK
  OBVIOUS
<1>1. listeners \in Seq(Clients) /\ rcvd \in [Clients -> Seq(Nat)]
  BY DEF Init
<1>2. missed \in [Clients -> SUBSET Nat] /\ joinedAt \in [Clients -> Nat]
  BY DEF Init
<1>3. /\ chan \in [Clients -> {"none", "open", "closed"}]
      /\ sub \in [Clients -> {"none", "calling", "subscribed"}]
      /\ cancel \in [Clients -> {"none", "calling", "callingNil", "returned"}]
      /\ reader \in [Clients -> {"off", "busy", "ready", "ended"}]
      /\ prod \in [Producers -> {"idle", "sending"}]
  BY DEF Init
<1>4. ctxDone \in BOOLEAN /\ panic \in BOOLEAN
  BY Zenon DEF Init
<1>5. /\ serve = "select" /\ pos = 1 /\ published = 0
      /\ numRcv = 0 /\ numSnd = 0 /\ numSkip = 0
  BY Zenon DEF Init
<1>6. pos \in Nat \ {0} /\ published \in Nat
      /\ numRcv \in Nat /\ numSnd \in Nat /\ numSkip \in Nat
  BY <1>5
<1>7. QED
  BY <1>1, <1>2, <1>3, <1>4, <1>5, <1>6 DEF TypeOK

\* Every step of the server or of a caller keeps the types.
LEMMA StepType == TypeOK /\ [Next]_vars => TypeOK'
<1> SUFFICES ASSUME TypeOK, [Next]_vars PROVE TypeOK'
  OBVIOUS
<1> USE DEF TypeOK, clientVars, historyVars, counters
<1>1. ASSUME NEW c \in Clients, Subscribe(c) PROVE TypeOK'
  BY <1>1 DEF Subscribe
<1>2. ASSUME NEW c \in Clients, CancelSubscription(c) PROVE TypeOK'
  BY <1>2 DEF CancelSubscription
<1>3. ASSUME NEW p \in Producers, Publish(p) PROVE TypeOK'
  BY <1>3 DEF Publish
<1>4. CASE Close
  BY <1>4 DEF Close
<1>5. ASSUME NEW c \in Clients, ReaderReady(c) PROVE TypeOK'
  BY <1>5 DEF ReaderReady
<1>6. ASSUME NEW c \in Clients, ReaderQuit(c) PROVE TypeOK'
  BY <1>6 DEF ReaderQuit
<1>7. ASSUME NEW c \in Clients, ReaderEnd(c) PROVE TypeOK'
  BY <1>7 DEF ReaderEnd
<1>8. ASSUME NEW c \in Clients, AddListener(c) PROVE TypeOK'
  BY <1>8 DEF AddListener
<1>9. ASSUME NEW c \in Clients, RemoveListener(c) PROVE TypeOK'
  BY <1>9, RemoveAtFacts DEF RemoveListener
<1>10. ASSUME NEW c \in Clients, RemoveUnknown(c) PROVE TypeOK'
  BY <1>10 DEF RemoveUnknown
<1>11. ASSUME NEW p \in Producers, Receive(p) PROVE TypeOK'
  BY <1>11 DEF Receive
<1>12. ASSUME NEW c \in Clients, Deliver(c) PROVE TypeOK'
  BY <1>12 DEF Deliver
<1>13. ASSUME NEW c \in Clients, Skip(c) PROVE TypeOK'
  BY <1>13 DEF Skip
<1>14. CASE FanoutDone
  BY <1>14 DEF FanoutDone
<1>15. CASE ServeReturn
  BY <1>15 DEF ServeReturn
<1>16. CASE UNCHANGED vars
  BY <1>16 DEF vars
<1>17. QED
  BY <1>1, <1>2, <1>3, <1>4, <1>5, <1>6, <1>7, <1>8, <1>9, <1>10, <1>11,
     <1>12, <1>13, <1>14, <1>15, <1>16 DEF Next, ServeStep, CallerStep

\* The variables of the server, its callers and its counters keep their types.
THEOREM TypeCorrect == Spec => []TypeOK
  BY InitType, StepType, PTL DEF Spec

-----------------------------------------------------------------------------
\* Nobody is registered and nothing was delivered initially.
LEMMA InitInv == Init => IInv
<1> SUFFICES ASSUME Init PROVE IInv
  OBVIOUS
<1>1. TypeOK
  BY InitType
<1>2. NoPanic
  BY Zenon DEF Init, NoPanic
<1>3. \A c \in Clients : ~Registered(c) /\ Offered(c) = 0
  BY DEF Init, Registered, Pending, Offered
<1>4. \A c \in Clients : rcvd[c] = <<>> /\ missed[c] = {} /\ joinedAt[c] = 0
  BY DEF Init
<1>5. Distinct
  BY DEF Init, Distinct
<1>6. Lifecycle
  BY <1>3, <1>4 DEF Init, Lifecycle
<1>7. Bounds /\ InOrder /\ Accounted
  BY <1>3, <1>4 DEF Bounds, InOrder, Accounted
<1>8. QED
  BY <1>1, <1>2, <1>5, <1>6, <1>7 DEF IInv

\* The steps of the callers that only move program counters.
LEMMA FrameInv ==
  ASSUME IInv, TypeOK',
         UNCHANGED <<serve, listeners, pos, chan, sub, numRcv, panic, rcvd,
                     missed, joinedAt>>
  PROVE  IInv'
<1>1. \A c \in Clients : /\ Registered(c)' = Registered(c)
                         /\ Offered(c)' = Offered(c)
  BY DEF Registered, Pending, Offered
<1>2. NoPanic' /\ Distinct' /\ InOrder'
  BY DEF IInv, NoPanic, Distinct, InOrder
<1>3. Lifecycle'
  BY <1>1 DEF IInv, Lifecycle
<1>4. Bounds' /\ Accounted'
  BY <1>1 DEF IInv, Bounds, Accounted
<1>5. QED
  BY <1>2, <1>3, <1>4 DEF IInv

\* Subscribe only makes a channel.
LEMMA SubscribeInv ==
  ASSUME IInv, TypeOK', NEW c \in Clients, Subscribe(c)
  PROVE  IInv'
<1> USE DEF Subscribe, historyVars, counters
<1>1. \A d \in Clients : /\ Registered(d)' = Registered(d)
                         /\ Offered(d)' = Offered(d)
  BY DEF Registered, Pending, Offered
<1>2. NoPanic' /\ Distinct' /\ InOrder'
  BY DEF IInv, NoPanic, Distinct, InOrder
<1>3. Lifecycle'
  BY <1>1 DEF IInv, Lifecycle, TypeOK
<1>4. Bounds' /\ Accounted'
  BY <1>1 DEF IInv, Bounds, Accounted
<1>5. QED
  BY <1>2, <1>3, <1>4 DEF IInv

\* The new listener is appended to the slice; it owes nothing and is owed nothing.
LEMMA AddListenerInv ==
  ASSUME IInv, TypeOK', NEW c \in Clients, AddListener(c)
  PROVE  IInv'
<1> USE DEF AddListener, counters
<1>1. /\ TypeOK /\ serve = "select" /\ serve' = "select" /\ numRcv' = numRcv
      /\ ~Registered(c) /\ rcvd[c] = <<>> /\ missed[c] = {}
  BY DEF IInv, Lifecycle
<1>2. /\ DOMAIN listeners' = 1 .. (Len(listeners) + 1)
      /\ DOMAIN listeners = 1 .. Len(listeners) /\ Len(listeners) \in Nat
      /\ listeners'[Len(listeners) + 1] = c
      /\ \A i \in 1 .. Len(listeners) : listeners'[i] = listeners[i]
  BY <1>1 DEF TypeOK
<1>3. \A d \in Clients : /\ Registered(d)' <=> (Registered(d) \/ d = c)
                         /\ Offered(d)' = numRcv /\ Offered(d) = numRcv
  BY <1>1, <1>2 DEF Registered, Pending, Offered
<1>4. NoPanic'
  BY DEF IInv, NoPanic
<1>5. Distinct'
  BY <1>1, <1>2 DEF IInv, Distinct, Registered
<1>6. Lifecycle'
  BY <1>1, <1>3 DEF IInv, Lifecycle, TypeOK
<1>7. Bounds'
  <2>1. \A d \in Clients : joinedAt'[d] = (IF d = c THEN numRcv ELSE joinedAt[d])
    BY <1>1 DEF TypeOK
  <2>2. numRcv <= numRcv
    BY <1>1 DEF TypeOK
  <2>3. rcvd' = rcvd /\ \A d \in Clients : Offered(d)' = numRcv
    BY <1>3
  <2>4. \A d \in Clients : /\ joinedAt[d] <= numRcv
                           /\ \A i \in DOMAIN rcvd[d] : rcvd[d][i] <= numRcv
    BY <1>3 DEF IInv, Bounds
  <2> HIDE DEF AddListener
  <2>5. QED
    BY <2>1, <2>2, <2>3, <2>4 DEF Bounds
<1>8. InOrder'
  <2>1. rcvd' = rcvd /\ \A d \in Clients : d # c => joinedAt'[d] = joinedAt[d]
    BY <1>1 DEF TypeOK
  <2>2. InOrder /\ DOMAIN rcvd[c] = {}
    BY <1>1 DEF IInv
  <2> HIDE DEF AddListener
  <2> QED
    BY <2>1, <2>2 DEF InOrder
<1>9. Accounted'
  <2> SUFFICES ASSUME NEW d \in Clients, Registered(d)'
               PROVE  /\ Range(rcvd[d])' \cup missed'[d]
                            = (joinedAt'[d] + 1) .. Offered(d)'
                      /\ Range(rcvd[d])' \cap missed'[d] = {}
    BY DEF Accounted
  <2>1. CASE d = c
    <3>1. Range(rcvd[c]) = {}
      BY <1>1 DEF Range
    <3>2. joinedAt'[c] = numRcv
      BY <1>1 DEF TypeOK
    <3>3. (numRcv + 1) .. numRcv = {}
      BY <1>1 DEF TypeOK
    <3>4. QED
      BY <2>1, <1>1, <1>3, <3>1, <3>2, <3>3
  <2>2. CASE d # c
    BY <2>2, <1>1, <1>3 DEF IInv, Accounted, TypeOK
  <2>3. QED
    BY <2>1, <2>2
<1>10. QED
  BY <1>4, <1>5, <1>6, <1>7, <1>8, <1>9 DEF IInv

\* The channel is closed and leaves the slice in the same step.
LEMMA RemoveListenerInv ==
  ASSUME IInv, TypeOK', NEW c \in Clients, RemoveListener(c)
  PROVE  IInv'
<1> USE DEF historyVars, counters
<1>1. PICK k \in DOMAIN listeners : /\ listeners[k] = c
                                    /\ listeners' = RemoveAt(listeners, k)
                                    /\ chan' = [chan EXCEPT ![c] = "closed"]
                                    /\ panic' = (panic \/ chan[c] = "closed")
  BY DEF RemoveListener
<1>2. /\ TypeOK /\ serve = "select" /\ serve' = "select" /\ numRcv' = numRcv
      /\ sub' = sub /\ rcvd' = rcvd /\ missed' = missed /\ joinedAt' = joinedAt
  BY DEF IInv, RemoveListener
<1>3. /\ DOMAIN listeners = 1 .. Len(listeners) /\ Len(listeners) \in Nat
      /\ DOMAIN listeners' = 1 .. (Len(listeners) - 1)
      /\ \A i \in 1 .. (Len(listeners) - 1) :
           listeners'[i] = IF i < k THEN listeners[i] ELSE listeners[i + 1]
  <2>1. listeners \in Seq(Clients) /\ listeners' \in Seq(Clients)
    BY <1>2 DEF TypeOK
  <2>2. /\ Len(listeners') = Len(listeners) - 1
        /\ \A i \in 1 .. (Len(listeners) - 1) :
             listeners'[i] = IF i < k THEN listeners[i] ELSE listeners[i + 1]
    BY <2>1, <1>1, RemoveAtFacts
  <2>3. QED
    BY <2>1, <2>2
<1>4. Registered(c) /\ sub[c] = "subscribed" /\ chan[c] = "open"
  <2>1. Registered(c)
    BY <1>1 DEF Registered
  <2>2. QED
    BY <2>1, <1>2 DEF IInv, Lifecycle, TypeOK
<1>5. Distinct'
  <2> SUFFICES ASSUME NEW i \in DOMAIN listeners', NEW j \in DOMAIN listeners',
                      listeners'[i] = listeners'[j]
               PROVE  i = j
    BY DEF Distinct
  <2> DEFINE old(n) == IF n < k THEN n ELSE n + 1
  <2>1. /\ old(i) \in DOMAIN listeners /\ listeners'[i] = listeners[old(i)]
        /\ old(j) \in DOMAIN listeners /\ listeners'[j] = listeners[old(j)]
    BY <1>1, <1>3
  <2>2. old(i) = old(j)
    BY <2>1 DEF IInv, Distinct
  <2>3. QED
    BY <2>2, <1>1, <1>3
<1>6. \A d \in Clients : Registered(d)' <=> (Registered(d) /\ d # c)
  <2> TAKE d \in Clients
  <2>1. ASSUME Registered(d)' PROVE Registered(d) /\ d # c
    <3>1. PICK i \in DOMAIN listeners' : listeners'[i] = d
      BY <2>1 DEF Registered
    <3> DEFINE o == IF i < k THEN i ELSE i + 1
    <3>2. o \in DOMAIN listeners /\ o # k /\ listeners[o] = d
      BY <3>1, <1>1, <1>3
    <3>3. QED
      BY <3>2, <1>1 DEF IInv, Distinct, Registered
  <2>2. ASSUME Registered(d), d # c PROVE Registered(d)'
    <3>1. PICK o \in DOMAIN listeners : listeners[o] = d
      BY <2>2 DEF Registered
    <3> DEFINE i == IF o < k THEN o ELSE o - 1
    <3>2. o # k /\ i \in DOMAIN listeners' /\ listeners'[i] = d
      BY <3>1, <2>2, <1>1, <1>3
    <3>3. QED
      BY <3>2 DEF Registered
  <2>3. QED
    BY <2>1, <2>2
<1>7. \A d \in Clients : Offered(d)' = Offered(d)
  BY <1>2 DEF Offered, Pending
<1>8. NoPanic'
  <2>1. chan[c] # "closed"
    BY <1>4
  <2>2. QED
    BY Zenon, <1>1, <2>1 DEF IInv, NoPanic
<1>9. Lifecycle'
  <2>1. \A d \in Clients : chan'[d] = IF d = c THEN "closed" ELSE chan[d]
    BY <1>1, <1>2 DEF TypeOK
  <2>2. QED
    BY <2>1, <1>2, <1>4, <1>6 DEF IInv, Lifecycle
<1>10. Bounds' /\ InOrder' /\ Accounted'
  BY <1>2, <1>6, <1>7 DEF IInv, Bounds, InOrder, Accounted
<1>11. QED
  BY <1>5, <1>8, <1>9, <1>10 DEF IInv

\* With a new message every registered listener is owed exactly that message.
LEMMA ReceiveInv ==
  ASSUME IInv, TypeOK', NEW p \in Producers, Receive(p)
  PROVE  IInv'
<1>1. /\ TypeOK /\ serve = "select" /\ serve' = "fanout" /\ pos' = 1
      /\ numRcv' = numRcv + 1 /\ listeners' = listeners /\ chan' = chan
      /\ sub' = sub /\ rcvd' = rcvd /\ missed' = missed /\ joinedAt' = joinedAt
      /\ panic' = panic
  BY DEF IInv, Receive, clientVars, historyVars
<1>2. DOMAIN listeners = 1 .. Len(listeners) /\ numRcv \in Nat
  BY <1>1 DEF TypeOK
<1>3. \A d \in Clients : /\ Registered(d)' = Registered(d)
                         /\ Offered(d) = numRcv
                         /\ Registered(d) => Offered(d)' = numRcv
                         /\ Offered(d)' >= numRcv /\ Offered(d)' \in Nat
  BY <1>1, <1>2 DEF Registered, Offered, Pending
<1>4. NoPanic' /\ Distinct' /\ InOrder'
  BY <1>1 DEF IInv, NoPanic, Distinct, InOrder
<1>5. Lifecycle'
  BY <1>1, <1>3 DEF IInv, Lifecycle
<1>6. Bounds'
  <2> SUFFICES ASSUME NEW d \in Clients
               PROVE  /\ joinedAt[d] <= Offered(d)'
                      /\ \A i \in DOMAIN rcvd[d] : rcvd[d][i] <= Offered(d)'
    BY <1>1 DEF Bounds
  <2>1. joinedAt[d] \in Nat /\ \A i \in DOMAIN rcvd[d] : rcvd[d][i] \in Nat
    BY <1>1 DEF TypeOK
  <2>2. joinedAt[d] <= numRcv /\ \A i \in DOMAIN rcvd[d] : rcvd[d][i] <= numRcv
    BY <1>3 DEF IInv, Bounds
  <2>3. Offered(d)' >= numRcv /\ Offered(d)' \in Nat
    BY <1>3
  <2>4. QED
    BY <2>1, <2>2, <2>3, <1>2
<1>7. Accounted'
  BY <1>1, <1>3 DEF IInv, Accounted
<1>8. QED
  BY <1>4, <1>5, <1>6, <1>7 DEF IInv

\* Whom the fan-out still owes the message after it visited one listener.
LEMMA VisitFacts ==
  ASSUME IInv, TypeOK', NEW c \in Clients,
         serve = "fanout", pos \in DOMAIN listeners, listeners[pos] = c,
         pos' = pos + 1, UNCHANGED <<serve, listeners, numRcv>>
  PROVE  /\ numRcv \in Nat /\ Registered(c)
         /\ Offered(c) = numRcv - 1 /\ Offered(c)' = numRcv
         /\ \A d \in Clients : Registered(d)' = Registered(d)
         /\ \A d \in Clients \ {c} : Offered(d)' = Offered(d)
<1>1. /\ TypeOK /\ Distinct
      /\ DOMAIN listeners = 1 .. Len(listeners) /\ Len(listeners) \in Nat
      /\ pos \in Nat /\ numRcv \in Nat
  <2>1. TypeOK /\ Distinct
    BY DEF IInv
  <2>2. listeners \in Seq(Clients) /\ pos \in Nat /\ numRcv \in Nat
    BY <2>1 DEF TypeOK
  <2> QED
    BY <2>1, <2>2
<1>2. Pending(c) /\ Registered(c)
  <2>1. pos >= pos
    BY <1>1
  <2> QED
    BY <2>1 DEF Pending, Registered
<1>3. ~Pending(c)'
  <2> SUFFICES ASSUME NEW i \in DOMAIN listeners, i >= pos + 1, listeners[i] = c
               PROVE  FALSE
    BY DEF Pending
  <2>1. i = pos
    BY <1>1 DEF Distinct
  <2>2. QED
    BY <2>1, <1>1
<1>4. \A d \in Clients \ {c} : Pending(d)' = Pending(d)
  <2> TAKE d \in Clients \ {c}
  <2>1. \A i \in DOMAIN listeners :
          listeners[i] = d => (i >= pos <=> i >= pos + 1)
    BY <1>1
  <2>2. QED
    BY <2>1 DEF Pending
<1>5. \A d \in Clients : Registered(d)' = Registered(d)
  BY DEF Registered
<1>6. QED
  BY <1>1, <1>2, <1>3, <1>4, <1>5 DEF Offered

\* A delivery settles what the listener is owed, and keeps the order.
LEMMA DeliverInv ==
  ASSUME IInv, TypeOK', NEW c \in Clients, Deliver(c)
  PROVE  IInv'
<1>1. /\ TypeOK /\ serve = "fanout" /\ pos \in DOMAIN listeners
      /\ listeners[pos] = c /\ pos' = pos + 1
      /\ UNCHANGED <<serve, listeners, numRcv, chan, sub, missed, joinedAt>>
      /\ panic' = (panic \/ chan[c] = "closed")
  BY DEF IInv, Deliver
<1>2. /\ numRcv \in Nat /\ Registered(c)
      /\ Offered(c) = numRcv - 1 /\ Offered(c)' = numRcv
      /\ \A d \in Clients : Registered(d)' = Registered(d)
      /\ \A d \in Clients \ {c} : Offered(d)' = Offered(d)
  BY <1>1, VisitFacts
<1>3. /\ sub[c] = "subscribed" /\ chan[c] = "open"
      /\ joinedAt[c] \in Nat /\ joinedAt[c] <= numRcv - 1
      /\ rcvd[c] \in Seq(Nat)
      /\ \A i \in DOMAIN rcvd[c] : rcvd[c][i] <= numRcv - 1
  <2>1. rcvd[c] \in Seq(Nat) /\ joinedAt[c] \in Nat
    BY <1>1 DEF TypeOK
  <2>2. sub[c] = "subscribed" /\ chan[c] = "open"
    BY <1>1, <1>2 DEF IInv, Lifecycle, TypeOK
  <2>3. QED
    BY <1>2, <2>1, <2>2 DEF IInv, Bounds
<1>4. /\ rcvd'[c] = Append(rcvd[c], numRcv)
      /\ \A d \in Clients \ {c} : rcvd'[d] = rcvd[d]
  BY <1>1 DEF Deliver, TypeOK
<1>5. /\ DOMAIN rcvd'[c] = 1 .. (Len(rcvd[c]) + 1)
      /\ DOMAIN rcvd[c] = 1 .. Len(rcvd[c]) /\ Len(rcvd[c]) \in Nat
      /\ rcvd'[c][Len(rcvd[c]) + 1] = numRcv
      /\ \A i \in 1 .. Len(rcvd[c]) : rcvd'[c][i] = rcvd[c][i] /\ rcvd[c][i] \in Nat
  BY <1>2, <1>3, <1>4
<1>6. NoPanic'
  <2>1. chan[c] # "closed"
    BY <1>3
  <2>2. QED
    BY Zenon, <1>1, <2>1 DEF IInv, NoPanic
<1>7. Distinct'
  BY <1>1 DEF IInv, Distinct
<1>8. Lifecycle'
  BY <1>1, <1>2, <1>3, <1>4 DEF IInv, Lifecycle
<1>9. Bounds'
  <2> SUFFICES ASSUME NEW d \in Clients
               PROVE  /\ joinedAt[d] <= Offered(d)'
                      /\ \A i \in DOMAIN rcvd'[d] : rcvd'[d][i] <= Offered(d)'
    BY <1>1 DEF Bounds
  <2>1. CASE d = c
    <3>1. Offered(c)' = numRcv /\ numRcv \in Nat
      BY <1>2
    <3>2. joinedAt[c] <= numRcv
      BY <1>3, <3>1
    <3>3. ASSUME NEW i \in DOMAIN rcvd'[c] PROVE rcvd'[c][i] <= numRcv
      <4>1. CASE i = Len(rcvd[c]) + 1
        BY <4>1, <1>5, <3>1
      <4>2. CASE i # Len(rcvd[c]) + 1
        <5>1. i \in 1 .. Len(rcvd[c]) /\ i \in DOMAIN rcvd[c]
          BY <4>2, <1>5
        <5>2. rcvd'[c][i] = rcvd[c][i] /\ rcvd[c][i] \in Nat /\ rcvd[c][i] <= numRcv - 1
          BY <1>3, <1>5, <5>1
        <5>3. QED
          BY <3>1, <5>2
      <4>3. QED
        BY <4>1, <4>2
    <3>4. QED
      BY <2>1, <1>2, <3>1, <3>2, <3>3
  <2>2. CASE d # c
    BY <2>2, <1>2, <1>4 DEF IInv, Bounds
  <2>3. QED
    BY <2>1, <2>2
<1>10. InOrder'
  <2> SUFFICES ASSUME NEW d \in Clients
               PROVE  /\ \A i \in DOMAIN rcvd'[d] : rcvd'[d][i] > joinedAt[d]
                      /\ \A i, j \in DOMAIN rcvd'[d] :
                           i < j => rcvd'[d][i] < rcvd'[d][j]
    BY <1>1 DEF InOrder
  <2>1. /\ \A i \in DOMAIN rcvd[d] : rcvd[d][i] > joinedAt[d]
        /\ \A i, j \in DOMAIN rcvd[d] : i < j => rcvd[d][i] < rcvd[d][j]
    BY DEF IInv, InOrder
  <2>2. CASE d = c
    <3>1. ASSUME NEW i \in DOMAIN rcvd'[c] PROVE rcvd'[c][i] > joinedAt[c]
      <4>1. CASE i = Len(rcvd[c]) + 1
        BY <4>1, <1>2, <1>3, <1>5
      <4>2. CASE i # Len(rcvd[c]) + 1
        <5>1. i \in 1 .. Len(rcvd[c])
          BY <4>2, <1>5
        <5>2. QED
          BY <5>1, <2>1, <2>2, <1>5
      <4>3. QED
        BY <4>1, <4>2
    <3>2. ASSUME NEW i \in DOMAIN rcvd'[c], NEW j \in DOMAIN rcvd'[c], i < j
          PROVE  rcvd'[c][i] < rcvd'[c][j]
      <4>1. i \in 1 .. Len(rcvd[c]) /\ rcvd'[c][i] = rcvd[c][i]
        BY <3>2, <1>5
      <4>2. CASE j = Len(rcvd[c]) + 1
        BY <4>1, <4>2, <1>2, <1>3, <1>5
      <4>3. CASE j # Len(rcvd[c]) + 1
        <5>1. j \in 1 .. Len(rcvd[c])
          BY <4>3, <1>5
        <5>2. QED
          BY <5>1, <4>1, <3>2, <2>1, <2>2, <1>5
      <4>4. QED
        BY <4>2, <4>3
    <3>3. QED
      BY <2>2, <3>1, <3>2
  <2>3. CASE d # c
    BY <2>1, <2>3, <1>4
  <2>4. QED
    BY <2>2, <2>3
<1>11. Accounted'
  <2> SUFFICES ASSUME NEW d \in Clients, Registered(d)
               PROVE  /\ Range(rcvd'[d]) \cup missed[d]
                            = (joinedAt[d] + 1) .. Offered(d)'
                      /\ Range(rcvd'[d]) \cap missed[d] = {}
    BY <1>1, <1>2 DEF Accounted
  <2>1. /\ Range(rcvd[d]) \cup missed[d] = (joinedAt[d] + 1) .. Offered(d)
        /\ Range(rcvd[d]) \cap missed[d] = {}
    BY DEF IInv, Accounted
  <2>2. CASE d = c
    <3>1. Range(rcvd'[c]) = Range(rcvd[c]) \cup {numRcv}
      BY <1>2, <1>3, <1>4, RangeAppend
    <3>2. (joinedAt[c] + 1) .. numRcv = ((joinedAt[c] + 1) .. (numRcv - 1)) \cup {numRcv}
      BY <1>2, <1>3
    <3>3. numRcv \notin (joinedAt[c] + 1) .. (numRcv - 1)
      BY <1>2, <1>3
    <3>4. QED
      BY <2>1, <2>2, <3>1, <3>2, <3>3, <1>2
  <2>3. CASE d # c
    BY <2>1, <2>3, <1>2, <1>4
  <2>4. QED
    BY <2>2, <2>3
<1>12. QED
  BY <1>6, <1>7, <1>8, <1>9, <1>10, <1>11 DEF IInv

\* A skipped message is accounted for as missed.
LEMMA SkipInv ==
  ASSUME IInv, TypeOK', NEW c \in Clients, Skip(c)
  PROVE  IInv'
<1>1. /\ TypeOK /\ serve = "fanout" /\ pos \in DOMAIN listeners
      /\ listeners[pos] = c /\ pos' = pos + 1
      /\ UNCHANGED <<serve, listeners, numRcv, chan, sub, rcvd, joinedAt, panic>>
  BY DEF IInv, Skip, clientVars
<1>2. /\ numRcv \in Nat /\ Registered(c)
      /\ Offered(c) = numRcv - 1 /\ Offered(c)' = numRcv
      /\ \A d \in Clients : Registered(d)' = Registered(d)
      /\ \A d \in Clients \ {c} : Offered(d)' = Offered(d)
  BY <1>1, VisitFacts
<1>3. /\ sub[c] = "subscribed"
      /\ joinedAt[c] \in Nat /\ joinedAt[c] <= numRcv - 1
      /\ \A i \in DOMAIN rcvd[c] : rcvd[c][i] \in Nat /\ rcvd[c][i] <= numRcv - 1
  <2>1. joinedAt[c] \in Nat /\ \A i \in DOMAIN rcvd[c] : rcvd[c][i] \in Nat
    BY <1>1 DEF TypeOK
  <2>2. sub[c] = "subscribed"
    BY <1>1, <1>2 DEF IInv, Lifecycle, TypeOK
  <2>3. QED
    BY <1>2, <2>1, <2>2 DEF IInv, Bounds
<1>4. /\ missed'[c] = missed[c] \cup {numRcv}
      /\ \A d \in Clients \ {c} : missed'[d] = missed[d]
  BY <1>1 DEF Skip, TypeOK
<1>5. NoPanic' /\ Distinct' /\ InOrder'
  BY <1>1 DEF IInv, NoPanic, Distinct, InOrder
<1>6. Lifecycle'
  BY <1>1, <1>2, <1>3, <1>4 DEF IInv, Lifecycle
<1>7. Bounds'
  <2> SUFFICES ASSUME NEW d \in Clients
               PROVE  /\ joinedAt[d] <= Offered(d)'
                      /\ \A i \in DOMAIN rcvd[d] : rcvd[d][i] <= Offered(d)'
    BY <1>1 DEF Bounds
  <2>1. CASE d = c
    BY <2>1, <1>2, <1>3
  <2>2. CASE d # c
    BY <2>2, <1>2 DEF IInv, Bounds
  <2>3. QED
    BY <2>1, <2>2
<1>8. Accounted'
  <2> SUFFICES ASSUME NEW d \in Clients, Registered(d)
               PROVE  /\ Range(rcvd[d]) \cup missed'[d]
                            = (joinedAt[d] + 1) .. Offered(d)'
                      /\ Range(rcvd[d]) \cap missed'[d] = {}
    BY <1>1, <1>2 DEF Accounted
  <2>1. /\ Range(rcvd[d]) \cup missed[d] = (joinedAt[d] + 1) .. Offered(d)
        /\ Range(rcvd[d]) \cap missed[d] = {}
    BY DEF IInv, Accounted
  <2>2. CASE d = c
    <3>1. (joinedAt[c] + 1) .. numRcv = ((joinedAt[c] + 1) .. (numRcv - 1)) \cup {numRcv}
      BY <1>2, <1>3
    <3>2. numRcv \notin (joinedAt[c] + 1) .. (numRcv - 1)
      BY <1>2, <1>3
    <3>3. QED
      BY <2>1, <2>2, <3>1, <3>2, <1>2, <1>4
  <2>3. CASE d # c
    BY <2>1, <2>3, <1>2, <1>4
  <2>4. QED
    BY <2>2, <2>3
<1>9. QED
  BY <1>5, <1>6, <1>7, <1>8 DEF IInv

\* At the end of the fan-out nobody is owed anything.
LEMMA FanoutDoneInv ==
  ASSUME IInv, TypeOK', FanoutDone
  PROVE  IInv'
<1>1. /\ TypeOK /\ serve = "fanout" /\ serve' = "select" /\ pos > Len(listeners)
      /\ UNCHANGED <<listeners, numRcv, chan, sub, rcvd, missed, joinedAt, panic>>
  BY DEF IInv, FanoutDone, clientVars, historyVars, counters
<1>2. DOMAIN listeners = 1 .. Len(listeners) /\ pos \in Nat /\ Len(listeners) \in Nat
  BY <1>1 DEF TypeOK
<1>3. \A d \in Clients : Registered(d)' = Registered(d) /\ Offered(d)' = Offered(d)
  BY <1>1, <1>2 DEF Registered, Offered, Pending
<1>4. NoPanic' /\ Distinct' /\ InOrder'
  BY <1>1 DEF IInv, NoPanic, Distinct, InOrder
<1>5. Lifecycle'
  BY <1>1, <1>3 DEF IInv, Lifecycle
<1>6. Bounds' /\ Accounted'
  BY <1>1, <1>3 DEF IInv, Bounds, Accounted
<1>7. QED
  BY <1>4, <1>5, <1>6 DEF IInv

\* The deferred close finds every channel of the slice open.
LEMMA ServeReturnInv ==
  ASSUME IInv, TypeOK', ServeReturn
  PROVE  IInv'
<1>1. /\ TypeOK /\ serve = "select" /\ serve' = "done"
      /\ UNCHANGED <<listeners, numRcv, sub, rcvd, missed, joinedAt>>
      /\ \A c \in Clients : chan'[c] = IF Registered(c) THEN "closed" ELSE chan[c]
      /\ panic' = (panic \/ \E i \in DOMAIN listeners : chan[listeners[i]] = "closed")
  BY DEF IInv, ServeReturn, Registered, clientVars, historyVars, counters
<1>2. \A d \in Clients : Registered(d)' = Registered(d) /\ Offered(d)' = Offered(d)
  BY <1>1 DEF Registered, Offered, Pending
<1>3. \A i \in DOMAIN listeners : chan[listeners[i]] # "closed"
  <2> TAKE i \in DOMAIN listeners
  <2>1. listeners[i] \in Clients /\ Registered(listeners[i])
    BY <1>1 DEF TypeOK, Registered
  <2>2. QED
    BY <2>1, <1>1 DEF IInv, Lifecycle, TypeOK
<1>4. NoPanic'
  BY Zenon, <1>1, <1>3 DEF IInv, NoPanic
<1>5. Distinct' /\ InOrder'
  BY <1>1 DEF IInv, Distinct, InOrder
<1>6. Lifecycle'
  BY <1>1, <1>2 DEF IInv, Lifecycle
<1>7. Bounds' /\ Accounted'
  BY <1>1, <1>2 DEF IInv, Bounds, Accounted
<1>8. QED
  BY <1>4, <1>5, <1>6, <1>7 DEF IInv

\* The invariant is kept by every step.
LEMMA StepInv == IInv /\ [Next]_vars => IInv'
<1> SUFFICES ASSUME IInv, [Next]_vars PROVE IInv'
  OBVIOUS
<1>0. TypeOK'
  BY StepType DEF IInv
<1>1. ASSUME NEW c \in Clients, Subscribe(c) PROVE IInv'
  BY <1>0, <1>1, SubscribeInv
<1>2. ASSUME NEW c \in Clients, CancelSubscription(c) PROVE IInv'
  BY <1>0, <1>2, FrameInv DEF CancelSubscription, counters, historyVars
<1>3. ASSUME NEW p \in Producers, Publish(p) PROVE IInv'
  BY <1>0, <1>3, FrameInv DEF Publish, counters, historyVars, clientVars
<1>4. CASE Close
  BY <1>0, <1>4, FrameInv DEF Close, counters, historyVars, clientVars
<1>5. ASSUME NEW c \in Clients, ReaderReady(c) \/ ReaderQuit(c) \/ ReaderEnd(c)
      PROVE  IInv'
  BY <1>0, <1>5, FrameInv DEF ReaderReady, ReaderQuit, ReaderEnd, counters, historyVars
<1>6. ASSUME NEW c \in Clients, AddListener(c) PROVE IInv'
  BY <1>0, <1>6, AddListenerInv
<1>7. ASSUME NEW c \in Clients, RemoveListener(c) PROVE IInv'
  BY <1>0, <1>7, RemoveListenerInv
<1>8. ASSUME NEW c \in Clients, RemoveUnknown(c) PROVE IInv'
  BY <1>0, <1>8, FrameInv DEF RemoveUnknown, counters, historyVars
<1>9. ASSUME NEW p \in Producers, Receive(p) PROVE IInv'
  BY <1>0, <1>9, ReceiveInv
<1>10. ASSUME NEW c \in Clients, Deliver(c) PROVE IInv'
  BY <1>0, <1>10, DeliverInv
<1>11. ASSUME NEW c \in Clients, Skip(c) PROVE IInv'
  BY <1>0, <1>11, SkipInv
<1>12. CASE FanoutDone
  BY <1>0, <1>12, FanoutDoneInv
<1>13. CASE ServeReturn
  BY <1>0, <1>13, ServeReturnInv
<1>14. CASE UNCHANGED vars
  BY <1>0, <1>14, FrameInv DEF vars
<1>15. QED
  BY <1>1, <1>2, <1>3, <1>4, <1>5, <1>6, <1>7, <1>8, <1>9, <1>10, <1>11,
     <1>12, <1>13, <1>14 DEF Next, ServeStep, CallerStep

\* The server never panics: no channel is closed twice or sent on after it was
\* closed, for any number of clients and producers.
THEOREM NeverPanics == Spec => []NoPanic
<1>1. IInv => NoPanic
  BY DEF IInv
<1>2. QED
  BY InitInv, StepInv, <1>1, PTL DEF Spec

\* Every listener sees a subsequence of the source, in order, and nothing from
\* before its registration.
THEOREM DeliveredInOrder == Spec => []InOrder
<1>1. IInv => InOrder
  BY DEF IInv
<1>2. QED
  BY InitInv, StepInv, <1>1, PTL DEF Spec

\* Every message taken from the source while a listener is registered is
\* delivered to it or recorded as skipped.
THEOREM NothingLost == Spec => []Accounted
<1>1. IInv => Accounted
  BY DEF IInv
<1>2. QED
  BY InitInv, StepInv, <1>1, PTL DEF Spec

-----------------------------------------------------------------------------
\* A step of the server or of a caller is a step of the promised multicast, or
\* changes nothing that the promise speaks of.
LEMMA StepImplements == IInv /\ IInv' /\ [Next]_vars => [Abs!Next]_Abs!vars
<1> SUFFICES ASSUME IInv, IInv', [Next]_vars PROVE [Abs!Next]_Abs!vars
  OBVIOUS
<1> DEFINE m == [c \in Clients |-> Member(c)]
<1> TypeOK /\ TypeOK' /\ Lifecycle /\ Lifecycle'
  BY DEF IInv
<1>1. ASSUME UNCHANGED <<serve, numRcv, rcvd, joinedAt, sub>>,
             \A c \in Clients : sub[c] = "subscribed" => chan'[c] = chan[c]
      PROVE  UNCHANGED Abs!vars
  <2>1. \A c \in Clients : Member(c)' = Member(c)
    BY <1>1 DEF Member
  <2>2. m' = m
    BY <2>1
  <2>3. QED
    BY <1>1, <2>2 DEF Abs!vars
<1>2. ASSUME NEW c \in Clients, Subscribe(c) PROVE UNCHANGED Abs!vars
  <2>1. \A d \in Clients : Member(d)' = Member(d)
    BY <1>2 DEF Subscribe, Member, TypeOK
  <2>2. m' = m
    BY <2>1
  <2>3. QED
    BY <1>2, <2>2 DEF Subscribe, Abs!vars, historyVars, counters
<1>3. ASSUME NEW c \in Clients,
             \/ CancelSubscription(c) \/ ReaderReady(c) \/ ReaderQuit(c)
             \/ ReaderEnd(c) \/ RemoveUnknown(c) \/ Skip(c)
      PROVE  UNCHANGED Abs!vars
  BY <1>1, <1>3 DEF CancelSubscription, ReaderReady, ReaderQuit, ReaderEnd,
     RemoveUnknown, Skip, historyVars, counters, clientVars
<1>4. ASSUME NEW p \in Producers, Publish(p) PROVE UNCHANGED Abs!vars
  BY <1>1, <1>4 DEF Publish, historyVars, counters, clientVars
<1>5. CASE Close
  BY <1>1, <1>5 DEF Close, historyVars, counters, clientVars
<1>6. ASSUME NEW c \in Clients, AddListener(c) PROVE Abs!Join(c)
  <2>1. /\ serve = "select" /\ serve' = "select" /\ numRcv' = numRcv /\ rcvd' = rcvd
        /\ joinedAt' = [joinedAt EXCEPT ![c] = numRcv] /\ chan' = chan
        /\ sub[c] = "calling" /\ sub' = [sub EXCEPT ![c] = "subscribed"]
    BY <1>6 DEF AddListener, counters
  <2>2. chan[c] = "open"
    BY <2>1 DEF Lifecycle
  <2>3. Member(c) = "out" /\ Member(c)' = "in"
    BY <2>1, <2>2 DEF Member, TypeOK
  <2>4. \A d \in Clients \ {c} : Member(d)' = Member(d)
    BY <2>1 DEF Member, TypeOK
  <2>5. m[c] = "out" /\ m' = [m EXCEPT ![c] = "in"]
    BY <2>3, <2>4
  <2>6. QED
    BY <2>1, <2>5 DEF Abs!Join
<1>7. ASSUME NEW c \in Clients, RemoveListener(c) PROVE Abs!Leave(c)
  <2>1. PICK k \in DOMAIN listeners : /\ listeners[k] = c
                                      /\ chan' = [chan EXCEPT ![c] = "closed"]
    BY <1>7 DEF RemoveListener
  <2>2. /\ serve = "select" /\ serve' = "select" /\ numRcv' = numRcv /\ rcvd' = rcvd
        /\ joinedAt' = joinedAt /\ sub' = sub
    BY <1>7 DEF RemoveListener, counters, historyVars
  <2>3. sub[c] = "subscribed" /\ chan[c] = "open"
    <3>1. Registered(c)
      BY <2>1 DEF Registered
    <3>2. QED
      BY <3>1, <2>2 DEF Lifecycle, TypeOK
  <2>4. Member(c) = "in" /\ Member(c)' = "left"
    BY <2>1, <2>2, <2>3 DEF Member, TypeOK
  <2>5. \A d \in Clients \ {c} : Member(d)' = Member(d)
    BY <2>1, <2>2 DEF Member, TypeOK
  <2>6. m[c] = "in" /\ m' = [m EXCEPT ![c] = "left"]
    BY <2>4, <2>5
  <2>7. QED
    BY <2>2, <2>6 DEF Abs!Leave
<1>8. ASSUME NEW p \in Producers, Receive(p) PROVE Abs!Accept
  <2>1. /\ serve = "select" /\ serve' = "fanout" /\ numRcv' = numRcv + 1
        /\ UNCHANGED <<rcvd, joinedAt, sub, chan>>
    BY <1>8 DEF Receive, clientVars, historyVars
  <2>2. m' = m
    BY <2>1 DEF Member
  <2>3. QED
    BY <2>1, <2>2 DEF Abs!Accept
<1>9. ASSUME NEW c \in Clients, Deliver(c) PROVE Abs!Deliver(c)
  <2>1. /\ serve = "fanout" /\ serve' = "fanout" /\ pos \in DOMAIN listeners
        /\ listeners[pos] = c /\ pos' = pos + 1
        /\ UNCHANGED <<serve, listeners, numRcv, joinedAt, sub, chan>>
        /\ rcvd' = [rcvd EXCEPT ![c] = Append(@, numRcv)]
    BY <1>9 DEF Deliver
  <2>2. numRcv \in Nat /\ Registered(c) /\ Offered(c) = numRcv - 1
    BY <2>1, VisitFacts
  <2>3. sub[c] = "subscribed" /\ chan[c] = "open"
    BY <2>1, <2>2 DEF Lifecycle, TypeOK
  <2>4. Member(c) = "in" /\ m' = m
    BY <2>1, <2>3 DEF Member
  <2>5. joinedAt[c] \in Nat /\ rcvd[c] \in Seq(Nat)
    BY DEF TypeOK
  <2>6. /\ joinedAt[c] < numRcv
        /\ \A i \in 1 .. Len(rcvd[c]) : rcvd[c][i] < numRcv
    BY <2>2, <2>5 DEF IInv, Bounds
  <2>7. QED
    BY <2>1, <2>4, <2>6 DEF Abs!Deliver
<1>10. CASE FanoutDone
  <2>1. /\ serve = "fanout" /\ serve' = "select"
        /\ UNCHANGED <<numRcv, rcvd, joinedAt, sub, chan>>
    BY <1>10 DEF FanoutDone, clientVars, historyVars, counters
  <2>2. m' = m
    BY <2>1 DEF Member
  <2>3. QED
    BY <2>1, <2>2 DEF Abs!vars
<1>11. CASE ServeReturn
  <2>1. /\ serve = "select" /\ serve' = "done"
        /\ UNCHANGED <<numRcv, rcvd, joinedAt, sub>>
        /\ \A c \in Clients : chan'[c] = IF Registered(c) THEN "closed" ELSE chan[c]
    BY <1>11 DEF ServeReturn, Registered, clientVars, historyVars, counters
  <2>2. \A c \in Clients : Member(c)' = IF Member(c) = "in" THEN "left" ELSE Member(c)
    BY <2>1 DEF Member, Lifecycle
  <2>3. m' = [c \in Clients |-> IF m[c] = "in" THEN "left" ELSE m[c]]
    BY <2>2
  <2>4. QED
    BY <2>1, <2>3 DEF Abs!Stop, Abs!Next
<1>12. CASE UNCHANGED vars
  BY <1>1, <1>12 DEF vars
<1>13. QED
  BY <1>2, <1>3, <1>4, <1>5, <1>6, <1>7, <1>8, <1>9, <1>10, <1>11, <1>12
     DEF Next, ServeStep, CallerStep, Abs!Next

\* The broadcast server implements the ordered, lossy multicast it promises.
THEOREM Implements == Spec => ImplementsAbs
<1>1. Init => Abs!Init
  <2> SUFFICES ASSUME Init PROVE Abs!Init
    OBVIOUS
  <2>1. \A c \in Clients : Member(c) = "out"
    BY DEF Init, Member
  <2>2. numRcv = 0 /\ serve # "done"
    BY Zenon DEF Init
  <2>3. joinedAt = [c \in Clients |-> 0] /\ rcvd = [c \in Clients |-> <<>>]
    BY Zenon DEF Init
  <2>4. QED
    BY <2>1, <2>2, <2>3 DEF Abs!Init
<1>2. QED
  BY <1>1, InitInv, StepInv, StepImplements, PTL DEF Spec, Abs!Spec, ImplementsAbs

(***************************************************************************)
(* Where CancelReturns fails, for any number of clients: once serve has    *)
(* returned it stays so, and whoever waits for it then, in Subscribe,      *)
(* CancelSubscription or a send on the source, waits for ever.  The        *)
(* channels of all listeners are closed and stay so.                       *)
(***************************************************************************)
EndedServesNobody ==
  serve = "done" =>
    /\ serve' = "done"
    /\ \A c \in Clients :
         /\ sub[c] = "calling" => sub'[c] = "calling"
         /\ cancel[c] \in {"calling", "callingNil"} => cancel'[c] = cancel[c]
         /\ sub[c] = "subscribed" => chan[c] = "closed" /\ chan'[c] = "closed"
    /\ \A p \in Producers : prod[p] = "sending" => prod'[p] = "sending"

(***************************************************************************)
(* For any clients, producers and buffer sizes: once serve has returned, a *)
(* call of Subscribe, CancelSubscription or Publish that waits for it stays *)
(* as it is in every later step, and the channel of each listener is closed *)
(* and stays closed.                                                       *)
(***************************************************************************)
THEOREM CallersBlockAtTheEnd == Spec => [][EndedServesNobody]_vars
<1>1. IInv /\ [Next]_vars => EndedServesNobody
  <2> SUFFICES ASSUME IInv, [Next]_vars, serve = "done"
               PROVE  EndedServesNobody
    BY DEF EndedServesNobody
  <2>1. CallerStep \/ UNCHANGED vars
    BY DEF Next, ServeStep, AddListener, RemoveListener, RemoveUnknown, Deliver, Skip, Receive,
       FanoutDone, ServeReturn
  <2>2. serve' = "done"
    BY <2>1 DEF CallerStep, Subscribe, CancelSubscription, ReaderReady, ReaderQuit, ReaderEnd,
       Publish, Close, vars
  <2>3. /\ sub \in [Clients -> {"none", "calling", "subscribed"}]
        /\ cancel \in [Clients -> {"none", "calling", "callingNil", "returned"}]
        /\ chan \in [Clients -> {"none", "open", "closed"}]
        /\ prod \in [Producers -> {"idle", "sending"}]
    BY DEF IInv, TypeOK
  <2>4. ASSUME NEW c \in Clients
        PROVE  /\ sub[c] # "none" => sub'[c] = sub[c] /\ chan'[c] = chan[c]
               /\ cancel[c] # "none" => cancel'[c] = cancel[c]
    BY <2>1, <2>3 DEF CallerStep, Subscribe, CancelSubscription, ReaderReady, ReaderQuit, ReaderEnd,
       Publish, Close, clientVars, vars
  <2>5. ASSUME NEW p \in Producers, prod[p] = "sending" PROVE prod'[p] = "sending"
    BY <2>1, <2>3, <2>5 DEF CallerStep, Subscribe, CancelSubscription, ReaderReady, ReaderQuit,
       ReaderEnd, Publish, Close, vars
  <2>6. \A c \in Clients : sub[c] = "subscribed" => chan[c] = "closed"
    BY DEF IInv, Lifecycle
  <2> QED
    BY <2>2, <2>4, <2>5, <2>6 DEF EndedServesNobody
<1> QED
  BY InitInv, StepInv, <1>1, PTL DEF Spec
=============================================================================
