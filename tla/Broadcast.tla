----------------------------- MODULE Broadcast -----------------------------
(***************************************************************************)
(* The broadcast server of pkg/utils/broadcast/broadcast.go: one goroutine *)
(* (serve) owns a slice of listener channels and multiplexes, in a single  *)
(* select, the registration of listeners, their removal, the messages of   *)
(* the source channel and the cancellation of its context.  All channels   *)
(* are unbuffered, so every operation of a caller is a rendezvous with     *)
(* serve: the caller is "calling" until serve picks its case.              *)
(*                                                                         *)
(* A message is identified by its position in the order in which serve     *)
(* took the messages from the source: the k-th message is the number k,    *)
(* and numRcv is the message being fanned out.                             *)
(***************************************************************************)
EXTENDS Integers, Sequences, SequencesExt

CONSTANTS
  Clients,    \* subscribers; each one subscribes once, on a channel of its own
  Producers,  \* goroutines that send on the source channel
  MaxMsg      \* bound on the number of messages that are published

ASSUME MaxMsgAssumption == MaxMsg \in Nat

VARIABLES
  serve,      \* where the serve goroutine is: its select, the fan-out, returned
  listeners,  \* b.listeners
  pos,        \* index of the listener the fan-out loop is at
  ctxDone,    \* b.cancel() was called
  chan,       \* the channel made by each client's Subscribe
  sub,        \* progress of each client's Subscribe call
  cancel,     \* progress of each client's CancelSubscription call
  reader,     \* the goroutine that ranges over the client's channel
  prod,       \* progress of each producer's send on the source channel
  published,  \* number of sends begun
  numRcv, numSnd, numSkip,   \* the counters of the server
  panic,      \* a closed channel was closed again or sent on
  rcvd,       \* history: the messages each client got
  missed,     \* history: the messages serve skipped for each client
  joinedAt    \* history: numRcv when the client was registered

vars == <<serve, listeners, pos, ctxDone, chan, sub, cancel, reader, prod,
          published, numRcv, numSnd, numSkip, panic, rcvd, missed, joinedAt>>

clientVars  == <<sub, cancel, reader>>
historyVars == <<rcvd, missed, joinedAt>>
counters    == <<numRcv, numSnd, numSkip>>

Init ==
  /\ serve = "select"
  /\ listeners = <<>>
  /\ pos = 1
  /\ ctxDone = FALSE
  /\ chan = [c \in Clients |-> "none"]
  /\ sub = [c \in Clients |-> "none"]
  /\ cancel = [c \in Clients |-> "none"]
  /\ reader = [c \in Clients |-> "off"]
  /\ prod = [p \in Producers |-> "idle"]
  /\ published = 0
  /\ numRcv = 0 /\ numSnd = 0 /\ numSkip = 0
  /\ panic = FALSE
  /\ rcvd = [c \in Clients |-> <<>>]
  /\ missed = [c \in Clients |-> {}]
  /\ joinedAt = [c \in Clients |-> 0]

-----------------------------------------------------------------------------
(* The callers. *)

\* Subscribe makes the channel and blocks on addListener.
Subscribe(c) ==
  /\ sub[c] = "none"
  /\ sub' = [sub EXCEPT ![c] = "calling"]
  /\ chan' = [chan EXCEPT ![c] = "open"]
  /\ UNCHANGED <<serve, listeners, pos, ctxDone, cancel, reader, prod,
                 published, counters, panic, historyVars>>

\* CancelSubscription blocks on removeListener; it is called by a goroutine of
\* its own when the client's quit channel is closed, so the reader goes on.  The
\* driver data channels subscribe in another goroutine: a client that quits
\* before that one subscribed passes a nil channel.
CancelSubscription(c) ==
  /\ cancel[c] = "none"
  /\ cancel' = [cancel EXCEPT ![c] =
                  IF sub[c] = "subscribed" THEN "calling" ELSE "callingNil"]
  /\ UNCHANGED <<serve, listeners, pos, ctxDone, chan, sub, reader, prod,
                 published, counters, panic, historyVars>>

\* A producer blocks on source <- msg.
Publish(p) ==
  /\ prod[p] = "idle" /\ published < MaxMsg
  /\ prod' = [prod EXCEPT ![p] = "sending"]
  /\ published' = published + 1
  /\ UNCHANGED <<serve, listeners, pos, ctxDone, chan, clientVars,
                 counters, panic, historyVars>>

\* Close cancels the context.
Close ==
  /\ ~ctxDone
  /\ ctxDone' = TRUE
  /\ UNCHANGED <<serve, listeners, pos, chan, clientVars, prod, published,
                 counters, panic, historyVars>>

\* The consumer of a channel comes back to the head of its range loop ...
ReaderReady(c) ==
  /\ reader[c] = "busy"
  /\ reader' = [reader EXCEPT ![c] = "ready"]
  /\ UNCHANGED <<serve, listeners, pos, ctxDone, chan, sub, cancel, prod,
                 published, counters, panic, historyVars>>

\* ... or leaves the loop because sending to its own peer failed ...
ReaderQuit(c) ==
  /\ reader[c] = "busy"
  /\ reader' = [reader EXCEPT ![c] = "ended"]
  /\ UNCHANGED <<serve, listeners, pos, ctxDone, chan, sub, cancel, prod,
                 published, counters, panic, historyVars>>

\* ... and the loop ends by itself once the channel is closed.
ReaderEnd(c) ==
  /\ reader[c] = "ready" /\ chan[c] = "closed"
  /\ reader' = [reader EXCEPT ![c] = "ended"]
  /\ UNCHANGED <<serve, listeners, pos, ctxDone, chan, sub, cancel, prod,
                 published, counters, panic, historyVars>>

-----------------------------------------------------------------------------
(* The serve goroutine: one action per case of its select, and the steps of *)
(* the fan-out loop of the source case.                                     *)

AddListener(c) ==
  /\ serve = "select" /\ sub[c] = "calling"
  /\ listeners' = Append(listeners, c)
  /\ sub' = [sub EXCEPT ![c] = "subscribed"]
  /\ reader' = [reader EXCEPT ![c] = "busy"]
  /\ joinedAt' = [joinedAt EXCEPT ![c] = numRcv]
  /\ UNCHANGED <<serve, pos, ctxDone, chan, cancel, prod, published, counters,
                 panic, rcvd, missed>>

\* Mutant of RemoveListener: the channel is closed, the slice keeps it.
RemoveListenerNoCut(c) ==
  /\ serve = "select" /\ cancel[c] = "calling"
  /\ cancel' = [cancel EXCEPT ![c] = "returned"]
  /\ chan' = [chan EXCEPT ![c] = "closed"]
  /\ panic' = (panic \/ chan[c] = "closed")
  /\ UNCHANGED <<serve, listeners, pos, ctxDone, sub, reader, prod, published,
                 counters, historyVars>>

\* The listener is cut out of the slice and its channel closed.  The loop of
\* the code runs on after a match; a channel is in the slice at most once.
RemoveListener(c) ==
  /\ serve = "select" /\ cancel[c] = "calling"
  /\ cancel' = [cancel EXCEPT ![c] = "returned"]
  /\ \E i \in DOMAIN listeners :
       /\ listeners[i] = c
       /\ listeners' = RemoveAt(listeners, i)
       /\ chan' = [chan EXCEPT ![c] = "closed"]
       /\ panic' = (panic \/ chan[c] = "closed")
  /\ UNCHANGED <<serve, pos, ctxDone, sub, reader, prod, published, counters,
                 historyVars>>

\* The nil channel is not in the slice: the request is taken, nothing is removed.
RemoveUnknown(c) ==
  /\ serve = "select" /\ cancel[c] = "callingNil"
  /\ cancel' = [cancel EXCEPT ![c] = "returned"]
  /\ UNCHANGED <<serve, listeners, pos, ctxDone, chan, sub, reader, prod,
                 published, counters, panic, historyVars>>

\* Mutant of Receive: the loop index starts at zero.
ReceiveFromZero(p) ==
  /\ serve = "select" /\ prod[p] = "sending"
  /\ prod' = [prod EXCEPT ![p] = "idle"]
  /\ numRcv' = numRcv + 1
  /\ serve' = "fanout" /\ pos' = 0
  /\ UNCHANGED <<listeners, ctxDone, chan, clientVars, published, numSnd,
                 numSkip, panic, historyVars>>

Receive(p) ==
  /\ serve = "select" /\ prod[p] = "sending"
  /\ prod' = [prod EXCEPT ![p] = "idle"]
  /\ numRcv' = numRcv + 1
  /\ serve' = "fanout" /\ pos' = 1
  /\ UNCHANGED <<listeners, ctxDone, chan, clientVars, published, numSnd,
                 numSkip, panic, historyVars>>

\* Mutant of Deliver: the loop does not move on after a send.
DeliverAgain(c) ==
  /\ serve = "fanout" /\ pos \in DOMAIN listeners /\ listeners[pos] = c
  /\ reader[c] = "ready" \/ chan[c] = "closed"
  /\ numSnd < 2 * MaxMsg
  /\ reader' = [reader EXCEPT ![c] = "busy"]
  /\ rcvd' = [rcvd EXCEPT ![c] = Append(@, numRcv)]
  /\ numSnd' = numSnd + 1
  /\ panic' = (panic \/ chan[c] = "closed")
  /\ UNCHANGED <<serve, listeners, pos, ctxDone, chan, sub, cancel, prod,
                 published, numRcv, numSkip, missed, joinedAt>>

\* listener <- msg: possible when the reader is at its receive, and a panic
\* when the channel is closed.
Deliver(c) ==
  /\ serve = "fanout" /\ pos \in DOMAIN listeners /\ listeners[pos] = c
  /\ reader[c] = "ready" \/ chan[c] = "closed"
  /\ reader' = [reader EXCEPT ![c] = "busy"]
  /\ rcvd' = [rcvd EXCEPT ![c] = Append(@, numRcv)]
  /\ numSnd' = numSnd + 1
  /\ panic' = (panic \/ chan[c] = "closed")
  /\ pos' = pos + 1
  /\ UNCHANGED <<serve, listeners, ctxDone, chan, sub, cancel, prod, published,
                 numRcv, numSkip, missed, joinedAt>>

\* Mutants of Skip: the timeout ends the whole loop; the skip is counted as a
\* send; there is no timer and the loop waits for the listener.
SkipTheRest(c) ==
  /\ serve = "fanout" /\ pos \in DOMAIN listeners /\ listeners[pos] = c
  /\ missed' = [missed EXCEPT ![c] = @ \cup {numRcv}]
  /\ numSkip' = numSkip + 1
  /\ pos' = Len(listeners) + 1
  /\ UNCHANGED <<serve, listeners, ctxDone, chan, clientVars, prod, published,
                 numRcv, numSnd, panic, rcvd, joinedAt>>

SkipNever(c) == c \notin Clients /\ UNCHANGED vars

\* The 50ms timer wins: the listener misses this message.
Skip(c) ==
  /\ serve = "fanout" /\ pos \in DOMAIN listeners /\ listeners[pos] = c
  /\ missed' = [missed EXCEPT ![c] = @ \cup {numRcv}]
  /\ numSkip' = numSkip + 1
  /\ pos' = pos + 1
  /\ UNCHANGED <<serve, listeners, ctxDone, chan, clientVars, prod, published,
                 numRcv, numSnd, panic, rcvd, joinedAt>>

FanoutDone ==
  /\ serve = "fanout" /\ pos > Len(listeners)
  /\ serve' = "select"
  /\ UNCHANGED <<listeners, pos, ctxDone, chan, clientVars, prod, published,
                 counters, panic, historyVars>>

\* Mutant of ServeReturn: the deferred close of the listeners is missing.
ServeReturnNoClose ==
  /\ serve = "select" /\ ctxDone
  /\ serve' = "done"
  /\ UNCHANGED <<listeners, pos, ctxDone, chan, clientVars, prod, published,
                 counters, panic, historyVars>>

\* ctx.Done(): serve returns and its deferred function closes every listener.
ServeReturn ==
  /\ serve = "select" /\ ctxDone
  /\ serve' = "done"
  /\ chan' = [c \in Clients |->
                IF \E i \in DOMAIN listeners : listeners[i] = c
                THEN "closed" ELSE chan[c]]
  /\ panic' = (panic \/ \E i \in DOMAIN listeners : chan[listeners[i]] = "closed")
  /\ UNCHANGED <<listeners, pos, ctxDone, clientVars, prod, published, counters,
                 historyVars>>

ServeStep ==
  \/ \E c \in Clients : \/ AddListener(c) \/ RemoveListener(c)
                        \/ RemoveUnknown(c) \/ Deliver(c) \/ Skip(c)
  \/ \E p \in Producers : Receive(p)
  \/ FanoutDone
  \/ ServeReturn

CallerStep ==
  \/ \E c \in Clients : \/ Subscribe(c) \/ CancelSubscription(c)
                        \/ ReaderReady(c) \/ ReaderQuit(c) \/ ReaderEnd(c)
  \/ \E p \in Producers : Publish(p)
  \/ Close

Next == ServeStep \/ CallerStep

Spec == Init /\ [][Next]_vars

(***************************************************************************)
(* Fairness.  Go's select picks uniformly among the ready cases, so a case *)
(* that is ready again and again is picked (strong fairness); the fan-out  *)
(* never waits longer than its timer (weak fairness of the loop as a       *)
(* whole: which of send and timer wins is open); a consumer comes back to  *)
(* its loop or leaves it.  Nothing makes anybody subscribe, cancel,        *)
(* publish or close.                                                       *)
(***************************************************************************)
Fanout == FanoutDone \/ \E c \in Clients : Deliver(c) \/ Skip(c)

Fairness ==
  /\ WF_vars(Fanout)
  /\ SF_vars(ServeReturn)
  /\ \A c \in Clients : /\ SF_vars(AddListener(c))
                        /\ SF_vars(RemoveListener(c) \/ RemoveUnknown(c))
                        /\ WF_vars(ReaderReady(c) \/ ReaderEnd(c))
  /\ \A p \in Producers : SF_vars(Receive(p))

FairSpec == Spec /\ Fairness
-----------------------------------------------------------------------------
(* Type invariant. *)
TypeOK ==
  /\ serve \in {"select", "fanout", "done"}
  /\ listeners \in Seq(Clients)
  /\ pos \in Nat \ {0}
  /\ ctxDone \in BOOLEAN
  /\ chan \in [Clients -> {"none", "open", "closed"}]
  /\ sub \in [Clients -> {"none", "calling", "subscribed"}]
  /\ cancel \in [Clients -> {"none", "calling", "callingNil", "returned"}]
  /\ reader \in [Clients -> {"off", "busy", "ready", "ended"}]
  /\ prod \in [Producers -> {"idle", "sending"}]
  /\ published \in Nat
  /\ numRcv \in Nat /\ numSnd \in Nat /\ numSkip \in Nat
  /\ panic \in BOOLEAN
  /\ rcvd \in [Clients -> Seq(Nat)]
  /\ missed \in [Clients -> SUBSET Nat]
  /\ joinedAt \in [Clients -> Nat]

\* c is in b.listeners.
Registered(c) == \E i \in DOMAIN listeners : listeners[i] = c

\* c is still to be visited by the fan-out of the message numRcv.
Pending(c) ==
  serve = "fanout" /\ \E i \in DOMAIN listeners : i >= pos /\ listeners[i] = c

\* The last message that was offered to c.
Offered(c) == IF Pending(c) THEN numRcv - 1 ELSE numRcv

(***************************************************************************)
(* What the server promises (BroadcastAbs) is implemented by this module:  *)
(* a client is a member from the append to b.listeners to the close of its *)
(* channel.                                                                *)
(***************************************************************************)
Member(c) ==
  CASE sub[c] # "subscribed" -> "out"
    [] sub[c] = "subscribed" /\ chan[c] # "closed" -> "in"
    [] OTHER -> "left"

Abs == INSTANCE BroadcastAbs WITH
         accepted <- numRcv,
         member <- [c \in Clients |-> Member(c)],
         since <- joinedAt,
         delivered <- rcvd,
         stopped <- (serve = "done")

ImplementsAbs == Abs!Spec

(***************************************************************************)
(* No interleaving of Subscribe, CancelSubscription, Close and the source  *)
(* makes serve close a channel twice or send on a closed one: either would *)
(* be a panic that takes the whole process down.                           *)
(***************************************************************************)
NoPanic == ~panic

(***************************************************************************)
(* What a listener gets is in the order of the source, without duplicates, *)
(* and nothing from before its registration.                               *)
(***************************************************************************)
InOrder ==
  \A c \in Clients :
    /\ \A i \in DOMAIN rcvd[c] : rcvd[c][i] > joinedAt[c]
    /\ \A i, j \in DOMAIN rcvd[c] : i < j => rcvd[c][i] < rcvd[c][j]

(***************************************************************************)
(* A message that was taken from the source while a listener is registered *)
(* is delivered to it or counted as skipped, never both and never neither. *)
(***************************************************************************)
Accounted ==
  \A c \in Clients : Registered(c) =>
    /\ Range(rcvd[c]) \cup missed[c] = (joinedAt[c] + 1) .. Offered(c)
    /\ Range(rcvd[c]) \cap missed[c] = {}

(***************************************************************************)
(* The inductive invariant behind NoPanic, InOrder and Accounted: a        *)
(* channel is in b.listeners at most once and, until serve has returned,   *)
(* exactly while it is open; nobody is ahead of the fan-out.               *)
(***************************************************************************)
Distinct ==
  \A i, j \in DOMAIN listeners : listeners[i] = listeners[j] => i = j

Lifecycle ==
  \A c \in Clients :
    /\ sub[c] = "none" => chan[c] = "none"
    /\ sub[c] = "calling" => chan[c] = "open"
    /\ sub[c] # "subscribed" => ~Registered(c) /\ rcvd[c] = <<>> /\ missed[c] = {}
    /\ sub[c] = "subscribed" =>
         chan[c] = IF Registered(c) /\ serve # "done" THEN "open" ELSE "closed"

Bounds ==
  \A c \in Clients :
    /\ joinedAt[c] <= Offered(c)
    /\ \A i \in DOMAIN rcvd[c] : rcvd[c][i] <= Offered(c)

IInv == TypeOK /\ NoPanic /\ Distinct /\ Lifecycle /\ Bounds /\ InOrder /\ Accounted

(***************************************************************************)
(* A client that cancelled its subscription is not blocked: its call       *)
(* returns, unless the server was closed.  Likewise for Subscribe and for  *)
(* the producers, however slow or dead the other consumers are.            *)
(***************************************************************************)
CallsServed ==
  /\ \A c \in Clients : /\ (sub[c] = "calling") ~> (sub[c] = "subscribed" \/ ctxDone)
                        /\ (cancel[c] # "none") ~> (cancel[c] = "returned" \/ ctxDone)
  /\ \A p \in Producers : (prod[p] = "sending") ~> (prod[p] = "idle" \/ ctxDone)

(***************************************************************************)
(* Close ends every consumer: whoever was registered gets its channel      *)
(* closed and leaves its range loop.                                       *)
(***************************************************************************)
CloseEndsReaders ==
  \A c \in Clients : (ctxDone /\ Registered(c)) ~> (reader[c] = "ended")

(***************************************************************************)
(* What nats_bcst.go says of its quit goroutines: "the broadcaster may be  *)
(* already closed if the event was unregistered", and the call of          *)
(* CancelSubscription is guarded for that case.  The guard is a nil check; *)
(* a closed broadcaster is not nil, and nobody receives on removeListener  *)
(* any more.                                                               *)
(***************************************************************************)
CancelReturns ==
  \A c \in Clients : (cancel[c] = "calling") ~> (cancel[c] = "returned")

=============================================================================
