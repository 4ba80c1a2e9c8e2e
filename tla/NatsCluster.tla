---------------------------- MODULE NatsCluster ----------------------------
(***************************************************************************)
(* The live events of a cluster: NatsProxy of every instance over the      *)
(* global store (here one map, see GlobalEvents for how it is written) and *)
(* two NATS subjects, with the provider server's handlers and the watchdog *)
(* that register and remove events, instances that start and that crash.   *)
(*                                                                         *)
(* A registration is a number, 0 is none.  Each subscription has a queue   *)
(* and a goroutine of its own; what is sent to both subjects is numbered   *)
(* in the order of the server.                                             *)
(***************************************************************************)
EXTENDS Integers, Sequences, FiniteSets

CONSTANTS
  Instances,
  Callers,    \* RPC handlers and watchdogs
  Keys,
  MaxCalls,   \* bound on the calls
  MaxCrash    \* bound on the crashes

ASSUME BoundsAssumption == MaxCalls \in Nat /\ MaxCrash \in Nat

VARIABLES
  up,       \* "down", "half" (one subscription), "subscribed", "loaded", "up"
  loaded,   \* the map read from the store at startup
  live,     \* n.events: for each instance and key the registration it knows
  lock,     \* the callers that hold n.mutex beyond a step
  lookup,   \* the event lookup: for each instance and key what it records
  regs,     \* for each registration its key and the instance that records it
  closed,   \* the registrations whose broadcast servers were closed
  store,    \* the global store: for each key a registration
  sent,     \* number of messages sent
  inbox,    \* for each instance and subject the messages not yet handled
  call,     \* for each caller what it does
  calls,    \* number of calls
  crashes,  \* number of crashes
  crossed,  \* history: keys of which store and messages were written in different orders
  mixed,    \* history: for each instance the keys of which it missed the order
  gone      \* history: registrations that stopped without being unregistered

local == <<up, loaded, live, lock, lookup>>
remote == <<store, sent, inbox>>
history == <<crossed, mixed, gone>>
vars == <<local, remote, history, regs, closed, call, calls, crashes>>

Idle == [at |-> "idle", on |-> "", key |-> "", reg |-> 0]
Nothing == [k \in Keys |-> 0]
Subjects == {"registered", "unregistered"}
NoMail == [s \in Subjects |-> <<>>]

Init ==
  /\ up = [i \in Instances |-> "down"]
  /\ loaded = [i \in Instances |-> Nothing]
  /\ live = [i \in Instances |-> Nothing]
  /\ lock = {}
  /\ lookup = [i \in Instances |-> Nothing]
  /\ regs = <<>> /\ closed = {}
  /\ store = Nothing /\ sent = 0
  /\ inbox = [i \in Instances |-> NoMail]
  /\ call = [c \in Callers |-> Idle]
  /\ calls = 0 /\ crashes = 0
  /\ crossed = {} /\ mixed = [i \in Instances |-> {}] /\ gone = {}

Free(i) == \A c \in lock : call[c].on # i
Goto(c, at) == call' = [call EXCEPT ![c].at = at]
Done(c) == call' = [call EXCEPT ![c] = Idle]

-----------------------------------------------------------------------------
(* NewNatsProxy                                                             *)

SubscribeRegistered(i) ==
  /\ up[i] = "down"
  /\ up' = [up EXCEPT ![i] = "half"]
  /\ UNCHANGED <<loaded, live, lock, lookup, remote, history, regs, closed, call, calls, crashes>>

SubscribeUnregistered(i) ==
  /\ up[i] = "half"
  /\ up' = [up EXCEPT ![i] = "subscribed"]
  /\ UNCHANGED <<loaded, live, lock, lookup, remote, history, regs, closed, call, calls, crashes>>

LoadStore(i) ==
  /\ up[i] = "subscribed"
  /\ loaded' = [loaded EXCEPT ![i] = store]
  /\ up' = [up EXCEPT ![i] = "loaded"]
  /\ UNCHANGED <<live, lock, lookup, remote, history, regs, closed, call, calls, crashes>>

\* Without the mutex: what the two goroutines did meanwhile is written over.
FillEvents(i) ==
  /\ up[i] = "loaded"
  /\ live' = [live EXCEPT ![i] = [k \in Keys |-> IF loaded[i][k] # 0 THEN loaded[i][k] ELSE @[k]]]
  /\ loaded' = [loaded EXCEPT ![i] = Nothing]
  /\ up' = [up EXCEPT ![i] = "up"]
  /\ UNCHANGED <<lock, lookup, remote, history, regs, closed, call, calls, crashes>>

\* The process ends.  What it recorded stays in the store.
Crash(i) ==
  /\ up[i] # "down" /\ crashes < MaxCrash
  /\ crashes' = crashes + 1
  /\ LET here == {c \in Callers : call[c].on = i} IN
       /\ call' = [c \in Callers |-> IF c \in here THEN Idle ELSE call[c]]
       /\ lock' = lock \ here
       /\ crossed' = crossed \cup {call[c].key : c \in {d \in here : call[d].at \in {"publish", "announce"}}}
       /\ gone' = gone \cup {lookup[i][k] : k \in Keys} \cup {call[c].reg : c \in here}
  /\ up' = [up EXCEPT ![i] = "down"]
  /\ loaded' = [loaded EXCEPT ![i] = Nothing]
  /\ live' = [live EXCEPT ![i] = Nothing]
  /\ lookup' = [lookup EXCEPT ![i] = Nothing]
  /\ inbox' = [inbox EXCEPT ![i] = NoMail]
  /\ mixed' = [mixed EXCEPT ![i] = {}]
  /\ UNCHANGED <<store, sent, regs, closed, calls>>

-----------------------------------------------------------------------------
(* Messages                                                                 *)

\* Every instance with a subscription gets it; one that has subscribed to
\* registrations only has no way to learn of this end of an event.
Send(subject, k, r) ==
  LET gets == {i \in Instances : up[i] \notin {"down"} \cup (IF subject = "unregistered" THEN {"half"} ELSE {})}
  IN  /\ sent' = sent + 1
      /\ inbox' = [i \in Instances |->
           IF i \in gets
           THEN [inbox[i] EXCEPT ![subject] = Append(@, [n |-> sent + 1, key |-> k, reg |-> r])]
           ELSE inbox[i]]
      /\ mixed' = [i \in Instances |->
           IF up[i] = "half" /\ i \notin gets THEN mixed[i] \cup {k} ELSE mixed[i]]

\* The next message of a subscription; it is out of order when an earlier one
\* with its key waits in the other, and when the map is about to be filled.
Take(i, subject) ==
  /\ Free(i) /\ inbox[i][subject] # <<>>
  /\ inbox' = [inbox EXCEPT ![i][subject] = Tail(@)]
  /\ LET m == Head(inbox[i][subject])
         late == \E s \in Subjects : \E j \in DOMAIN inbox[i][s] :
                   inbox[i][s][j].key = m.key /\ inbox[i][s][j].n < m.n
     IN  mixed' = IF late \/ up[i] = "loaded" THEN [mixed EXCEPT ![i] = @ \cup {m.key}] ELSE mixed

\* handleIncomingEventRegistered
HandleRegistered(i) ==
  /\ Take(i, "registered")
  /\ LET m == Head(inbox[i]["registered"]) IN live' = [live EXCEPT ![i][m.key] = m.reg]
  /\ UNCHANGED <<up, loaded, lock, lookup, store, sent, crossed, gone, regs, closed, call, calls, crashes>>

\* RemoveEvent of the lookup: the event of the key is closed and forgotten.
RemoveEvent(i, k) ==
  /\ closed' = closed \cup ({lookup[i][k]} \ {0})
  /\ lookup' = [lookup EXCEPT ![i][k] = 0]

\* Mutant: only the instance that records the event drops it.
HandleUnregisteredOwn(i) ==
  /\ Take(i, "unregistered")
  /\ LET m == Head(inbox[i]["unregistered"])
     IN  /\ RemoveEvent(i, m.key)
         /\ gone' = IF lookup[i][m.key] = m.reg THEN gone ELSE gone \cup {lookup[i][m.key]}
         /\ live' = [live EXCEPT ![i][m.key] = IF lookup[i][m.key] = 0 THEN @ ELSE 0]
  /\ UNCHANGED <<up, loaded, lock, store, sent, crossed, regs, call, calls, crashes>>

\* Mutant: the callback to the lookup is not set.
HandleUnregisteredNoCallback(i) ==
  /\ Take(i, "unregistered")
  /\ live' = [live EXCEPT ![i][Head(inbox[i]["unregistered"]).key] = 0]
  /\ UNCHANGED <<up, loaded, lock, lookup, store, sent, crossed, gone, regs, closed, call, calls, crashes>>

\* handleIncomingEventUnregistered, with the callback to the lookup.
HandleUnregistered(i) ==
  /\ Take(i, "unregistered")
  /\ LET m == Head(inbox[i]["unregistered"])
     IN  /\ RemoveEvent(i, m.key)
         /\ gone' = IF lookup[i][m.key] = m.reg THEN gone ELSE gone \cup {lookup[i][m.key]}
         /\ live' = [live EXCEPT ![i][m.key] = 0]
  /\ UNCHANGED <<up, loaded, lock, store, sent, crossed, regs, call, calls, crashes>>

-----------------------------------------------------------------------------
(* RegisterEvent and PublishEventRegistered                                 *)

Begin(c, i, k, at, r) ==
  /\ call[c].at = "idle" /\ up[i] = "up" /\ calls < MaxCalls
  /\ calls' = calls + 1
  /\ call' = [call EXCEPT ![c] = [at |-> at, on |-> i, key |-> k, reg |-> r]]

RegisterCheck(c, i, k) ==
  /\ Free(i) /\ live[i][k] = 0
  /\ Begin(c, i, k, "add", 0)
  /\ UNCHANGED <<local, remote, history, regs, closed, crashes>>

\* AddEvent.  Without a result the request panics (see EventRegistry).
RegisterAdd(c) ==
  /\ call[c].at = "add"
  /\ LET i == call[c].on
         k == call[c].key
     IN  IF lookup[i][k] # 0 THEN Done(c) /\ UNCHANGED <<regs, lookup>>
         ELSE /\ regs' = Append(regs, [key |-> k, on |-> i])
              /\ lookup' = [lookup EXCEPT ![i][k] = Len(regs) + 1]
              /\ call' = [call EXCEPT ![c].at = "lock", ![c].reg = Len(regs) + 1]
  /\ UNCHANGED <<up, loaded, live, lock, remote, history, closed, calls, crashes>>

\* Mutant: the mutex is not waited for.
RegisterLockAtOnce(c) ==
  /\ call[c].at = "lock"
  /\ lock' = lock \cup {c}
  /\ Goto(c, "subscribe")
  /\ UNCHANGED <<up, loaded, live, lookup, remote, history, regs, closed, calls, crashes>>

RegisterLock(c) ==
  /\ call[c].at = "lock" /\ Free(call[c].on)
  /\ lock' = lock \cup {c}
  /\ Goto(c, "subscribe")
  /\ UNCHANGED <<up, loaded, live, lookup, remote, history, regs, closed, calls, crashes>>

\* Subscribe of two broadcast servers; once they are closed it never returns.
RegisterSubscribe(c) ==
  /\ call[c].at = "subscribe" /\ call[c].reg \notin closed
  /\ Goto(c, "store")
  /\ UNCHANGED <<local, remote, history, regs, closed, calls, crashes>>

\* A key of which somebody else has written the store and not yet sent.
Crossing(c) ==
  \E d \in Callers \ {c} : call[d].key = call[c].key /\ call[d].at \in {"publish", "announce"}

WriteStore(c, r) ==
  /\ store' = [store EXCEPT ![call[c].key] = r]
  /\ crossed' = IF Crossing(c) THEN crossed \cup {call[c].key} ELSE crossed

RegisterStore(c) ==
  /\ call[c].at = "store"
  /\ WriteStore(c, call[c].reg)
  /\ Goto(c, "publish")
  /\ UNCHANGED <<local, sent, inbox, mixed, gone, regs, closed, calls, crashes>>

\* Mutant: it returns with the mutex.
RegisterPublishLocked(c) ==
  /\ call[c].at = "publish"
  /\ Send("registered", call[c].key, call[c].reg)
  /\ call' = [call EXCEPT ![c] = [Idle EXCEPT !.on = call[c].on]]
  /\ UNCHANGED <<up, loaded, live, lock, lookup, store, crossed, gone, regs, closed, calls, crashes>>

RegisterPublish(c) ==
  /\ call[c].at = "publish"
  /\ Send("registered", call[c].key, call[c].reg)
  /\ lock' = lock \ {c}
  /\ Done(c)
  /\ UNCHANGED <<up, loaded, live, lookup, store, crossed, gone, regs, closed, calls, crashes>>

-----------------------------------------------------------------------------
(* UnregisterEvent, UnregisterAll, the watchdog, PublishEventUnregistered   *)

\* Any instance takes the call; the one that records the event stops at once.
UnregisterCheck(c, i, k) ==
  /\ Free(i) /\ live[i][k] # 0
  /\ Begin(c, i, k, "remove", 0)
  /\ UNCHANGED <<local, remote, history, regs, closed, crashes>>

UnregisterRemove(c) ==
  /\ call[c].at = "remove"
  /\ LET i == call[c].on
         k == call[c].key
     IN  /\ RemoveEvent(i, k)
         /\ call' = [call EXCEPT ![c].at = "erase", ![c].reg = lookup[i][k]]
  /\ UNCHANGED <<up, loaded, live, lock, remote, history, regs, calls, crashes>>

\* A stale event (the watchdog's own races are those of EventRegistry).
WatchdogRemove(c, i, k) ==
  /\ lookup[i][k] # 0
  /\ Begin(c, i, k, "erase", lookup[i][k])
  /\ RemoveEvent(i, k)
  /\ UNCHANGED <<up, loaded, live, lock, remote, history, regs, crashes>>

UnregisterErase(c) ==
  /\ call[c].at = "erase"
  /\ WriteStore(c, 0)
  /\ LET r == store[call[c].key]
     IN  /\ call' = [call EXCEPT ![c].at = "announce", ![c].reg = r]
         /\ gone' = gone \cup ({call[c].reg} \ {r})
  /\ UNCHANGED <<local, sent, inbox, mixed, regs, closed, calls, crashes>>

UnregisterAnnounce(c) ==
  /\ call[c].at = "announce"
  /\ Send("unregistered", call[c].key, call[c].reg)
  /\ Done(c)
  /\ UNCHANGED <<local, store, crossed, gone, regs, closed, calls, crashes>>

\* The lookup is cleared; nobody else is told.
UnregisterAll(i) ==
  /\ up[i] = "up" /\ calls < MaxCalls
  /\ calls' = calls + 1
  /\ gone' = gone \cup {lookup[i][k] : k \in Keys}
  /\ lookup' = [lookup EXCEPT ![i] = Nothing]
  /\ UNCHANGED <<up, loaded, live, lock, remote, crossed, mixed, regs, closed, call, crashes>>

-----------------------------------------------------------------------------
Handle(i) == HandleRegistered(i) \/ HandleUnregistered(i)

Proceed(c) ==
  \/ RegisterAdd(c) \/ RegisterLock(c) \/ RegisterSubscribe(c) \/ RegisterStore(c)
  \/ RegisterPublish(c) \/ UnregisterRemove(c) \/ UnregisterErase(c) \/ UnregisterAnnounce(c)

Next ==
  \/ \E i \in Instances : \/ SubscribeRegistered(i) \/ SubscribeUnregistered(i)
                          \/ LoadStore(i) \/ FillEvents(i) \/ Crash(i)
                          \/ HandleRegistered(i) \/ HandleUnregistered(i) \/ UnregisterAll(i)
  \/ \E c \in Callers : Proceed(c)
  \/ \E c \in Callers, i \in Instances, k \in Keys :
       RegisterCheck(c, i, k) \/ UnregisterCheck(c, i, k) \/ WatchdogRemove(c, i, k)

Spec == Init /\ [][Next]_vars

\* Clients answer, goroutines run, and an instance that starts gets there.
Fairness ==
  /\ \A i \in Instances :
       /\ WF_vars(HandleRegistered(i)) /\ WF_vars(HandleUnregistered(i))
       /\ WF_vars(SubscribeUnregistered(i)) /\ WF_vars(LoadStore(i)) /\ WF_vars(FillEvents(i))
  /\ \A c \in Callers : WF_vars(Proceed(c))

FairSpec == Spec /\ Fairness

-----------------------------------------------------------------------------
(* Properties                                                               *)

Regs == 0..Len(regs)
Quiet(k) ==
  /\ \A c \in Callers : call[c].key # k
  /\ \A i \in Instances : \A s \in Subjects :
       \A j \in DOMAIN inbox[i][s] : inbox[i][s][j].key # k

Steps == {"idle", "add", "lock", "subscribe", "store", "publish", "remove", "erase", "announce"}

\* The variables keep their types, and one caller at a time holds the mutex
\* of an instance, the one that publishes its registration.
TypeOK ==
  /\ up \in [Instances -> {"down", "half", "subscribed", "loaded", "up"}]
  /\ loaded \in [Instances -> [Keys -> Regs]]
  /\ live \in [Instances -> [Keys -> Regs]]
  /\ lookup \in [Instances -> [Keys -> Regs]]
  /\ store \in [Keys -> Regs]
  /\ \A r \in 1..Len(regs) : regs[r] \in [key : Keys, on : Instances]
  /\ closed \subseteq 1..Len(regs) /\ gone \subseteq Regs
  /\ \A c \in Callers : /\ call[c].at \in Steps
                        /\ call[c].at # "idle" => /\ call[c].key \in Keys /\ call[c].reg \in Regs
                                                  /\ up[call[c].on] = "up"
                        /\ c \in lock <=> call[c].at \in {"subscribe", "store", "publish"}
  /\ \A c, d \in lock : call[c].on = call[d].on => c = d
  /\ crossed \subseteq Keys /\ mixed \in [Instances -> SUBSET Keys]

\* When nothing is under way for a key, every running instance offers what the
\* store holds: a registration that all know, or none.  It fails only where
\* messages and store were written in different orders, or an instance took
\* messages of the two subjects in another order than they were sent in.
Agreement ==
  \A k \in Keys, i \in Instances :
    Quiet(k) /\ up[i] = "up" /\ k \notin crossed \cup mixed[i] => live[i][k] = store[k]

\* An event that the store announces as live is recorded by the instance that
\* registered it, unless that instance crashed, cleared its lookup, or closed
\* it because of a message about an earlier registration.  And what an
\* instance records is known as live: there is no event that nobody can find,
\* whoever unregistered it, on whichever instance.
KnownIsRecorded ==
  \A k \in Keys :
    Quiet(k) /\ k \notin crossed =>
      IF store[k] = 0 THEN \A i \in Instances : lookup[i][k] = 0
      ELSE store[k] \in gone \/ lookup[regs[store[k]].on][k] = store[k]

\* A message waits for ever only where PublishEventRegistered holds the mutex
\* in a Subscribe of servers that were closed before, or the instance crashes.
MessagesHandled ==
  \A i \in Instances :
    inbox[i] # NoMail ~> \/ inbox[i] = NoMail
                         \/ \E c \in lock : call[c].on = i /\ call[c].reg \in closed
=============================================================================
