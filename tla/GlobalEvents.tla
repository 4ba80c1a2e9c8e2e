---------------------------- MODULE GlobalEvents ----------------------------
(***************************************************************************)
(* The cluster wide list of live events, proxy/nats/events.go.  Every      *)
(* instance of the service keeps a copy of the map that is stored under    *)
(* one key of a NATS key-value bucket, updates the key with a              *)
(* compare-and-set on the revision it knows, and watches the key.          *)
(*                                                                         *)
(* The map is modelled by the set of its keys; its binary form is lossless *)
(* (an empty value reads as an empty map).  The revisions of the key are   *)
(* the positions of kv; kvCur is the current one, 0 when the key does not  *)
(* exist.                                                                  *)
(***************************************************************************)
EXTENDS Integers, Sequences

CONSTANTS
  Instances,   \* processes of the service
  Keys,        \* event keys
  MaxCalls,    \* bound on the calls of RegisterEvent and UnregisterEvent
  MaxExpire,   \* bound on how often the bucket's TTL removes the key
  MaxLost      \* bound on the updates whose request or answer is lost

ASSUME BoundsAssumption == MaxCalls \in Nat /\ MaxExpire \in Nat /\ MaxLost \in Nat

VARIABLES
  kv,        \* every value the key had; kv[r] is the value of revision r
  kvCur,     \* the current revision
  phase,     \* startup of the instance: NewGlobalEvents
  events,    \* g.events
  rev,       \* g.rev
  seen,      \* the last revision the watcher delivered
  pending,   \* revision whose value the watch goroutine has not stored yet
  call,      \* the call that holds g.mutex
  live,      \* history: events whose registration returned, not unregistered
  unsaved,   \* history: keys whose update failed since events was last replaced
  calls, expired, lost

vars == <<kv, kvCur, phase, events, rev, seen, pending, call, live, unsaved,
          calls, expired, lost>>

storeVars == <<kv, kvCur>>
budgets == <<calls, expired, lost>>

\* Progress of a call: no call; waiting for the store; answered.
NoCall == [kind |-> "none", key |-> "", exp |-> 0, state |-> "idle", res |-> 0]

Init ==
  /\ kv = <<>> /\ kvCur = 0
  /\ phase = [i \in Instances |-> "down"]
  /\ events = [i \in Instances |-> {}]
  /\ rev = [i \in Instances |-> 0]
  /\ seen = [i \in Instances |-> 0]
  /\ pending = [i \in Instances |-> 0]
  /\ call = [i \in Instances |-> NoCall]
  /\ live = {}
  /\ unsaved = [i \in Instances |-> {}]
  /\ calls = 0 /\ expired = 0 /\ lost = 0

-----------------------------------------------------------------------------
(* setupListener: look the key up, create it if it is missing, watch it.   *)
(* The watcher first delivers the current value.                           *)

\* Mutant of Watching: the watch starts with one revision of the history more.
WatchingHistory(i, last) ==
  /\ phase' = [phase EXCEPT ![i] = "up"]
  /\ seen' = [seen EXCEPT ![i] = last - 2]

Watching(i, last) ==
  /\ phase' = [phase EXCEPT ![i] = "up"]
  /\ seen' = [seen EXCEPT ![i] = last - 1]

SetupGet(i) ==
  /\ phase[i] = "down"
  /\ IF kvCur = 0
     THEN phase' = [phase EXCEPT ![i] = "creating"] /\ UNCHANGED seen
     ELSE Watching(i, Len(kv))
  /\ UNCHANGED <<storeVars, events, rev, pending, call, live, unsaved, budgets>>

\* kv.Create fails when another instance created the key in the meantime; the
\* error is returned and this instance does not start.
SetupCreate(i) ==
  /\ phase[i] = "creating"
  /\ IF kvCur = 0
     THEN /\ kv' = Append(kv, {})
          /\ kvCur' = Len(kv) + 1
          /\ Watching(i, Len(kv) + 1)
     ELSE phase' = [phase EXCEPT ![i] = "failed"] /\ UNCHANGED <<storeVars, seen>>
  /\ UNCHANGED <<events, rev, pending, call, live, unsaved, budgets>>

-----------------------------------------------------------------------------
(* The watch goroutine.  The bucket keeps one value per key, so a slow     *)
(* watcher may miss revisions, but it sees them in order.                  *)

\* Mutant of WatchRevision: the watcher delivers in any order.
WatchRevisionUnordered(i) ==
  /\ phase[i] = "up" /\ pending[i] = 0 /\ seen[i] < Len(kv)
  /\ \E r \in 1 .. Len(kv) :
       /\ rev' = [rev EXCEPT ![i] = r]
       /\ seen' = [seen EXCEPT ![i] = Len(kv)]
       /\ pending' = [pending EXCEPT ![i] = r]
  /\ UNCHANGED <<storeVars, phase, events, call, live, unsaved, budgets>>

\* g.rev is assigned without the mutex, while a call may be under way.
WatchRevision(i) ==
  /\ phase[i] = "up" /\ pending[i] = 0
  /\ \E r \in (seen[i] + 1) .. Len(kv) :
       /\ rev' = [rev EXCEPT ![i] = r]
       /\ seen' = [seen EXCEPT ![i] = r]
       /\ pending' = [pending EXCEPT ![i] = r]
  /\ UNCHANGED <<storeVars, phase, events, call, live, unsaved, budgets>>

\* g.events is assigned under the mutex, so not during a call.
WatchStore(i) ==
  /\ pending[i] # 0 /\ call[i].state = "idle"
  /\ events' = [events EXCEPT ![i] = kv[pending[i]]]
  /\ pending' = [pending EXCEPT ![i] = 0]
  /\ unsaved' = [unsaved EXCEPT ![i] = {}]
  /\ UNCHANGED <<storeVars, phase, rev, seen, call, live, budgets>>

-----------------------------------------------------------------------------
(* RegisterEvent and UnregisterEvent: under the mutex the local map is     *)
(* changed, and the whole map sent to the store with the revision g.rev.   *)

Call(i, kind, k, map) ==
  /\ phase[i] = "up" /\ call[i].state = "idle" /\ calls < MaxCalls
  /\ events' = [events EXCEPT ![i] = map]
  /\ call' = [call EXCEPT ![i] = [kind |-> kind, key |-> k, exp |-> rev[i],
                                  state |-> "sent", res |-> 0]]
  /\ calls' = calls + 1

\* Two instances may record the same event: the check of the provider that the
\* event is not live yet reads its own instance's lookup.
RegisterEvent(i, k) ==
  /\ Call(i, "register", k, events[i] \cup {k})
  /\ UNCHANGED <<storeVars, phase, rev, seen, pending, live, unsaved, expired, lost>>

\* Any instance may get the request to unregister a live event.
UnregisterEvent(i, k) ==
  /\ k \in live
  /\ Call(i, "unregister", k, events[i] \ {k})
  /\ live' = live \ {k}
  /\ UNCHANGED <<storeVars, phase, rev, seen, pending, unsaved, expired, lost>>

\* The value reaches the store and becomes the next revision.
Applied(i) ==
  /\ call[i].exp = kvCur
  /\ kv' = Append(kv, events[i])
  /\ kvCur' = Len(kv) + 1

\* kv.Update at the store: compare and set.
Update(i) ==
  /\ call[i].state = "sent"
  /\ \/ Applied(i) /\ call' = [call EXCEPT ![i].state = "ok", ![i].res = Len(kv) + 1]
     \/ /\ call[i].exp # kvCur
        /\ call' = [call EXCEPT ![i].state = "error"]
        /\ UNCHANGED storeVars
  /\ UNCHANGED <<phase, events, rev, seen, pending, live, unsaved, budgets>>

\* The request or its answer is lost and the client times out: an error, and
\* the store may have the value nevertheless.
UpdateLost(i) ==
  /\ call[i].state = "sent" /\ lost < MaxLost
  /\ Applied(i) \/ UNCHANGED storeVars
  /\ call' = [call EXCEPT ![i].state = "error"]
  /\ lost' = lost + 1
  /\ UNCHANGED <<phase, events, rev, seen, pending, live, unsaved, calls, expired>>

\* Mutant of Return: the mutex is not released after an error.
ReturnKeepingLock(i) ==
  /\ call[i].state = "ok"
  /\ rev' = [rev EXCEPT ![i] = call[i].res]
  /\ live' = IF call[i].kind = "register" THEN live \cup {call[i].key} ELSE live
  /\ call' = [call EXCEPT ![i] = NoCall]
  /\ UNCHANGED <<storeVars, phase, events, seen, pending, unsaved, budgets>>

\* The answer: g.rev is assigned, or the error is only logged; the caller goes
\* on either way and the event is live.
Return(i) ==
  /\ \/ /\ call[i].state = "ok"
        /\ rev' = [rev EXCEPT ![i] = call[i].res]
        /\ UNCHANGED unsaved
     \/ /\ call[i].state = "error"
        /\ unsaved' = [unsaved EXCEPT ![i] = @ \cup {call[i].key}]
        /\ UNCHANGED rev
  /\ live' = IF call[i].kind = "register" THEN live \cup {call[i].key} ELSE live
  /\ call' = [call EXCEPT ![i] = NoCall]
  /\ UNCHANGED <<storeVars, phase, events, seen, pending, budgets>>

\* The bucket has a TTL of 24h: a key that was not written for so long is gone.
Expire ==
  /\ kvCur # 0 /\ expired < MaxExpire
  /\ kvCur' = 0
  /\ expired' = expired + 1
  /\ UNCHANGED <<kv, phase, events, rev, seen, pending, call, live, unsaved, calls, lost>>

Next ==
  \/ \E i \in Instances : \/ SetupGet(i) \/ SetupCreate(i)
                          \/ WatchRevision(i) \/ WatchStore(i)
                          \/ Update(i) \/ UpdateLost(i) \/ Return(i)
                          \/ \E k \in Keys : RegisterEvent(i, k) \/ UnregisterEvent(i, k)
  \/ Expire

Spec == Init /\ [][Next]_vars

(* A call that was sent is answered, and the watch goroutine keeps running. *)
Fairness ==
  \A i \in Instances : /\ WF_vars(Update(i)) /\ WF_vars(Return(i))
                       /\ WF_vars(WatchRevision(i)) /\ SF_vars(WatchStore(i))

FairSpec == Spec /\ Fairness
-----------------------------------------------------------------------------
CallType ==
  [kind : {"none", "register", "unregister"}, key : Keys \cup {""}, exp : Nat,
   state : {"idle", "sent", "ok", "error"}, res : Nat]

\* Type invariant.
TypeOK ==
  /\ kv \in Seq(SUBSET Keys)
  /\ kvCur \in {0, Len(kv)}
  /\ phase \in [Instances -> {"down", "creating", "up", "failed"}]
  /\ events \in [Instances -> SUBSET Keys]
  /\ rev \in [Instances -> Nat]
  /\ seen \in [Instances -> Nat]
  /\ pending \in [Instances -> Nat]
  /\ call \in [Instances -> CallType]
  /\ live \subseteq Keys
  /\ unsaved \in [Instances -> SUBSET Keys]
  /\ calls \in Nat /\ expired \in Nat /\ lost \in Nat

\* The watch goroutine of i has stored everything there is.
CaughtUp(i) == pending[i] = 0 /\ seen[i] = Len(kv)

SymDiff(S, T) == (S \ T) \cup (T \ S)

(***************************************************************************)
(* An instance whose watcher has caught up has the map of the store, but   *)
(* for the events of its own failed updates: whatever the other instances  *)
(* do and whenever the watch goroutine runs, a map older than the store is *)
(* never taken for the current one.  (The failed updates are the price of  *)
(* changing g.events before the store has accepted the change.)            *)
(***************************************************************************)
Fresh(i) ==
  (phase[i] = "up" /\ call[i].state = "idle" /\ CaughtUp(i))
    => SymDiff(events[i], kv[Len(kv)]) \subseteq unsaved[i]

FreshMap == \A i \in Instances : Fresh(i)

(***************************************************************************)
(* The inductive invariant behind FreshMap: a call leaves the map of the   *)
(* store but for its own event, and once its value is in the store the     *)
(* watcher is behind until it has delivered that value or a later one.     *)
(***************************************************************************)
WatchState(i) ==
  /\ seen[i] <= Len(kv)
  /\ pending[i] # 0 => pending[i] = seen[i]
  /\ phase[i] = "up" => Len(kv) # 0
  /\ phase[i] # "up" => call[i].state = "idle" /\ seen[i] = 0 /\ pending[i] = 0

CallState(i) ==
  /\ call[i].state # "idle" => call[i].key \in Keys
  /\ (call[i].state = "ok" /\ pending[i] = 0) => seen[i] < Len(kv)
  /\ (call[i].state \in {"sent", "error"} /\ CaughtUp(i))
       => SymDiff(events[i], kv[Len(kv)]) \subseteq unsaved[i] \cup {call[i].key}

IInv ==
  TypeOK /\ \A i \in Instances : WatchState(i) /\ CallState(i) /\ Fresh(i)

(***************************************************************************)
(* Every value written to the store reaches the map of every running       *)
(* instance, or is superseded by a later one that does: no call keeps the  *)
(* mutex from the watch goroutine for ever.                                *)
(***************************************************************************)
UpdatesStored ==
  \A i \in Instances : (phase[i] = "up" /\ ~CaughtUp(i)) ~> CaughtUp(i)

(***************************************************************************)
(* events.go: the store "is used to keep track of all events".  An update  *)
(* of the store is about one event and drops none of the others: this is   *)
(* what the compare-and-set is for.                                        *)
(***************************************************************************)
KeepsOthers ==
  [][\A i \in Instances :
       (call[i].state = "sent" /\ call'[i].state = "ok" /\ kvCur # 0)
         => kv[kvCur] \ {call[i].key} \subseteq kv'[kvCur']]_vars
=============================================================================
