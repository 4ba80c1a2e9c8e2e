------------------------- MODULE GlobalEventsProofs -------------------------
(***************************************************************************)
(* Proofs about GlobalEvents, for any set of instances and keys: the type  *)
(* invariant and FreshMap, by induction over the steps.                    *)
(***************************************************************************)
EXTENDS GlobalEvents, TLAPS

\* Appending a map to the values of the key.
LEMMA AppendFacts ==
  ASSUME NEW T, NEW s \in Seq(T), NEW e \in T
  PROVE  /\ Append(s, e) \in Seq(T)
         /\ Len(Append(s, e)) = Len(s) + 1
         /\ Append(s, e)[Len(s) + 1] = e
         /\ Len(s) \in Nat
  OBVIOUS

\* A step leaves the values of the key alone or appends one map.
Grows == kv' = kv \/ \E m \in SUBSET Keys : kv' = Append(kv, m)

LEMMA GrowsFacts ==
  ASSUME kv \in Seq(SUBSET Keys), Grows
  PROVE  /\ kv' \in Seq(SUBSET Keys)
         /\ Len(kv) \in Nat /\ Len(kv') \in Nat
         /\ Len(kv) <= Len(kv')
         /\ kv' # kv => Len(kv') = Len(kv) + 1
<1>1. CASE kv' = kv
  BY <1>1, AppendFacts
<1>2. ASSUME NEW m \in SUBSET Keys, kv' = Append(kv, m)
      PROVE  /\ kv' \in Seq(SUBSET Keys)
             /\ Len(kv) \in Nat /\ Len(kv') \in Nat
             /\ Len(kv') = Len(kv) + 1
  BY <1>2, AppendFacts
<1> QED
  BY <1>1, <1>2 DEF Grows

LEMMA StepGrows == TypeOK /\ [Next]_vars => Grows
<1> SUFFICES ASSUME TypeOK, [Next]_vars PROVE Grows
  OBVIOUS
<1>1. \A i \in Instances : events[i] \in SUBSET Keys
  BY DEF TypeOK
<1> QED
  BY <1>1 DEF Grows, Next, vars, storeVars, SetupGet, SetupCreate, WatchRevision, WatchStore,
     RegisterEvent, UnregisterEvent, Update, UpdateLost, Applied, Return, Expire

\* What the calls are set to has the type of a call.
LEMMA NoCallType == NoCall \in CallType
  BY DEF NoCall, CallType

LEMMA SentType ==
  ASSUME NEW kind \in {"register", "unregister"}, NEW k \in Keys, NEW n \in Nat
  PROVE  [kind |-> kind, key |-> k, exp |-> n, state |-> "sent", res |-> 0] \in CallType
  BY DEF CallType

LEMMA AnsweredType ==
  ASSUME NEW c \in CallType, NEW n \in Nat
  PROVE  /\ [c EXCEPT !.state = "error"] \in CallType
         /\ [c EXCEPT !.state = "ok", !.res = n] \in CallType
  BY DEF CallType

\* An answer changes the state of the call of i, and keeps its key.
LEMMA AnswerFacts ==
  ASSUME NEW c \in [Instances -> CallType], NEW i \in Instances, NEW n \in Nat, NEW d,
         \/ d = [c EXCEPT ![i] = [c[i] EXCEPT !.state = "error"]]
         \/ d = [c EXCEPT ![i] = [c[i] EXCEPT !.state = "ok", !.res = n]]
  PROVE  /\ d \in [Instances -> CallType]
         /\ d[i].key = c[i].key
         /\ d[i].state \in {"ok", "error"}
<1> DEFINE e == [c[i] EXCEPT !.state = "error"]
           o == [c[i] EXCEPT !.state = "ok", !.res = n]
<1>1. c[i] \in CallType
  OBVIOUS
<1>2. e \in CallType /\ e.key = c[i].key /\ e.state = "error"
  BY <1>1, AnsweredType DEF CallType
<1>3. o \in CallType /\ o.key = c[i].key /\ o.state = "ok"
  BY <1>1, AnsweredType DEF CallType
<1>4. d = [c EXCEPT ![i] = e] \/ d = [c EXCEPT ![i] = o]
  OBVIOUS
<1> HIDE DEF e, o
<1>5. d \in [Instances -> CallType] /\ (d[i] = e \/ d[i] = o)
  BY <1>2, <1>3, <1>4
<1> QED
  BY <1>2, <1>3, <1>5

\* The two ways in which a call that was sent is answered.
LEMMA UpdateFacts ==
  ASSUME TypeOK, NEW i \in Instances, Update(i) \/ UpdateLost(i)
  PROVE  /\ call' \in [Instances -> CallType]
         /\ call'[i].key = call[i].key
         /\ call'[i].state \in {"ok", "error"}
<1>1. call \in [Instances -> CallType] /\ Len(kv) + 1 \in Nat
  BY DEF TypeOK
<1>2. \/ call' = [call EXCEPT ![i] = [call[i] EXCEPT !.state = "error"]]
      \/ call' = [call EXCEPT ![i] = [call[i] EXCEPT !.state = "ok", !.res = Len(kv) + 1]]
  BY DEF Update, UpdateLost
<1> QED
  BY <1>1, <1>2, AnswerFacts

\* The initial states satisfy the type invariant.
LEMMA InitType == Init => TypeOK
  BY NoCallType DEF Init, TypeOK

\* Every step preserves the type invariant.
LEMMA StepType == IInv /\ [Next]_vars => TypeOK'
<1> SUFFICES ASSUME IInv, [Next]_vars PROVE TypeOK'
  OBVIOUS
<1> TypeOK /\ \A i \in Instances : WatchState(i) /\ CallState(i)
  BY DEF IInv
<1> USE DEF TypeOK, storeVars, budgets
<1>a. kv' \in Seq(SUBSET Keys) /\ Len(kv) \in Nat /\ Len(kv') \in Nat
  BY StepGrows, GrowsFacts
<1>1. ASSUME NEW i \in Instances, SetupGet(i) PROVE TypeOK'
  <2>1. seen' \in [Instances -> Nat]
    <3>1. Len(kv) - 1 \in Nat \/ kvCur = 0
      BY <1>a
    <3> QED
      BY <1>1, <3>1 DEF SetupGet, Watching
  <2>2. phase' \in [Instances -> {"down", "creating", "up", "failed"}]
    BY <1>1 DEF SetupGet, Watching
  <2> QED
    BY <1>1, <2>1, <2>2 DEF SetupGet
<1>2. ASSUME NEW i \in Instances, SetupCreate(i) PROVE TypeOK'
  <2>1. seen' \in [Instances -> Nat]
    <3>1. (Len(kv) + 1) - 1 \in Nat
      BY <1>a
    <3> QED
      BY <1>2, <3>1 DEF SetupCreate, Watching
  <2>2. phase' \in [Instances -> {"down", "creating", "up", "failed"}]
    BY <1>2 DEF SetupCreate, Watching
  <2>3. kvCur' \in {0, Len(kv')}
    BY <1>2, AppendFacts DEF SetupCreate
  <2> QED
    BY <1>2, <1>a, <2>1, <2>2, <2>3 DEF SetupCreate
<1>3. ASSUME NEW i \in Instances, WatchRevision(i) PROVE TypeOK'
  BY <1>3 DEF WatchRevision
<1>4. ASSUME NEW i \in Instances, WatchStore(i) PROVE TypeOK'
  <2>1. pending[i] \in 1 .. Len(kv)
    BY <1>4, <1>a DEF WatchStore, WatchState
  <2>2. kv[pending[i]] \in SUBSET Keys
    BY <2>1
  <2> QED
    BY <1>4, <2>2 DEF WatchStore
<1>5. ASSUME NEW i \in Instances, NEW k \in Keys, RegisterEvent(i, k) PROVE TypeOK'
  BY <1>5, SentType DEF RegisterEvent, Call
<1>6. ASSUME NEW i \in Instances, NEW k \in Keys, UnregisterEvent(i, k) PROVE TypeOK'
  BY <1>6, SentType DEF UnregisterEvent, Call
<1>7. ASSUME NEW i \in Instances, Update(i) PROVE TypeOK'
  <2>1. kvCur' \in {0, Len(kv')}
    BY <1>7, AppendFacts DEF Update, Applied
  <2>3. call' \in [Instances -> CallType]
    BY <1>7, UpdateFacts
  <2> QED
    BY <1>7, <1>a, <2>1, <2>3 DEF Update
<1>8. ASSUME NEW i \in Instances, UpdateLost(i) PROVE TypeOK'
  <2>1. kvCur' \in {0, Len(kv')}
    BY <1>8, AppendFacts DEF UpdateLost, Applied
  <2>3. call' \in [Instances -> CallType]
    BY <1>8, UpdateFacts
  <2> QED
    BY <1>8, <1>a, <2>1, <2>3 DEF UpdateLost
<1>9. ASSUME NEW i \in Instances, Return(i) PROVE TypeOK'
  <2>1. call[i].key \in Keys /\ call[i].res \in Nat
    BY <1>9 DEF Return, CallState, CallType
  <2>2. call' \in [Instances -> CallType]
    BY <1>9, NoCallType DEF Return
  <2>3. rev' \in [Instances -> Nat]
    BY <1>9, <2>1 DEF Return
  <2>4. unsaved' \in [Instances -> SUBSET Keys]
    <3>1. CASE unsaved' = unsaved
      BY <3>1
    <3>2. CASE unsaved' = [unsaved EXCEPT ![i] = @ \cup {call[i].key}]
      BY <2>1, <3>2
    <3> QED
      BY <1>9, <3>1, <3>2 DEF Return
  <2>5. live' \subseteq Keys
    <3>1. live' = live \cup {call[i].key} \/ live' = live
      BY <1>9 DEF Return
    <3>2. live \subseteq Keys
      OBVIOUS
    <3> HIDE DEF TypeOK
    <3> QED
      BY <2>1, <3>1, <3>2
  <2>6. UNCHANGED <<kv, kvCur, phase, events, seen, pending, calls, expired, lost>>
    BY <1>9 DEF Return
  <2> HIDE DEF TypeOK
  <2> QED
    BY <2>2, <2>3, <2>4, <2>5, <2>6 DEF TypeOK
<1>10. CASE Expire
  BY <1>10 DEF Expire
<1>11. CASE UNCHANGED vars
  BY <1>11 DEF vars
<1> QED
  BY <1>1, <1>2, <1>3, <1>4, <1>5, <1>6, <1>7, <1>8, <1>9, <1>10, <1>11 DEF Next

-----------------------------------------------------------------------------
InvAt(i) == WatchState(i) /\ CallState(i) /\ Fresh(i)

SameAt(i) ==
  /\ phase'[i] = phase[i] /\ events'[i] = events[i] /\ seen'[i] = seen[i]
  /\ pending'[i] = pending[i] /\ call'[i] = call[i] /\ unsaved'[i] = unsaved[i]

\* A step that leaves the state of instance j alone keeps the invariant of j,
\* also when it writes the store: the watcher of j is behind then.
LEMMA FrameInv ==
  ASSUME TypeOK, Grows, NEW j \in Instances, InvAt(j), SameAt(j)
  PROVE  InvAt(j)'
<1>1. /\ Len(kv) \in Nat /\ Len(kv') \in Nat /\ Len(kv) <= Len(kv')
      /\ kv' # kv => Len(kv') = Len(kv) + 1
      /\ seen[j] \in Nat
  BY GrowsFacts DEF TypeOK
<1>2. WatchState(j)'
  BY <1>1 DEF InvAt, WatchState, SameAt
<1>3. CASE kv' = kv
  <2>1. CaughtUp(j)' = CaughtUp(j)
    BY <1>3 DEF CaughtUp, SameAt
  <2> QED
    BY <1>2, <1>3, <2>1 DEF InvAt, CallState, Fresh, SameAt
<1>4. CASE kv' # kv
  <2>1. seen'[j] < Len(kv') /\ ~CaughtUp(j)'
    BY <1>1, <1>4 DEF InvAt, WatchState, CaughtUp, SameAt
  <2> QED
    BY <1>2, <2>1 DEF InvAt, CallState, Fresh, SameAt
<1> QED
  BY <1>3, <1>4

\* The initial states satisfy the inductive invariant.
LEMMA InitInv == Init => IInv
<1> SUFFICES ASSUME Init PROVE IInv
  OBVIOUS
<1>1. TypeOK
  BY InitType
<1>2. ASSUME NEW i \in Instances PROVE WatchState(i) /\ CallState(i) /\ Fresh(i)
  <2>1. call[i].state = "idle" /\ phase[i] = "down" /\ seen[i] = 0 /\ pending[i] = 0 /\ Len(kv) = 0
    BY DEF Init, NoCall
  <2> QED
    BY <2>1 DEF WatchState, CallState, Fresh
<1> QED
  BY <1>1, <1>2 DEF IInv
\* The steps of instance i keep the invariant of i.
LEMMA OwnStep ==
  ASSUME TypeOK, Grows, NEW i \in Instances, InvAt(i),
         \/ SetupGet(i) \/ SetupCreate(i) \/ WatchRevision(i) \/ WatchStore(i)
         \/ Update(i) \/ UpdateLost(i) \/ Return(i)
         \/ \E k \in Keys : RegisterEvent(i, k) \/ UnregisterEvent(i, k)
  PROVE  InvAt(i)'
<1>a. /\ Len(kv) \in Nat /\ Len(kv') \in Nat /\ Len(kv) <= Len(kv')
      /\ kv' # kv => Len(kv') = Len(kv) + 1
      /\ seen[i] \in Nat /\ pending[i] \in Nat
  BY GrowsFacts DEF TypeOK
<1>b. NoCall.state = "idle"
  BY DEF NoCall
<1> USE DEF TypeOK, storeVars, budgets
<1>1. CASE SetupGet(i)
  <2>1. CASE kvCur = 0
    BY <1>1, <2>1, <1>a DEF SetupGet, InvAt, WatchState, CallState, Fresh, CaughtUp
  <2>2. CASE kvCur # 0
    <3>1. /\ phase'[i] = "up" /\ seen'[i] = Len(kv) - 1 /\ kv' = kv /\ Len(kv) # 0
          /\ pending'[i] = 0 /\ call'[i].state = "idle"
      BY <1>1, <2>2 DEF SetupGet, Watching, InvAt, WatchState
    <3> QED
      BY <3>1, <1>a DEF InvAt, WatchState, CallState, Fresh, CaughtUp
  <2> QED
    BY <2>1, <2>2
<1>2. CASE SetupCreate(i)
  <2>1. CASE kvCur = 0
    <3>1. Len(kv') = Len(kv) + 1
      BY <1>2, <2>1, AppendFacts DEF SetupCreate
    <3>2. /\ phase'[i] = "up" /\ seen'[i] = (Len(kv) + 1) - 1
          /\ pending'[i] = 0 /\ call'[i].state = "idle"
      BY <1>2, <2>1 DEF SetupCreate, Watching, InvAt, WatchState
    <3> QED
      BY <3>1, <3>2, <1>a DEF InvAt, WatchState, CallState, Fresh, CaughtUp
  <2>2. CASE kvCur # 0
    <3>1. /\ phase'[i] = "failed" /\ seen'[i] = 0 /\ pending'[i] = 0
          /\ call'[i].state = "idle"
      BY <1>2, <2>2 DEF SetupCreate, InvAt, WatchState
    <3> QED
      BY <3>1, <1>a DEF InvAt, WatchState, CallState, Fresh
  <2> QED
    BY <2>1, <2>2
<1>3. CASE WatchRevision(i)
  <2>1. /\ pending'[i] = seen'[i] /\ seen'[i] \in 1 .. Len(kv) /\ kv' = kv
        /\ phase[i] = "up" /\ phase' = phase /\ call' = call
    BY <1>3, <1>a DEF WatchRevision
  <2>2. pending'[i] # 0 /\ ~CaughtUp(i)'
    BY <2>1 DEF CaughtUp
  <2> QED
    BY <2>1, <2>2, <1>a DEF InvAt, WatchState, CallState, Fresh
<1>4. CASE WatchStore(i)
  <2>1. /\ events'[i] = kv[seen[i]] /\ kv' = kv /\ phase' = phase /\ call' = call
        /\ pending'[i] = 0 /\ seen' = seen /\ call[i].state = "idle" /\ phase[i] = "up"
    BY <1>4, <1>a DEF WatchStore, InvAt, WatchState
  <2>2. CaughtUp(i)' => events'[i] = kv[Len(kv)]
    BY <2>1 DEF CaughtUp
  <2> QED
    BY <2>1, <2>2, <1>a DEF InvAt, WatchState, CallState, Fresh, SymDiff
<1>5. ASSUME NEW k \in Keys, RegisterEvent(i, k) \/ UnregisterEvent(i, k)
      PROVE  InvAt(i)'
  <2>1. /\ events'[i] = events[i] \cup {k} \/ events'[i] = events[i] \ {k}
        /\ call'[i].state = "sent" /\ call'[i].key = k
        /\ call[i].state = "idle" /\ phase[i] = "up"
        /\ kv' = kv /\ phase' = phase /\ seen' = seen /\ pending' = pending
        /\ unsaved' = unsaved
    BY <1>5 DEF RegisterEvent, UnregisterEvent, Call
  <2>2. CaughtUp(i)' = CaughtUp(i)
    BY <2>1 DEF CaughtUp
  <2> QED
    BY <2>1, <2>2, <1>a DEF InvAt, WatchState, CallState, Fresh, SymDiff
<1>6. CASE Update(i) \/ UpdateLost(i)
  <2>1. /\ events' = events /\ phase' = phase /\ seen' = seen /\ pending' = pending
        /\ unsaved' = unsaved
    BY <1>6 DEF Update, UpdateLost
  <2>2. call'[i].key = call[i].key /\ call[i].state = "sent" /\ phase[i] = "up"
    <3>4. call'[i].key = call[i].key
      BY <1>6, UpdateFacts
    <3>5. call[i].state = "sent"
      BY <1>6 DEF Update, UpdateLost
    <3>6. phase[i] = "up"
      BY <3>5 DEF InvAt, WatchState
    <3> QED
      BY <3>4, <3>5, <3>6
  <2>3. \/ call'[i].state = "error" /\ kv' = kv
        \/ call'[i].state \in {"ok", "error"} /\ Len(kv') = Len(kv) + 1
    <3>1. Applied(i) => Len(kv') = Len(kv) + 1
      BY AppendFacts DEF Applied
    <3>2. call'[i].state \in {"ok", "error"}
      BY <1>6, UpdateFacts
    <3>3. CASE Applied(i)
      BY <3>1, <3>2, <3>3
    <3>4. CASE ~Applied(i)
      <4>1. call' = [call EXCEPT ![i] = [call[i] EXCEPT !.state = "error"]] /\ kv' = kv
        BY <1>6, <3>4 DEF Update, UpdateLost
      <4>2. call[i] \in CallType
        OBVIOUS
      <4> QED
        BY <4>1, <4>2 DEF CallType
    <3> QED
      BY <3>3, <3>4
  <2>4. CASE kv' = kv /\ call'[i].state = "error"
    <3>1. CaughtUp(i)' = CaughtUp(i)
      BY <2>1, <2>4 DEF CaughtUp
    <3> QED
      BY <2>1, <2>2, <2>4, <3>1, <1>a DEF InvAt, WatchState, CallState, Fresh
  <2>5. CASE call'[i].state \in {"ok", "error"} /\ Len(kv') = Len(kv) + 1
    <3>1. seen'[i] < Len(kv') /\ ~CaughtUp(i)'
      BY <2>1, <2>5, <1>a DEF CaughtUp, InvAt, WatchState
    <3> QED
      BY <2>1, <2>2, <2>5, <3>1, <1>a DEF InvAt, WatchState, CallState, Fresh
  <2> QED
    BY <2>3, <2>4, <2>5
<1>7. CASE Return(i)
  <2>1. /\ events' = events /\ kv' = kv /\ phase' = phase /\ seen' = seen
        /\ pending' = pending /\ call'[i].state = "idle" /\ phase[i] = "up"
    BY <1>7, <1>b DEF Return, InvAt, WatchState
  <2>2. CaughtUp(i)' = CaughtUp(i)
    BY <2>1 DEF CaughtUp
  <2>3. CASE call[i].state = "ok"
    <3>1. ~CaughtUp(i)
      BY <2>3, <1>a DEF CaughtUp, InvAt, CallState
    <3> QED
      BY <2>1, <2>2, <3>1, <1>a DEF InvAt, WatchState, CallState, Fresh
  <2>4. CASE call[i].state = "error"
    <3>1. unsaved'[i] = unsaved[i] \cup {call[i].key}
      BY <1>7, <2>4 DEF Return
    <3> QED
      BY <2>1, <2>2, <2>4, <3>1, <1>a DEF InvAt, WatchState, CallState, Fresh
  <2> QED
    BY <1>7, <2>3, <2>4 DEF Return
<1> QED
  BY <1>1, <1>2, <1>3, <1>4, <1>5, <1>6, <1>7

\* Every step preserves the inductive invariant: the steps of i keep that of i,
\* and they leave the state of every other instance alone.
LEMMA StepInv == IInv /\ [Next]_vars => IInv'
<1> SUFFICES ASSUME IInv, [Next]_vars PROVE IInv'
  OBVIOUS
<1>1. TypeOK /\ Grows /\ \A i \in Instances : InvAt(i)
  BY StepGrows DEF IInv, InvAt
<1>2. ASSUME NEW j \in Instances PROVE InvAt(j)'
  <2>1. CASE Expire \/ UNCHANGED vars
    <3>1. SameAt(j)
      BY <2>1 DEF SameAt, Expire, vars
    <3> QED
      BY <1>1, <3>1, FrameInv
  <2>2. ASSUME NEW i \in Instances,
               \/ SetupGet(i) \/ SetupCreate(i) \/ WatchRevision(i) \/ WatchStore(i)
               \/ Update(i) \/ UpdateLost(i) \/ Return(i)
               \/ \E k \in Keys : RegisterEvent(i, k) \/ UnregisterEvent(i, k)
        PROVE  InvAt(j)'
    <3>1. CASE i = j
      BY <1>1, <2>2, <3>1, OwnStep
    <3>2. CASE i # j
      <4>1. SameAt(j)
        BY <1>1, <2>2, <3>2 DEF TypeOK, SameAt, SetupGet, SetupCreate, Watching,
           WatchRevision, WatchStore, Update, UpdateLost, Return, RegisterEvent,
           UnregisterEvent, Call, storeVars, budgets
      <4> QED
        BY <1>1, <4>1, FrameInv
    <3> QED
      BY <3>1, <3>2
  <2> QED
    BY <2>1, <2>2 DEF Next
<1>3. TypeOK'
  BY StepType
<1> QED
  BY <1>2, <1>3 DEF IInv, InvAt

(***************************************************************************)
(* The type invariant of GlobalEvents, for any number of instances, keys,  *)
(* calls, losses and expiries.                                             *)
(***************************************************************************)
THEOREM TypeCorrect == Spec => []TypeOK
<1>1. IInv => TypeOK
  BY DEF IInv
<1> QED
  BY InitInv, StepInv, <1>1, PTL DEF Spec

(***************************************************************************)
(* An instance whose watcher has caught up has the map of the store but    *)
(* for its own failed updates: events.go, the watch goroutine against      *)
(* RegisterEvent and UnregisterEvent.                                      *)
(***************************************************************************)
THEOREM MapIsFresh == Spec => []FreshMap
<1>1. IInv => FreshMap
  BY DEF IInv, FreshMap
<1> QED
  BY InitInv, StepInv, <1>1, PTL DEF Spec

(***************************************************************************)
(* KeepsOthers fails: an update writes the whole map of the instance.  It  *)
(* fails only while the watcher of that instance is behind: the value that *)
(* the update of one that has caught up brings into the store, answered or *)
(* lost, differs from the one before in its own event, and in those of the *)
(* updates that had failed there.                                          *)
(***************************************************************************)
KeepsOthersIfCaughtUp ==
  \A i \in Instances :
    (Update(i) \/ UpdateLost(i)) /\ kv' # kv /\ CaughtUp(i)
      => SymDiff(kv[Len(kv)], kv'[Len(kv')]) \subseteq unsaved[i] \cup {call[i].key}

(***************************************************************************)
(* For any number of instances and events: AddEvent and DeleteEvent of an  *)
(* instance whose watcher has caught up with the bucket write a value that *)
(* differs from the last one only in the updated event and in those of its *)
(* updates that had failed.  Only an instance that is behind overwrites what *)
(* another has written.                                                    *)
(***************************************************************************)
THEOREM OverwritesOnlyWhenBehind == Spec => [][KeepsOthersIfCaughtUp]_vars
<1>1. IInv => KeepsOthersIfCaughtUp
  <2> SUFFICES ASSUME IInv, NEW i \in Instances, Update(i) \/ UpdateLost(i),
                      kv' # kv, CaughtUp(i)
               PROVE  SymDiff(kv[Len(kv)], kv'[Len(kv')]) \subseteq unsaved[i] \cup {call[i].key}
    BY DEF KeepsOthersIfCaughtUp
  <2>1. kv \in Seq(SUBSET Keys) /\ events[i] \in SUBSET Keys
    BY DEF IInv, TypeOK
  <2>2. kv' = Append(kv, events[i]) /\ call[i].state = "sent"
    BY DEF Update, UpdateLost, Applied, storeVars
  <2>3. kv'[Len(kv')] = events[i]
    BY <2>1, <2>2, AppendFacts
  <2>4. SymDiff(events[i], kv[Len(kv)]) \subseteq unsaved[i] \cup {call[i].key}
    BY <2>2 DEF IInv, CallState
  <2> QED
    BY <2>3, <2>4 DEF SymDiff
<1> QED
  BY InitInv, StepInv, <1>1, PTL DEF Spec
=============================================================================
