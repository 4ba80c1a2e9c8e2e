------------------------ MODULE EventRegistryProofs ------------------------
(***************************************************************************)
(* Proofs about EventRegistry, for any number of handlers, keys and        *)
(* events: the inductive invariant IInv is kept by every step.             *)
(***************************************************************************)
EXTENDS EventRegistry, TLAPS

\* Appending an event to the ones created so far.
LEMMA AppendFacts ==
  ASSUME NEW T, NEW s \in Seq(T), NEW x \in T
  PROVE  /\ Append(s, x) \in Seq(T)
         /\ Len(s) \in Nat /\ Len(Append(s, x)) = Len(s) + 1
         /\ Append(s, x)[Len(s) + 1] = x
         /\ \A i \in 1 .. Len(s) : Append(s, x)[i] = s[i]
  OBVIOUS

\* The events created so far have a key of the system.
LEMMA EpdFacts ==
  ASSUME TypeOK, NEW e \in Epds
  PROVE  epd[e].key \in Keys /\ e # 0
<1>1. epd \in Seq(EpdType) /\ e \in 1 .. Len(epd) /\ Len(epd) \in Nat
  BY AppendFacts DEF TypeOK, Epds
<1>2. epd[e] \in EpdType
  BY <1>1
<1> QED
  BY <1>1, <1>2 DEF EpdType

\* The records that handlers are set to are handler states.
LEMMA IdleType == Idle \in CallType /\ Idle.at = "idle"
  BY DEF Idle, CallType

LEMMA NewCallType ==
  ASSUME NEW a \in {"storing", "unregister", "publish"}, NEW k \in Keys,
         NEW m \in Modes \cup {""}, NEW e \in Nat
  PROVE  [at |-> a, key |-> k, mode |-> m, epd |-> e] \in CallType
  BY DEF CallType

LEMMA GotoType ==
  ASSUME NEW r \in CallType,
         NEW a \in {"idle", "storing", "adding", "panic", "unregister", "saving",
                    "removing", "clearing", "publish", "sending"}
  PROVE  LET q == [r EXCEPT !.at = a]
         IN  q \in CallType /\ q.at = a /\ q.key = r.key /\ q.mode = r.mode /\ q.epd = r.epd
  BY DEF CallType

\* What a handler may be set to without a reservation in the table.
Plain(r) ==
  /\ r \in CallType
  /\ r.at = "adding" => r.mode = "transient"
  /\ r.at \in {"storing", "adding"} => r.key \in Keys /\ r.mode \in Modes
  /\ r.at \in {"unregister", "saving", "removing"} => r.key \in Keys

\* Handlers keep their invariant when one of them goes to such a state.
LEMMA CallerFrame ==
  ASSUME TypeOK, CallerState, NEW c \in Callers, NEW r, Plain(r),
         pc' = [pc EXCEPT ![c] = r], db' = db, epd' = epd
  PROVE  CallerState' /\ pc' \in [Callers -> CallType]
<1>1. pc' \in [Callers -> CallType] /\ pc'[c] = r /\ \A d \in Callers : d # c => pc'[d] = pc[d]
  BY DEF TypeOK, Plain
<1>2. ~Reserving(c)'
  BY <1>1 DEF Reserving, Plain
<1>3. \A d \in Callers : d # c => (Reserving(d)' <=> Reserving(d))
  BY <1>1 DEF Reserving
<1>4. Epds' = Epds /\ \A e \in Epds : Recorded(e)' <=> Recorded(e)
  BY DEF Epds, Recorded
<1>5. ASSUME NEW d \in Callers
      PROVE  /\ pc'[d].at \in {"storing", "adding"} => pc'[d].key \in Keys /\ pc'[d].mode \in Modes
             /\ pc'[d].at \in {"unregister", "saving", "removing"} => pc'[d].key \in Keys
  BY <1>1 DEF CallerState, Plain
<1>6. ASSUME NEW d \in Callers, Reserving(d)'
      PROVE  /\ pc'[d].key \in db'
             /\ \A e \in Epds' : ~(Recorded(e)' /\ epd'[e].key = pc'[d].key)
             /\ \A f \in Callers : Reserving(f)' /\ pc'[f].key = pc'[d].key => f = d
  <2>1. d # c /\ Reserving(d) /\ pc'[d] = pc[d]
    BY <1>1, <1>2, <1>3, <1>6
  <2>2. \A f \in Callers : Reserving(f)' => f # c /\ Reserving(f) /\ pc'[f] = pc[f]
    BY <1>1, <1>2, <1>3
  <2> QED
    BY <1>4, <2>1, <2>2 DEF CallerState
<1> QED
  BY <1>1, <1>5, <1>6 DEF CallerState

\* A step that only moves a handler and marks events stale or alive.
LEMMA PcOnly ==
  ASSUME IInv, NEW c \in Callers, NEW r, Plain(r), pc' = [pc EXCEPT ![c] = r],
         stale' \subseteq Epds, UNCHANGED <<lookup, epd, closed, db, wd, dropped>>
  PROVE  IInv'
<1>1. CallerState' /\ pc' \in [Callers -> CallType]
  BY CallerFrame DEF IInv
<1>2. TypeOK'
  BY <1>1 DEF IInv, TypeOK, Epds
<1>3. LookupState' /\ WatchdogState' /\ RegisteredIsOpen' /\ OpenIsRegistered'
  BY DEF IInv, LookupState, WatchdogState, RegisteredIsOpen, OpenIsRegistered, Epds
<1>4. OneRecording'
  BY DEF IInv, OneRecording, Epds, Recorded
<1> QED
  BY <1>1, <1>2, <1>3, <1>4 DEF IInv

\* The initial states satisfy the invariant.
LEMMA InitInv == Init => IInv
<1> SUFFICES ASSUME Init PROVE IInv
  OBVIOUS
<1>1. Epds = {}
  BY DEF Init, Epds
<1>2. TypeOK
  BY <1>1, IdleType DEF Init, TypeOK
<1>3. \A c \in Callers : pc[c].at = "idle"
  BY IdleType DEF Init
<1>4. CallerState
  BY <1>3 DEF CallerState, Reserving
<1>5. LookupState /\ WatchdogState /\ RegisteredIsOpen /\ OpenIsRegistered /\ OneRecording
  BY <1>1 DEF Init, LookupState, WatchdogState, RegisteredIsOpen, OpenIsRegistered, OneRecording
<1> QED
  BY <1>2, <1>4, <1>5 DEF IInv
-----------------------------------------------------------------------------
\* RegisterStore: a recording reserves its key, which no recorded event has.
LEMMA RegisterStoreInv ==
  ASSUME IInv, NEW c \in Callers, RegisterStore(c)
  PROVE  IInv'
<1> TypeOK /\ CallerState
  BY DEF IInv
<1>1. pc[c] \in CallType /\ pc[c].key \in Keys /\ pc[c].mode \in Modes
  BY DEF TypeOK, CallerState, RegisterStore
<1> DEFINE q == [pc[c] EXCEPT !.at = "adding"]
<1>2. q \in CallType /\ q.at = "adding" /\ q.key = pc[c].key /\ q.mode = pc[c].mode
  BY <1>1, GotoType
<1>3. CASE pc[c].mode = "transient" /\ Goto(c, "adding") /\ UNCHANGED db
  <2>1. pc' = [pc EXCEPT ![c] = q]
    BY <1>3 DEF Goto
  <2>2. Plain(q)
    BY <1>1, <1>2, <1>3 DEF Plain
  <2> HIDE DEF q
  <2> QED
    BY <1>3, <2>1, <2>2, PcOnly DEF RegisterStore, TypeOK
<1>4. CASE pc[c].mode = "persist" /\ Done(c) /\ UNCHANGED db
  <2>1. Plain(Idle)
    BY IdleType DEF Plain
  <2> QED
    BY <1>4, <2>1, PcOnly DEF RegisterStore, TypeOK, Done
<1>5. CASE /\ pc[c].mode = "persist" /\ pc[c].key \notin db
           /\ Goto(c, "adding")
           /\ db' = db \cup {pc[c].key}
  <2>1. pc' = [pc EXCEPT ![c] = q]
    BY <1>5 DEF Goto
  <2> HIDE DEF q
  <2>2. UNCHANGED <<lookup, epd, closed, stale, wd, dropped>>
    BY DEF RegisterStore
  <2>3. pc' \in [Callers -> CallType] /\ pc'[c] = q /\ \A d \in Callers : d # c => pc'[d] = pc[d]
    BY <1>2, <2>1 DEF TypeOK
  <2>4. TypeOK'
    BY <1>1, <1>5, <2>2, <2>3 DEF TypeOK, Epds
  <2>5. LookupState' /\ WatchdogState' /\ RegisteredIsOpen' /\ OpenIsRegistered'
    BY <2>2 DEF IInv, LookupState, WatchdogState, RegisteredIsOpen, OpenIsRegistered, Epds
  <2>6. OneRecording'
    BY <1>5, <2>2 DEF IInv, OneRecording, Epds, Recorded
  <2>7. Epds' = Epds /\ \A e \in Epds : Recorded(e)' <=> Recorded(e)
    BY <2>2 DEF Epds, Recorded
  <2>8. \A d \in Callers : d # c => (Reserving(d)' <=> Reserving(d))
    BY <2>3 DEF Reserving
  <2>9. ASSUME NEW d \in Callers
        PROVE  /\ pc'[d].at \in {"storing", "adding"} => pc'[d].key \in Keys /\ pc'[d].mode \in Modes
               /\ pc'[d].at \in {"unregister", "saving", "removing"} => pc'[d].key \in Keys
    BY <1>1, <1>2, <2>3 DEF CallerState
  <2>10. ASSUME NEW d \in Callers, Reserving(d)'
         PROVE  /\ pc'[d].key \in db'
                /\ \A e \in Epds' : ~(Recorded(e)' /\ epd'[e].key = pc'[d].key)
                /\ \A f \in Callers : Reserving(f)' /\ pc'[f].key = pc'[d].key => f = d
    <3>1. \A e \in Epds : Recorded(e) => epd[e].key # pc[c].key
      BY <1>5 DEF IInv, OneRecording
    <3>2. \A f \in Callers : f # c /\ Reserving(f) => pc[f].key \in db /\ pc[f].key # pc[c].key
      BY <1>5 DEF CallerState
    <3>3. CASE d = c
      <4>1. pc'[d].key = pc[c].key
        BY <1>2, <2>3, <3>3
      <4>2. \A f \in Callers : f # c /\ Reserving(f)' => pc'[f].key # pc[c].key
        BY <2>3, <2>8, <3>2
      <4> QED
        BY <1>5, <2>2, <2>7, <3>1, <3>3, <4>1, <4>2
    <3>4. CASE d # c
      <4>1. Reserving(d) /\ pc'[d] = pc[d]
        BY <2>3, <2>8, <2>10, <3>4
      <4>2. pc'[c].key = pc[c].key
        BY <1>2, <2>3
      <4>3. pc'[d].key # pc'[c].key
        BY <3>2, <3>4, <4>1, <4>2
      <4>4. \A f \in Callers : Reserving(f)' /\ pc'[f].key = pc'[d].key => f = d
        BY <2>3, <2>8, <4>1, <4>3 DEF CallerState
      <4> QED
        BY <1>5, <2>2, <2>7, <4>1, <4>4 DEF CallerState
    <3> QED
      BY <3>3, <3>4
  <2>11. CallerState'
    BY <2>9, <2>10 DEF CallerState
  <2> QED
    BY <2>4, <2>5, <2>6, <2>11 DEF IInv
<1> QED
  BY <1>3, <1>4, <1>5 DEF RegisterStore
\* RegisterAdd: the new event has the key that was free in the lookup, and a
\* recording uses up its reservation.
LEMMA RegisterAddInv ==
  ASSUME IInv, NEW c \in Callers, RegisterAdd(c)
  PROVE  IInv'
<1> TypeOK /\ CallerState /\ LookupState /\ WatchdogState
  BY DEF IInv
<1>0. PICK n \in Nat : n = Len(epd) + 1
  BY AppendFacts DEF TypeOK
<1> DEFINE k == pc[c].key
           x == [key |-> k, mode |-> pc[c].mode]
<1>1. pc[c].at = "adding" /\ k \in Keys /\ pc[c].mode \in Modes /\ lookup[k] = 0
  BY DEF CallerState, RegisterAdd
<1>2. x \in EpdType /\ x.key = k /\ x.mode = pc[c].mode
  BY <1>1 DEF EpdType
<1>3. /\ epd' \in Seq(EpdType) /\ Len(epd) \in Nat /\ Len(epd') = n /\ epd'[n] = x
      /\ \A e \in Epds : epd'[e] = epd[e]
  BY <1>0, <1>2, AppendFacts DEF TypeOK, RegisterAdd, Epds
<1>4. Epds' = Epds \cup {n} /\ n \notin Epds /\ n \in Nat /\ n # 0
  BY <1>0, <1>3 DEF Epds
<1>5. /\ lookup' = [lookup EXCEPT ![k] = n] /\ pc' = [pc EXCEPT ![c] = Idle]
      /\ UNCHANGED <<closed, stale, db, wd, dropped>>
  BY <1>0 DEF RegisterAdd, Done
<1> HIDE DEF x, k
<1>b. epd'[n].key = k /\ epd'[n].mode = pc[c].mode
  BY <1>2, <1>3
<1>6. lookup' \in [Keys -> Nat] /\ lookup'[k] = n /\ \A l \in Keys : l # k => lookup'[l] = lookup[l]
  BY <1>1, <1>4, <1>5 DEF TypeOK
<1>7. pc' \in [Callers -> CallType] /\ pc'[c].at = "idle" /\ \A d \in Callers : d # c => pc'[d] = pc[d]
  BY <1>5, IdleType DEF TypeOK
<1>8. TypeOK'
  <2>1. wd' \in [at : {"sleep", "next", "delete"}, todo : SUBSET Epds', epd : Nat]
    <3>1. wd.todo \subseteq Epds'
      BY <1>4 DEF WatchdogState
    <3> QED
      BY <1>5, <3>1 DEF TypeOK
  <2> QED
    BY <1>3, <1>4, <1>5, <1>6, <1>7, <2>1 DEF TypeOK
<1>9. LookupState'
  BY <1>2, <1>3, <1>4, <1>6 DEF LookupState
<1>10. WatchdogState'
  BY <1>4, <1>5 DEF WatchdogState
<1>11. RegisteredIsOpen'
  BY <1>4, <1>5, <1>6 DEF IInv, RegisteredIsOpen, TypeOK
<1>12. OpenIsRegistered'
  <2> SUFFICES ASSUME NEW e \in Epds'
               PROVE  e \in closed \/ lookup'[epd'[e].key] = e \/ e \in dropped
    BY <1>5 DEF OpenIsRegistered
  <2>1. CASE e = n
    BY <1>2, <1>3, <1>6, <2>1
  <2>2. CASE e \in Epds
    <3>1. epd'[e] = epd[e] /\ epd[e].key \in Keys /\ e # 0
      BY <1>3, <2>2, EpdFacts
    <3> QED
      BY <1>1, <1>6, <2>2, <3>1 DEF IInv, OpenIsRegistered
  <2> QED
    BY <1>4, <2>1, <2>2
<1>13. /\ \A e \in Epds : Recorded(e)' <=> Recorded(e)
       /\ Recorded(n)' => Reserving(c)
  <2>1. Recorded(n)' => Reserving(c)
    BY <1>1, <1>b DEF Recorded, Reserving
  <2>2. \A e \in Epds : Recorded(e)' <=> Recorded(e)
    BY <1>3 DEF Recorded
  <2> QED
    BY <2>1, <2>2
<1>14. OneRecording'
  <2>1. Recorded(n)' => k \in db /\ \A e \in Epds : ~(Recorded(e) /\ epd[e].key = k)
    BY <1>13 DEF CallerState, k
  <2>2. ASSUME NEW e \in Epds', Recorded(e)' PROVE epd'[e].key \in db'
    <3>1. CASE e = n
      BY <1>b, <1>5, <2>1, <2>2, <3>1
    <3>2. CASE e \in Epds
      BY <1>3, <1>5, <1>13, <2>2, <3>2 DEF IInv, OneRecording
    <3> QED
      BY <1>4, <3>1, <3>2
  <2>3. ASSUME NEW e \in Epds', NEW f \in Epds', Recorded(e)', Recorded(f)',
               epd'[e].key = epd'[f].key
        PROVE  e = f
    <3>1. CASE e \in Epds /\ f \in Epds
      BY <1>3, <1>13, <2>3, <3>1 DEF IInv, OneRecording
    <3>2. CASE e = n /\ f \in Epds
      BY <1>b, <1>3, <1>13, <2>1, <2>3, <3>2
    <3>3. CASE f = n /\ e \in Epds
      BY <1>b, <1>3, <1>13, <2>1, <2>3, <3>3
    <3> QED
      BY <1>4, <3>1, <3>2, <3>3
  <2> QED
    BY <2>2, <2>3 DEF OneRecording
<1>15. CallerState'
  <2>1. ASSUME NEW d \in Callers
        PROVE  /\ pc'[d].at \in {"storing", "adding"} => pc'[d].key \in Keys /\ pc'[d].mode \in Modes
               /\ pc'[d].at \in {"unregister", "saving", "removing"} => pc'[d].key \in Keys
    BY <1>7 DEF CallerState
  <2>2. \A d \in Callers : Reserving(d)' => d # c /\ Reserving(d) /\ pc'[d] = pc[d]
    BY <1>7 DEF Reserving
  <2>3. ASSUME NEW d \in Callers, Reserving(d)'
        PROVE  /\ pc'[d].key \in db'
               /\ \A e \in Epds' : ~(Recorded(e)' /\ epd'[e].key = pc'[d].key)
               /\ \A f \in Callers : Reserving(f)' /\ pc'[f].key = pc'[d].key => f = d
    <3>1. d # c /\ Reserving(d) /\ pc'[d] = pc[d]
      BY <2>2, <2>3
    <3>2. Reserving(c) => pc[d].key # k
      BY <3>1 DEF CallerState, k
    <3>3. ASSUME NEW e \in Epds', Recorded(e)' PROVE epd'[e].key # pc'[d].key
      <4>1. CASE e = n
        BY <1>b, <1>13, <3>1, <3>2, <3>3, <4>1
      <4>2. CASE e \in Epds
        BY <1>3, <1>13, <3>1, <3>3, <4>2 DEF CallerState
      <4> QED
        BY <1>4, <4>1, <4>2
    <3> QED
      BY <1>5, <2>2, <3>1, <3>3 DEF CallerState
  <2> QED
    BY <2>1, <2>3 DEF CallerState
<1> QED
  BY <1>8, <1>9, <1>10, <1>11, <1>12, <1>14, <1>15 DEF IInv
\* UnregisterRemove: the event is closed and leaves the lookup in one step.
LEMMA UnregisterRemoveInv ==
  ASSUME IInv, NEW c \in Callers, UnregisterRemove(c)
  PROVE  IInv'
<1> TypeOK /\ CallerState /\ LookupState /\ WatchdogState
  BY DEF IInv
<1>0. pc[c].key \in Keys /\ Plain(Idle)
  BY IdleType DEF CallerState, UnregisterRemove, Plain
<1>1. CASE lookup[pc[c].key] = 0
  <2>1. UNCHANGED <<lookup, epd, closed, stale, db, wd, dropped>> /\ pc' = [pc EXCEPT ![c] = Idle]
    BY <1>1 DEF UnregisterRemove, Done
  <2> QED
    BY <1>0, <2>1, PcOnly DEF TypeOK
<1>2. CASE lookup[pc[c].key] # 0
  <2>1. PICK k \in Keys, e \in Epds : k = pc[c].key /\ e = lookup[k] /\ epd[e].key = k
    BY <1>0, <1>2 DEF LookupState
  <2>2. /\ closed' = closed \cup {e} /\ lookup' = [lookup EXCEPT ![k] = 0]
        /\ pc' = [pc EXCEPT ![c] = Idle] /\ UNCHANGED <<epd, stale, db, wd, dropped>>
    BY <1>2, <2>1 DEF UnregisterRemove, Close, Done
  <2>3. /\ lookup' \in [Keys -> Nat] /\ lookup'[k] = 0 /\ Epds' = Epds
        /\ \A l \in Keys : l # k => lookup'[l] = lookup[l]
    BY <2>2 DEF TypeOK, Epds
  <2>4. CallerState' /\ pc' \in [Callers -> CallType]
    BY <1>0, <2>2, CallerFrame
  <2>5. TypeOK'
    BY <2>2, <2>3, <2>4 DEF TypeOK
  <2>6. LookupState' /\ WatchdogState'
    BY <2>2, <2>3 DEF LookupState, WatchdogState
  <2>7. RegisteredIsOpen'
    BY <2>1, <2>2, <2>3 DEF IInv, RegisteredIsOpen, LookupState
  <2>8. OpenIsRegistered'
    <3> SUFFICES ASSUME NEW f \in Epds, f # e
                 PROVE  f \in closed \/ lookup'[epd[f].key] = f \/ f \in dropped
      BY <2>2, <2>3 DEF OpenIsRegistered
    <3>1. epd[f].key \in Keys /\ (lookup[epd[f].key] = f => epd[f].key # k)
      BY <2>1, EpdFacts
    <3> QED
      BY <2>3, <3>1 DEF IInv, OpenIsRegistered
  <2>9. OneRecording'
    BY <2>2 DEF IInv, OneRecording, Epds, Recorded
  <2> QED
    BY <2>4, <2>5, <2>6, <2>7, <2>8, <2>9 DEF IInv
<1> QED
  BY <1>1, <1>2

\* Clear: what was registered is dropped.
LEMMA ClearInv ==
  ASSUME IInv, NEW c \in Callers, Clear(c)
  PROVE  IInv'
<1> TypeOK /\ CallerState /\ LookupState /\ WatchdogState
  BY DEF IInv
<1>1. /\ lookup' = [k \in Keys |-> 0] /\ dropped' = dropped \cup Registered
      /\ pc' = [pc EXCEPT ![c] = Idle] /\ UNCHANGED <<epd, closed, stale, db, wd>>
  BY DEF Clear, Done
<1>2. Registered \subseteq Epds /\ Epds' = Epds
  BY <1>1 DEF Registered, LookupState, Epds
<1>3. CallerState' /\ pc' \in [Callers -> CallType]
  <2>1. Plain(Idle)
    BY IdleType DEF Plain
  <2> QED
    BY <1>1, <2>1, CallerFrame
<1>4. TypeOK'
  BY <1>1, <1>2, <1>3 DEF TypeOK
<1>5. LookupState' /\ WatchdogState' /\ RegisteredIsOpen'
  BY <1>1, <1>2 DEF LookupState, WatchdogState, RegisteredIsOpen
<1>6. OpenIsRegistered'
  <2> SUFFICES ASSUME NEW f \in Epds PROVE f \in closed \/ f \in dropped \cup Registered
    BY <1>1, <1>2 DEF OpenIsRegistered
  <2>1. epd[f].key \in Keys /\ f # 0
    BY EpdFacts
  <2> QED
    BY <2>1 DEF IInv, OpenIsRegistered, Registered
<1>7. OneRecording'
  BY <1>1 DEF IInv, OneRecording, Epds, Recorded
<1> QED
  BY <1>3, <1>4, <1>5, <1>6, <1>7 DEF IInv

\* The steps of the watchdog and of time leave the handlers alone.
LEMMA CallerSame ==
  ASSUME CallerState, UNCHANGED <<pc, db, epd>>
  PROVE  CallerState'
  BY DEF CallerState, Reserving, Recorded, Epds

LEMMA WatchdogInv ==
  ASSUME IInv, Watchdog
  PROVE  IInv'
<1> TypeOK /\ CallerState /\ LookupState /\ WatchdogState
  BY DEF IInv
<1>0. UNCHANGED <<epd, stale, db, pc>> /\ Epds' = Epds
  BY DEF Watchdog, WatchdogScan, WatchdogClose, WatchdogDelete, Epds
<1>1. CallerState'
  BY <1>0, CallerSame
<1>2. OneRecording'
  BY <1>0 DEF IInv, OneRecording, Recorded
<1>3. CASE WatchdogScan
  <2>1. /\ UNCHANGED <<lookup, closed, dropped>>
        /\ wd' = [at |-> "next", todo |-> Registered \cap stale, epd |-> 0] /\ wd.at = "sleep"
    BY <1>3 DEF WatchdogScan
  <2>2. Registered \cap stale \subseteq Epds
    BY DEF TypeOK
  <2>3. TypeOK'
    BY <1>0, <2>1, <2>2 DEF TypeOK
  <2>4. LookupState' /\ WatchdogState' /\ RegisteredIsOpen' /\ OpenIsRegistered'
    BY <1>0, <2>1, <2>2 DEF IInv, LookupState, WatchdogState, RegisteredIsOpen, OpenIsRegistered
  <2> QED
    BY <1>1, <1>2, <2>3, <2>4 DEF IInv
<1>4. CASE WatchdogClose
  <2>1. PICK e \in wd.todo :
          /\ closed' = closed \cup {e}
          /\ wd' = [at |-> "delete", todo |-> wd.todo \ {e}, epd |-> e]
    BY <1>4 DEF WatchdogClose, Close
  <2>2. UNCHANGED <<lookup, dropped>> /\ wd.at = "next" /\ wd.todo \subseteq Epds /\ e \in Epds
    BY <1>4 DEF WatchdogClose, WatchdogState
  <2>3. e \in Nat
    BY <2>2 DEF Epds
  <2>4. TypeOK'
    BY <1>0, <2>1, <2>2, <2>3 DEF TypeOK
  <2>5. LookupState' /\ WatchdogState'
    BY <1>0, <2>1, <2>2 DEF LookupState, WatchdogState
  <2>6. RegisteredIsOpen'
    BY <1>0, <2>1, <2>2 DEF IInv, RegisteredIsOpen
  <2>7. OpenIsRegistered'
    BY <1>0, <2>1, <2>2 DEF IInv, OpenIsRegistered
  <2> QED
    BY <1>1, <1>2, <2>4, <2>5, <2>6, <2>7 DEF IInv
<1>5. CASE WatchdogDelete
  <2>1. PICK e \in Epds, k \in Keys : wd.epd = e /\ wd.at = "delete" /\ e \in closed /\ epd[e].key = k
    BY <1>5, EpdFacts DEF WatchdogDelete, WatchdogState
  <2>2. /\ lookup' = [lookup EXCEPT ![k] = 0] /\ dropped' = dropped \cup ({lookup[k]} \ {0, e})
        /\ UNCHANGED closed
        /\ wd' = [wd EXCEPT !.at = IF wd.todo = {} THEN "sleep" ELSE "next", !.epd = 0]
    BY <1>5, <2>1 DEF WatchdogDelete
  <2>3. /\ wd' \in [at : {"sleep", "next", "delete"}, todo : SUBSET Epds, epd : Nat]
        /\ wd'.at # "delete" /\ wd'.todo = wd.todo
    BY <2>2 DEF TypeOK
  <2>4. /\ lookup' \in [Keys -> Nat] /\ lookup'[k] = 0
        /\ \A l \in Keys : l # k => lookup'[l] = lookup[l]
    BY <2>2 DEF TypeOK
  <2>5. dropped' \subseteq Epds
    BY <2>2 DEF TypeOK, LookupState
  <2>6. TypeOK'
    BY <1>0, <2>2, <2>3, <2>4, <2>5 DEF TypeOK
  <2>7. LookupState' /\ WatchdogState'
    BY <1>0, <2>3, <2>4 DEF LookupState, WatchdogState
  <2>8. RegisteredIsOpen'
    BY <2>1, <2>2, <2>4 DEF IInv, RegisteredIsOpen, LookupState
  <2>9. OpenIsRegistered'
    <3> SUFFICES ASSUME NEW f \in Epds
                 PROVE  f \in closed \/ lookup'[epd[f].key] = f \/ f \in dropped'
      BY <1>0, <2>2 DEF OpenIsRegistered
    <3>1. epd[f].key \in Keys /\ f # 0
      BY EpdFacts
    <3>2. CASE epd[f].key = k /\ lookup[k] = f
      BY <2>1, <2>2, <3>1, <3>2
    <3>3. CASE ~(epd[f].key = k /\ lookup[k] = f)
      BY <2>2, <2>4, <3>1, <3>3 DEF IInv, OpenIsRegistered
    <3> QED
      BY <3>2, <3>3
  <2> QED
    BY <1>1, <1>2, <2>6, <2>7, <2>8, <2>9 DEF IInv
<1> QED
  BY <1>3, <1>4, <1>5 DEF Watchdog
\* The handler steps that only move the handler.
LEMMA MovesInv ==
  ASSUME IInv, NEW c \in Callers,
         \/ \E k \in Keys : \/ \E mode \in Modes : RegisterCheck(c, k, mode)
                            \/ UnregisterValidate(c, k) \/ PublishLookup(c, k)
         \/ RegisterAddNil(c) \/ PanicRecovered(c)
         \/ UnregisterLoad(c) \/ UnregisterSave(c) \/ UnregisterAllSave(c)
         \/ PublishMark(c) \/ PublishSend(c)
  PROVE  IInv'
<1> TypeOK /\ CallerState
  BY DEF IInv
<1>1. UNCHANGED <<lookup, epd, closed, db, wd, dropped>> /\ stale' \subseteq Epds
  BY DEF TypeOK, RegisterCheck, UnregisterValidate, PublishLookup, RegisterAddNil,
     PanicRecovered, UnregisterLoad, UnregisterSave, UnregisterAllSave, PublishMark, PublishSend
<1>2. pc[c] \in CallType /\ Plain(Idle)
  BY IdleType DEF TypeOK, Plain
<1>3. ASSUME NEW a \in {"panic", "saving", "removing", "clearing", "sending"},
             a \in {"saving", "removing"} => pc[c].key \in Keys, Goto(c, a)
      PROVE  IInv'
  <2> DEFINE r == pc[c]
             q == [r EXCEPT !.at = a]
  <2>0. a \in {"idle", "storing", "adding", "panic", "unregister", "saving",
               "removing", "clearing", "publish", "sending"}
    BY <1>3
  <2>1. q \in CallType /\ q.at = a /\ q.key = pc[c].key
    <3>1. r \in CallType
      BY <1>2
    <3> HIDE DEF r
    <3>2. q \in CallType /\ q.at = a /\ q.key = r.key
      BY <2>0, <3>1 DEF CallType
    <3> QED
      BY <3>2 DEF r
  <2>2. pc' = [pc EXCEPT ![c] = q]
    BY <1>3 DEF Goto
  <2> HIDE DEF q
  <2>3. Plain(q)
    BY <1>3, <2>1 DEF Plain
  <2> QED
    BY <1>1, <2>2, <2>3, PcOnly
<1>4. ASSUME Done(c) PROVE IInv'
  BY <1>1, <1>2, <1>4, PcOnly DEF Done
<1>5. ASSUME NEW k \in Keys, NEW a \in {"storing", "unregister", "publish"},
             NEW m \in Modes \cup {""}, a = "storing" => m \in Modes, NEW e \in Nat,
             pc' = [pc EXCEPT ![c] = [at |-> a, key |-> k, mode |-> m, epd |-> e]]
      PROVE  IInv'
  <2> DEFINE q == [at |-> a, key |-> k, mode |-> m, epd |-> e]
  <2>1. q \in CallType /\ q.at = a /\ q.key = k /\ q.mode = m
    BY <1>5, NewCallType
  <2>2. pc' = [pc EXCEPT ![c] = q]
    BY <1>5
  <2> HIDE DEF q
  <2>3. Plain(q)
    BY <1>5, <2>1 DEF Plain
  <2> QED
    BY <1>1, <2>2, <2>3, PcOnly
<1>6. CASE \E k \in Keys, mode \in Modes : RegisterCheck(c, k, mode)
  BY <1>5, <1>6 DEF RegisterCheck
<1>7. CASE \E k \in Keys : UnregisterValidate(c, k)
  BY <1>5, <1>7 DEF UnregisterValidate
<1>8. CASE \E k \in Keys : PublishLookup(c, k)
  <2>1. \A k \in Keys : lookup[k] \in Nat
    BY DEF TypeOK
  <2> QED
    BY <1>5, <1>8, <2>1 DEF PublishLookup
<1>9. CASE RegisterAddNil(c) \/ UnregisterSave(c) \/ UnregisterAllSave(c) \/ PublishMark(c)
  <2>1. pc[c].at = "saving" => pc[c].key \in Keys
    BY DEF CallerState
  <2>2. CASE RegisterAddNil(c)
    BY <1>3, <2>2 DEF RegisterAddNil
  <2>3. CASE UnregisterSave(c)
    BY <1>3, <2>1, <2>3 DEF UnregisterSave
  <2>4. CASE UnregisterAllSave(c)
    BY <1>3, <2>4 DEF UnregisterAllSave
  <2>5. CASE PublishMark(c)
    BY <1>3, <2>5 DEF PublishMark
  <2> QED
    BY <1>9, <2>2, <2>3, <2>4, <2>5
<1>10. CASE PanicRecovered(c) \/ PublishSend(c)
  BY <1>4, <1>10 DEF PanicRecovered, PublishSend
<1>11. CASE UnregisterLoad(c)
  <2>1. pc[c].key \in Keys
    BY <1>11 DEF CallerState, UnregisterLoad
  <2> QED
    BY <1>3, <1>4, <1>11, <2>1 DEF UnregisterLoad
<1> QED
  BY <1>6, <1>7, <1>8, <1>9, <1>10, <1>11

\* Every step preserves the invariant.
LEMMA StepInv == IInv /\ [Next]_vars => IInv'
<1> SUFFICES ASSUME IInv, [Next]_vars PROVE IInv'
  OBVIOUS
<1>1. ASSUME NEW c \in Callers, Handler(c) PROVE IInv'
  BY <1>1, MovesInv, RegisterStoreInv, RegisterAddInv, UnregisterRemoveInv, ClearInv DEF Handler
<1>2. ASSUME NEW e \in Epds, GetStale(e) PROVE IInv'
  <2>1. UNCHANGED <<lookup, epd, closed, db, pc, wd, dropped>> /\ stale' \subseteq Epds
    BY <1>2 DEF GetStale, IInv, TypeOK
  <2>2. CallerState'
    BY <2>1, CallerSame DEF IInv
  <2>3. TypeOK' /\ LookupState' /\ WatchdogState' /\ RegisteredIsOpen' /\ OpenIsRegistered'
    BY <2>1 DEF IInv, TypeOK, LookupState, WatchdogState, RegisteredIsOpen, OpenIsRegistered, Epds
  <2>4. OneRecording'
    BY <2>1 DEF IInv, OneRecording, Epds, Recorded
  <2> QED
    BY <2>2, <2>3, <2>4 DEF IInv
<1>3. CASE Watchdog
  BY <1>3, WatchdogInv
<1>4. CASE UNCHANGED vars
  <2>1. CallerState'
    BY <1>4, CallerSame DEF IInv, vars
  <2>2. TypeOK' /\ LookupState' /\ WatchdogState' /\ RegisteredIsOpen' /\ OpenIsRegistered'
    BY <1>4 DEF vars, IInv, TypeOK, LookupState, WatchdogState, RegisteredIsOpen, OpenIsRegistered, Epds
  <2>3. OneRecording'
    BY <1>4 DEF vars, IInv, OneRecording, Epds, Recorded
  <2> QED
    BY <2>1, <2>2, <2>3 DEF IInv
<1> QED
  BY <1>1, <1>2, <1>3, <1>4 DEF Next

(***************************************************************************)
(* The type invariant of EventRegistry.                                    *)
(***************************************************************************)
THEOREM TypeCorrect == Spec => []TypeOK
<1>1. IInv => TypeOK
  BY DEF IInv
<1> QED
  BY InitInv, StepInv, <1>1, PTL DEF Spec

(***************************************************************************)
(* Whatever handlers and watchdog do, an event in the lookup has running   *)
(* broadcast servers, but for the one the watchdog is just deleting.       *)
(***************************************************************************)
THEOREM RegisteredOpen == Spec => []RegisteredIsOpen
<1>1. IInv => RegisteredIsOpen
  BY DEF IInv
<1> QED
  BY InitInv, StepInv, <1>1, PTL DEF Spec

(***************************************************************************)
(* Only Clear and the watchdog lose events that are still open.            *)
(***************************************************************************)
THEOREM OpenRegistered == Spec => []OpenIsRegistered
<1>1. IInv => OpenIsRegistered
  BY DEF IInv
<1> QED
  BY InitInv, StepInv, <1>1, PTL DEF Spec

(***************************************************************************)
(* Racing registrations never record one key twice.                        *)
(***************************************************************************)
THEOREM RecordedOnce == Spec => []OneRecording
<1>1. IInv => OneRecording
  BY DEF IInv
<1> QED
  BY InitInv, StepInv, <1>1, PTL DEF Spec

(***************************************************************************)
(* What the watchdog does wrong, and no more: an event of a key is only    *)
(* registered after those of the key before it, so the event that the      *)
(* watchdog deletes is the one it has found stale and closed, or one that  *)
(* was registered under the same key since; it never deletes another key.  *)
(***************************************************************************)
NewestRegistered ==
  \A k \in Keys : \A e \in Epds : lookup[k] # 0 /\ epd[e].key = k => e <= lookup[k]

RemovesOnlyItsKey ==
  WatchdogDelete =>
    \A k \in Keys : lookup'[k] # lookup[k] => k = epd[wd.epd].key /\ wd.epd <= lookup[k]

\* The events there are keep their key, and a key keeps its event, or has none,
\* or a new one.
LEMMA LookupMoves ==
  ASSUME IInv, [Next]_vars
  PROVE  \/ epd' = epd /\ \A k \in Keys : lookup'[k] \in {lookup[k], 0}
         \/ \E c \in Callers : RegisterAdd(c)
<1>1. lookup \in [Keys -> Nat]
  BY DEF IInv, TypeOK
<1>2. ASSUME NEW c \in Callers, Handler(c), ~RegisterAdd(c)
      PROVE  epd' = epd /\ \A k \in Keys : lookup'[k] \in {lookup[k], 0}
  <2>1. CASE UnregisterRemove(c)
    BY <1>1, <2>1 DEF UnregisterRemove
  <2>2. CASE Clear(c)
    BY <2>2 DEF Clear
  <2>3. CASE ~UnregisterRemove(c) /\ ~Clear(c)
    BY <1>2, <2>3 DEF Handler, RegisterCheck, RegisterStore, RegisterAddNil, PanicRecovered,
       UnregisterValidate, UnregisterLoad, UnregisterSave, UnregisterAllSave,
       PublishLookup, PublishMark, PublishSend
  <2> QED
    BY <2>1, <2>2, <2>3
<1>3. CASE Watchdog
  BY <1>1, <1>3 DEF Watchdog, WatchdogScan, WatchdogClose, WatchdogDelete
<1>4. CASE (\E e \in Epds : GetStale(e)) \/ UNCHANGED vars
  BY <1>4 DEF GetStale, vars
<1> QED
  BY <1>2, <1>3, <1>4 DEF Next

(***************************************************************************)
(* The entry that the lookup holds for a key is the one that was registered *)
(* last under it: RegisterEvent never leaves an older event in place, and no *)
(* handler brings one back.                                                *)
(***************************************************************************)
THEOREM RegisteredIsNewest == Spec => []NewestRegistered
<1>1. Init => NewestRegistered
  BY DEF Init, NewestRegistered
<1>2. IInv /\ NewestRegistered /\ [Next]_vars => NewestRegistered'
  <2> SUFFICES ASSUME IInv, NewestRegistered, [Next]_vars PROVE NewestRegistered'
    OBVIOUS
  <2>1. CASE epd' = epd /\ \A k \in Keys : lookup'[k] \in {lookup[k], 0}
    BY <2>1 DEF NewestRegistered, Epds
  <2>2. ASSUME NEW c \in Callers, RegisterAdd(c) PROVE NewestRegistered'
    <3>1. PICK n \in Nat, k \in Keys : n = Len(epd) + 1 /\ k = pc[c].key
      BY <2>2, AppendFacts DEF IInv, TypeOK, CallerState, RegisterAdd
    <3>2. [key |-> pc[c].key, mode |-> pc[c].mode] \in EpdType
      BY <2>2 DEF IInv, CallerState, RegisterAdd, EpdType
    <3>3. /\ Len(epd') = n /\ epd'[n].key = k
          /\ \A e \in 1 .. Len(epd) : epd'[e] = epd[e]
      BY <2>2, <3>1, <3>2, AppendFacts DEF IInv, TypeOK, RegisterAdd
    <3>4. lookup'[k] = n /\ \A l \in Keys \ {k} : lookup'[l] = lookup[l]
      BY <2>2, <3>1 DEF IInv, TypeOK, RegisterAdd
    <3>5. Epds = 1 .. Len(epd) /\ Epds' = 1 .. n /\ Len(epd) \in Nat
      BY <3>3, AppendFacts DEF IInv, TypeOK, Epds
    <3> SUFFICES ASSUME NEW l \in Keys, NEW e \in Epds', lookup'[l] # 0, epd'[e].key = l
                 PROVE  e <= lookup'[l]
      BY DEF NewestRegistered
    <3>6. CASE l = k
      BY <3>4, <3>5, <3>6
    <3>7. CASE l # k
      <4>1. e # n /\ e \in Epds /\ epd[e].key = l /\ lookup'[l] = lookup[l]
        BY <3>1, <3>3, <3>4, <3>5, <3>7
      <4> QED
        BY <4>1 DEF NewestRegistered
    <3> QED
      BY <3>6, <3>7
  <2> QED
    BY <2>1, <2>2, LookupMoves
<1> QED
  BY InitInv, StepInv, <1>1, <1>2, PTL DEF Spec

(***************************************************************************)
(* The delete of the watchdog after closing a stale event takes out of the *)
(* lookup no other key than that of this event, and under the key only this *)
(* event or one that was registered there after it.                        *)
(***************************************************************************)
THEOREM WatchdogRemovesOnlyItsKey == Spec => [][RemovesOnlyItsKey]_vars
<1>1. IInv /\ NewestRegistered => RemovesOnlyItsKey
  <2> SUFFICES ASSUME IInv, NewestRegistered, WatchdogDelete, NEW k \in Keys, lookup'[k] # lookup[k]
               PROVE  k = epd[wd.epd].key /\ wd.epd <= lookup[k]
    BY DEF RemovesOnlyItsKey
  <2>1. PICK e \in Epds, l \in Keys : e = wd.epd /\ l = epd[e].key
    BY EpdFacts DEF IInv, WatchdogState, WatchdogDelete
  <2>2. lookup' = [lookup EXCEPT ![l] = 0] /\ lookup \in [Keys -> Nat]
    BY <2>1 DEF IInv, TypeOK, WatchdogDelete
  <2>3. k = l /\ lookup[k] # 0
    BY <2>2
  <2> QED
    BY <2>1, <2>3 DEF NewestRegistered
<1> QED
  BY RegisteredIsNewest, InitInv, StepInv, <1>1, PTL DEF Spec
=============================================================================
