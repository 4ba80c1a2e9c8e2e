-------------------------- MODULE ProcessorProofs --------------------------
(***************************************************************************)
(* Proofs about Processor for any number of callers of PublishSpeedmap,    *)
(* any cars and any length of a session: what the snapshots hold, how far  *)
(* apart they are, the span of the race that replays use, and the tables   *)
(* of laps, of the infos that wait for their laps, and of race graphs.     *)
(***************************************************************************)
EXTENDS Processor, FiniteSetTheorems, WellFoundedInduction, TLAPS

(* The strengthening. *)

Handler == [at : {"idle", "check", "read", "send", "mark"},
            stamp : Nat, base : Nat, time : Nat, rest : Nat, alone : BOOLEAN]
Snapshot == [at : {"send"}, stamp : Nat, base : Nat, time : Nat, rest : Nat, alone : BOOLEAN]

Scalars ==
  /\ now \in Nat /\ start \in 1..(now + 1)
  /\ state \in 0..now /\ session \in 0..now /\ snapshot \in 0..now
  /\ \A c \in Callers : handler[c].stamp \in 0..now
  /\ handler \in [Callers -> Handler]
  /\ snapshots \in Seq(Snapshot)

\* What a handler has read of the session data is not undone, as the session
\* data only get newer.
Held(c) ==
  LET h == handler[c] IN
    /\ h.base <= session /\ (h.at # "idle" => 0 < h.stamp)
    /\ h.at \in {"read", "send"} => 0 < h.time /\ h.base <= h.time /\ h.time <= session
    /\ h.at = "send" => h.time <= h.rest /\ h.rest <= session

Newer == state # 0 => session <= state

\* A handler that is alone is the only one; what one that ran alone has sent is
\* older than every handler in progress, and marked unless its handler has yet
\* to do so.
Alone(c) == handler[c].at # "idle" /\ handler[c].alone => \A d \in Callers \ {c} : handler[d].at = "idle"

Marked(i) ==
  snapshots[i].alone =>
    /\ 0 < snapshots[i].stamp
    /\ \A c \in Callers : handler[c].at # "idle" => snapshots[i].stamp <= handler[c].stamp
    /\ snapshots[i].stamp <= snapshot \/ \E c \in Callers : handler[c].at = "mark"
    /\ \A c \in Callers : handler[c].at \in {"read", "send"} /\ handler[c].alone =>
         handler[c].stamp - snapshots[i].stamp > SnapshotGap

\* The span of the race, while the session lasts in which it began.
Span ==
  /\ replay.from \in 0..now /\ replay.to \in 0..now /\ replay.from <= replay.to
  /\ replay.minTime \in Int /\ replay.maxTime \in Int
  /\ replay.from >= start => replay.minTime = replay.from - start /\ replay.maxTime = replay.to - start

IInv ==
  /\ Scalars /\ Newer /\ Span
  /\ \A c \in Callers : Held(c) /\ Alone(c)
  /\ \A i \in DOMAIN snapshots : Marked(i)
  /\ SnapshotsSpaced /\ SnapshotSession

-----------------------------------------------------------------------------
(* The steps as the handlers see them.                                      *)

\* Messages and sessions: time passes, handlers and snapshots stay.
Time ==
  /\ now' = now + 1 \/ now' = now
  /\ UNCHANGED <<handler, snapshot, snapshots>>
  /\ session' \in 0..now' /\ session <= session'

LEMMA SnapshotFacts ==
  ASSUME Scalars
  PROVE  /\ \A i \in DOMAIN snapshots : /\ {snapshots[i].stamp, snapshots[i].rest, snapshots[i].time} \subseteq Nat
                                        /\ snapshots[i].alone \in BOOLEAN
<1>1. snapshots \in Seq(Snapshot)
  BY DEF Scalars
<1>2. \A i \in DOMAIN snapshots : snapshots[i] \in Snapshot
  BY <1>1
<1> QED
  BY <1>2 DEF Snapshot

\* A race message begins the span or leaves its beginning; it ends the span.
LEMMA ReplayInfoFacts ==
  ASSUME NEW t, NEW r
  PROVE  \/ ReplayInfo(t, r) = replay
         \/ /\ ReplayInfo(t, r).to = t /\ ReplayInfo(t, r).maxTime = t - start
            /\ \/ ReplayInfo(t, r).from = t /\ ReplayInfo(t, r).minTime = t - start /\ ~marker
               \/ ReplayInfo(t, r).from = replay.from /\ ReplayInfo(t, r).minTime = replay.minTime
<1> DEFINE begins == ~marker /\ (r \/ replay.from = 0)
           f == IF begins THEN t ELSE replay.from
           m == IF begins THEN t - start ELSE replay.minTime
<1>1. ReplayInfo(t, r) = replay \/ ReplayInfo(t, r) = [from |-> f, minTime |-> m, to |-> t, maxTime |-> t - start]
  BY DEF ReplayInfo
<1>2. \/ f = t /\ m = t - start /\ ~marker
      \/ f = replay.from /\ m = replay.minTime
  OBVIOUS
<1> HIDE DEF f, m
<1> QED
  BY <1>1, <1>2

LEMMA HandlerFacts ==
  ASSUME IInv, NEW c \in Callers
  PROVE  /\ {handler[c].stamp, handler[c].base, handler[c].time, handler[c].rest} \subseteq Nat
         /\ handler[c].alone \in BOOLEAN /\ handler[c] \in Handler
         /\ now \in Nat /\ session \in Nat /\ snapshot \in Nat
<1>1. handler[c] \in Handler
  BY DEF IInv, Scalars
<1> QED
  BY <1>1 DEF Handler, IInv, Scalars

LEMMA StateSteps ==
  ASSUME Scalars, Newer, Span,
         ProcessState \/ ProcessStateEnd \/ \E r \in BOOLEAN : SwitchSession(r)
  PROVE  /\ Time /\ Newer' /\ Span'
         /\ now' \in Nat /\ start' \in 1..(now' + 1) /\ state' \in 0..now'
<1>1. CASE ProcessState
  <2> DEFINE t == now + 1
  <2>1. PICK r : replay' = ReplayInfo(t, r)
    BY <1>1, Zenon DEF ProcessState, ProcessStatePayload
  <2>2. /\ now' = t /\ state = 0 /\ state' = t /\ t = now + 1
        /\ UNCHANGED <<start, session, snapshot, handler, snapshots>>
    BY <1>1 DEF ProcessState, Tick
  <2> HIDE DEF t
  <2>3. \/ replay' = replay
        \/ /\ replay'.to = t /\ replay'.maxTime = t - start
           /\ \/ replay'.from = t /\ replay'.minTime = t - start
              \/ replay'.from = replay.from /\ replay'.minTime = replay.minTime
    BY <2>1, ReplayInfoFacts
  <2> QED
    BY <2>2, <2>3 DEF Scalars, Newer, Span, Time
<1>2. CASE ProcessStateEnd
  <2>1. /\ UNCHANGED <<now, start, replay, snapshot, handler, snapshots>>
        /\ state # 0 /\ session' = state /\ state' = 0
    BY <1>2 DEF ProcessStateEnd, raceVars, clock
  <2> QED
    BY <2>1 DEF Scalars, Newer, Span, Time
<1>3. ASSUME NEW r \in BOOLEAN, SwitchSession(r)
      PROVE  /\ Time /\ Newer' /\ Span'
             /\ now' \in Nat /\ start' \in 1..(now' + 1) /\ state' \in 0..now'
  <2>1. /\ now' = now + 1 /\ start' = now + 1 /\ state = 0
        /\ UNCHANGED <<state, replay, session, snapshot, handler, snapshots>>
    BY <1>3 DEF SwitchSession, Tick, NewSession, raceVars
  <2> QED
    BY <2>1 DEF Scalars, Newer, Span, Time
<1> QED
  BY <1>1, <1>2, <1>3

\* While only time passes.
LEMMA TimeKeeps ==
  ASSUME IInv, Time, Newer', Span', now' \in Nat, start' \in 1..(now' + 1), state' \in 0..now'
  PROVE  IInv'
<1>1. /\ now \in Nat /\ now' \in Nat /\ now <= now' /\ session \in Nat /\ session' \in Nat /\ session <= session'
      /\ UNCHANGED <<handler, snapshot, snapshots>>
  BY DEF IInv, Time, Scalars
<1>2. Scalars'
  <2>1. /\ snapshot \in 0..now' /\ \A c \in Callers : handler[c].stamp \in 0..now'
    <3>1. /\ snapshot \in 0..now /\ \A c \in Callers : handler[c].stamp \in 0..now
      BY DEF IInv, Scalars
    <3> QED
      BY <1>1, <3>1
  <2>2. session' \in 0..now'
    BY DEF Time
  <2> QED
    BY <1>1, <2>1, <2>2 DEF IInv, Scalars
<1>3. \A c \in Callers : Held(c)' /\ Alone(c)'
  <2> SUFFICES ASSUME NEW c \in Callers PROVE Held(c)' /\ Alone(c)'
    OBVIOUS
  <2>1. Held(c) /\ Alone(c)
    BY DEF IInv
  <2> QED
    BY <1>1, <2>1, HandlerFacts DEF Held, Alone
<1>4. \A i \in DOMAIN snapshots' : Marked(i)'
  BY <1>1 DEF IInv, Marked
<1>5. SnapshotsSpaced' /\ SnapshotSession'
  <2>1. \A i \in DOMAIN snapshots : snapshots[i].rest \in Nat
    BY SnapshotFacts DEF IInv
  <2> QED
    BY <1>1, <2>1 DEF IInv, SnapshotsSpaced, SnapshotSession
<1> QED
  BY <1>2, <1>3, <1>4, <1>5 DEF IInv

\* A handler that goes on without sending or marking.
LEMMA Proceeds ==
  ASSUME IInv, NEW c \in Callers, NEW h \in Handler,
         handler' = [handler EXCEPT ![c] = h],
         UNCHANGED <<now, start, state, session, replay, snapshot, snapshots>>,
         handler[c].at # "idle", handler[c].at # "mark", h.at # "mark",
         h.stamp = handler[c].stamp \/ h = NoCall, h.base = handler[c].base \/ h = NoCall,
         h.alone = handler[c].alone \/ h = NoCall,
         h.at \in {"read", "send"} => 0 < h.time /\ h.base <= h.time /\ h.time <= session,
         h.at = "send" => h.time <= h.rest /\ h.rest <= session,
         h.at \in {"read", "send"} /\ h.alone => \A i \in DOMAIN snapshots :
           snapshots[i].alone => h.stamp - snapshots[i].stamp > SnapshotGap
  PROVE  IInv'
<1>0. NoCall.at = "idle" /\ NoCall.stamp = 0 /\ NoCall.base = 0
  BY DEF NoCall
<1>1. handler'[c] = h /\ \A d \in Callers : d # c => handler'[d] = handler[d]
  BY DEF IInv, Scalars
<1>2. handler' \in [Callers -> Handler]
  BY DEF IInv, Scalars
<1>3. now \in Nat /\ session \in Nat
  BY DEF IInv, Scalars
<1>4. Scalars'
  <2>1. \A d \in Callers : handler'[d].stamp \in 0..now
    BY <1>0, <1>1, <1>3 DEF IInv, Scalars
  <2> QED
    BY <1>2, <2>1 DEF IInv, Scalars
<1>5. Newer' /\ Span'
  BY DEF IInv, Newer, Span
<1>6. ASSUME NEW d \in Callers PROVE Held(d)' /\ Alone(d)'
  <2>1. Held(d) /\ Held(c) /\ \A e \in Callers : Alone(e)
    BY DEF IInv
  <2>2. Held(d)'
    <3>1. CASE d = c
      BY <1>0, <1>1, <1>3, <2>1, <3>1 DEF Held
    <3>2. CASE d # c
      BY <1>1, <2>1, <3>2 DEF Held
    <3> QED
      BY <3>1, <3>2
  <2>3. Alone(d)'
    BY <1>0, <1>1, <2>1 DEF Alone
  <2> QED
    BY <2>2, <2>3
<1>7. ASSUME NEW i \in DOMAIN snapshots PROVE Marked(i)'
  <2>1. Marked(i)
    BY DEF IInv
  <2> QED
    BY <1>0, <1>1, <1>7, <2>1 DEF Marked
<1>8. SnapshotsSpaced' /\ SnapshotSession'
  BY DEF IInv, SnapshotsSpaced, SnapshotSession
<1> QED
  BY <1>4, <1>5, <1>6, <1>7, <1>8 DEF IInv

LEMMA CheckStep ==
  ASSUME IInv, NEW c \in Callers, Check(c)
  PROVE  IInv'
<1>1. /\ UNCHANGED <<now, start, state, session, replay, snapshot, snapshots>> /\ handler[c].at = "check"
      /\ \/ /\ Due(c) /\ session # 0
            /\ handler' = [handler EXCEPT ![c] = [handler[c] EXCEPT !.at = "read", !.time = session]]
         \/ handler' = [handler EXCEPT ![c] = NoCall]
  BY DEF Check, raceVars, clock
<1>2. Held(c) /\ Alone(c)
  BY DEF IInv
<1>3. CASE handler' = [handler EXCEPT ![c] = NoCall]
  <2>1. NoCall \in Handler /\ NoCall.at = "idle"
    BY DEF NoCall, Handler
  <2> QED
    BY <1>1, <1>3, <2>1, Proceeds
<1>4. CASE /\ Due(c) /\ session # 0
           /\ handler' = [handler EXCEPT ![c] = [handler[c] EXCEPT !.at = "read", !.time = session]]
  <2> DEFINE h == [handler[c] EXCEPT !.at = "read", !.time = session]
  <2>1. handler[c] \in Handler /\ session \in Nat /\ snapshot \in Nat /\ handler[c].stamp \in Nat
    BY HandlerFacts
  <2>2. /\ h \in Handler /\ h.at = "read" /\ h.time = session /\ h.stamp = handler[c].stamp
        /\ h.base = handler[c].base /\ h.alone = handler[c].alone
    BY <2>1 DEF Handler
  <2>3. handler' = [handler EXCEPT ![c] = h]
    BY <1>4
  <2> HIDE DEF h
  <2>4. ASSUME handler[c].alone, NEW i \in DOMAIN snapshots, snapshots[i].alone
        PROVE  h.stamp - snapshots[i].stamp > SnapshotGap
    <3>1. \A d \in Callers : handler[d].at # "mark"
      BY <1>1, <1>2, <2>4 DEF Alone
    <3>2. 0 < snapshots[i].stamp /\ snapshots[i].stamp <= snapshot
      BY <2>4, <3>1 DEF IInv, Marked
    <3>3. snapshots[i].stamp \in Nat
      BY <2>4, SnapshotFacts DEF IInv
    <3>4. handler[c].stamp - snapshot > SnapshotGap
      BY <1>4, <2>1, <3>2, <3>3 DEF Due
    <3> QED
      BY <2>1, <2>2, <3>2, <3>3, <3>4, ProcessorAssumption
  <2>5. 0 < h.time /\ h.base <= h.time /\ h.time <= session
    BY <1>2, <1>4, <2>1, <2>2 DEF Held
  <2>6. h.alone => \A i \in DOMAIN snapshots :
          snapshots[i].alone => h.stamp - snapshots[i].stamp > SnapshotGap
    BY <2>2, <2>4
  <2> QED
    BY <1>1, <2>2, <2>3, <2>5, <2>6, Proceeds
<1> QED
  BY <1>1, <1>3, <1>4

LEMMA ReadStep ==
  ASSUME IInv, NEW c \in Callers, Read(c)
  PROVE  IInv'
<1> DEFINE h == [handler[c] EXCEPT !.at = "send", !.rest = session]
<1>1. /\ UNCHANGED <<now, start, state, session, replay, snapshot, snapshots>> /\ handler[c].at = "read"
      /\ handler' = [handler EXCEPT ![c] = h]
  BY DEF Read, raceVars, clock
<1>2. Held(c)
  BY DEF IInv
<1>3. handler[c] \in Handler /\ session \in Nat
  BY HandlerFacts
<1>4. /\ h \in Handler /\ h.at = "send" /\ h.time = handler[c].time /\ h.stamp = handler[c].stamp
      /\ h.base = handler[c].base /\ h.alone = handler[c].alone /\ h.rest = session
  BY <1>3 DEF Handler
<1> HIDE DEF h
<1>5. /\ 0 < h.time /\ h.base <= h.time /\ h.time <= session /\ h.rest <= session
  BY <1>1, <1>2, <1>3, <1>4 DEF Held
<1>6. handler[c].alone => \A i \in DOMAIN snapshots :
        snapshots[i].alone => h.stamp - snapshots[i].stamp > SnapshotGap
  BY <1>1, <1>4 DEF IInv, Marked
<1> QED
  BY <1>1, <1>4, <1>5, <1>6, Proceeds

LEMMA MarkStep ==
  ASSUME IInv, NEW c \in Callers, Mark(c)
  PROVE  IInv'
<1>0. NoCall.at = "idle" /\ NoCall.stamp = 0 /\ NoCall.base = 0 /\ NoCall \in Handler
  BY DEF NoCall, Handler
<1>1. /\ UNCHANGED <<now, start, state, session, replay, snapshots>> /\ handler[c].at = "mark"
      /\ snapshot' = handler[c].stamp /\ handler' = [handler EXCEPT ![c] = NoCall]
  BY DEF Mark, raceVars, clock
<1>2. handler'[c] = NoCall /\ \A d \in Callers : d # c => handler'[d] = handler[d]
  BY <1>1 DEF IInv, Scalars
<1>3. now \in Nat /\ session \in Nat
  BY DEF IInv, Scalars
<1>4. Scalars'
  <2>1. handler' \in [Callers -> Handler]
    BY <1>0, <1>1 DEF IInv, Scalars
  <2>2. snapshot' \in 0..now /\ \A d \in Callers : handler'[d].stamp \in 0..now
    BY <1>0, <1>1, <1>2, <1>3 DEF IInv, Scalars
  <2> QED
    BY <1>1, <2>1, <2>2 DEF IInv, Scalars
<1>5. Newer' /\ Span'
  BY <1>1 DEF IInv, Newer, Span
<1>6. ASSUME NEW d \in Callers PROVE Held(d)' /\ Alone(d)'
  <2>1. Held(d) /\ \A e \in Callers : Alone(e)
    BY DEF IInv
  <2>2. Held(d)'
    BY <1>0, <1>1, <1>2, <1>3, <2>1 DEF Held
  <2>3. Alone(d)'
    BY <1>0, <1>2, <2>1 DEF Alone
  <2> QED
    BY <2>2, <2>3
<1>7. ASSUME NEW i \in DOMAIN snapshots PROVE Marked(i)'
  <2>1. Marked(i)
    BY DEF IInv
  <2> QED
    BY <1>0, <1>1, <1>2, <1>7, <2>1 DEF Marked
<1>8. SnapshotsSpaced' /\ SnapshotSession'
  BY <1>1 DEF IInv, SnapshotsSpaced, SnapshotSession
<1> QED
  BY <1>1, <1>4, <1>5, <1>6, <1>7, <1>8 DEF IInv

LEMMA BeginStep ==
  ASSUME IInv, NEW c \in Callers, Begin(c)
  PROVE  IInv'
<1> DEFINE others == {d \in Callers \ {c} : handler[d].at # "idle"}
           none == others = {}
           h == [at |-> "check", stamp |-> now + 1, base |-> session,
                 time |-> 0, rest |-> 0, alone |-> none]
<1>1. /\ now' = now + 1 /\ UNCHANGED <<start, state, session, replay, snapshot, snapshots>>
      /\ handler[c].at = "idle"
      /\ handler' = [d \in Callers |->
           IF d = c THEN h ELSE [handler[d] EXCEPT !.alone = @ /\ d \notin others]]
  BY DEF Begin, Tick, raceVars
<1>2. /\ now \in Nat /\ session \in Nat /\ session \in 0..now /\ state \in 0..now /\ snapshot \in 0..now
      /\ start \in 1..(now + 1)
  BY DEF IInv, Scalars
<1>3. h \in Handler /\ h.at = "check" /\ h.stamp = now + 1 /\ h.base = session /\ (h.alone <=> others = {})
  <2>1. none \in BOOLEAN /\ (none <=> others = {})
    OBVIOUS
  <2> HIDE DEF none
  <2> QED
    BY <1>2, <2>1 DEF Handler
<1>4. handler'[c] = h
  BY <1>1
<1>5. ASSUME NEW d \in Callers, d # c
      PROVE  /\ handler'[d] \in Handler /\ handler'[d].at = handler[d].at
             /\ handler'[d].stamp = handler[d].stamp /\ handler'[d].base = handler[d].base
             /\ handler'[d].time = handler[d].time /\ handler'[d].rest = handler[d].rest
             /\ handler'[d].alone => handler[d].alone /\ d \notin others
  <2> DEFINE b == handler[d].alone /\ d \notin others
  <2>1. handler'[d] = [handler[d] EXCEPT !.alone = b] /\ handler[d] \in Handler
    BY <1>1, <1>5, HandlerFacts
  <2>2. b \in BOOLEAN
    OBVIOUS
  <2> HIDE DEF b
  <2>3. /\ handler'[d] \in Handler /\ handler'[d].at = handler[d].at
        /\ handler'[d].stamp = handler[d].stamp /\ handler'[d].base = handler[d].base
        /\ handler'[d].time = handler[d].time /\ handler'[d].rest = handler[d].rest
        /\ handler'[d].alone = b
    BY <2>1, <2>2 DEF Handler
  <2> QED
    BY <2>3 DEF b
<1> HIDE DEF h
<1>6. Scalars'
  <2>1. handler' \in [Callers -> Handler]
    <3>1. DOMAIN handler' = Callers /\ handler' = [d \in Callers |-> handler'[d]]
      BY <1>1
    <3>2. \A d \in Callers : handler'[d] \in Handler
      BY <1>3, <1>4, <1>5
    <3> QED
      BY <3>1, <3>2
  <2>2. \A d \in Callers : handler'[d].stamp \in 0..now'
    <3>1. \A d \in Callers : handler[d].stamp \in 0..now
      BY DEF IInv, Scalars
    <3> QED
      BY <1>1, <1>2, <1>3, <1>4, <1>5, <3>1
  <2> QED
    BY <1>1, <1>2, <2>1, <2>2 DEF IInv, Scalars
<1>7. Newer' /\ Span'
  BY <1>1, <1>2 DEF IInv, Newer, Span
<1>8. ASSUME NEW d \in Callers PROVE Held(d)' /\ Alone(d)'
  <2>1. Held(d) /\ Alone(d)
    BY DEF IInv
  <2>2. Held(d)'
    <3>1. CASE d = c
      BY <1>1, <1>2, <1>3, <1>4, <3>1 DEF Held
    <3>2. CASE d # c
      BY <1>1, <1>5, <2>1, <3>2 DEF Held
    <3> QED
      BY <3>1, <3>2
  <2>3. Alone(d)'
    <3>1. CASE d = c
      BY <1>3, <1>4, <1>5, <3>1 DEF Alone
    <3>2. CASE d # c
      BY <1>5, <3>2 DEF Alone
    <3> QED
      BY <3>1, <3>2
  <2> QED
    BY <2>2, <2>3
<1>9. ASSUME NEW i \in DOMAIN snapshots PROVE Marked(i)'
  <2> SUFFICES ASSUME snapshots[i].alone PROVE Marked(i)'
    BY <1>1 DEF Marked
  <2>1. /\ 0 < snapshots[i].stamp /\ snapshots[i].stamp \in Nat
        /\ \A d \in Callers : handler[d].at # "idle" => snapshots[i].stamp <= handler[d].stamp
        /\ snapshots[i].stamp <= snapshot \/ \E d \in Callers : handler[d].at = "mark"
    BY <1>9, SnapshotFacts DEF IInv, Marked
  <2>2. snapshots[i].stamp <= now
    <3>1. \A d \in Callers : handler[d].stamp \in 0..now
      BY DEF IInv, Scalars
    <3> QED
      BY <1>2, <2>1, <3>1
  <2>3. \A d \in Callers : handler'[d].at # "idle" => snapshots[i].stamp <= handler'[d].stamp
    BY <1>2, <1>3, <1>4, <1>5, <2>1, <2>2
  <2>4. snapshots[i].stamp <= snapshot \/ \E d \in Callers : handler'[d].at = "mark"
    BY <1>1, <1>5, <2>1
  <2>5. \A d \in Callers : ~(handler'[d].at \in {"read", "send"} /\ handler'[d].alone)
    BY <1>3, <1>4, <1>5
  <2> QED
    BY <1>1, <2>1, <2>3, <2>4, <2>5 DEF Marked
<1>10. SnapshotsSpaced' /\ SnapshotSession'
  BY <1>1 DEF IInv, SnapshotsSpaced, SnapshotSession
<1> QED
  BY <1>1, <1>6, <1>7, <1>8, <1>9, <1>10 DEF IInv

LEMMA SendStep ==
  ASSUME IInv, NEW c \in Callers, Send(c)
  PROVE  IInv'
<1> DEFINE e == handler[c]
           h == [handler[c] EXCEPT !.at = "mark"]
           n == Len(snapshots) + 1
<1>1. /\ UNCHANGED <<now, start, state, session, replay, snapshot>> /\ e.at = "send"
      /\ snapshots' = Append(snapshots, e) /\ handler' = [handler EXCEPT ![c] = h]
  BY DEF Send, raceVars, clock
<1>2. /\ e \in Handler /\ now \in Nat /\ session \in Nat /\ snapshot \in Nat
      /\ {e.stamp, e.base, e.time, e.rest} \subseteq Nat /\ e.alone \in BOOLEAN
  BY HandlerFacts
<1>3. e \in Snapshot
  BY <1>1, <1>2 DEF Handler, Snapshot
<1>4. h \in Handler /\ h.at = "mark" /\ h.stamp = e.stamp /\ h.base = e.base /\ h.alone = e.alone
  BY <1>2 DEF Handler
<1>5. handler' \in [Callers -> Handler] /\ handler'[c] = h /\ \A d \in Callers : d # c => handler'[d] = handler[d]
  BY <1>1, <1>4 DEF IInv, Scalars
<1> HIDE DEF h
<1>6. /\ snapshots' \in Seq(Snapshot) /\ n \in DOMAIN snapshots' /\ snapshots'[n] = e
      /\ \A i \in DOMAIN snapshots :
           i \in DOMAIN snapshots' /\ snapshots'[i] = snapshots[i] /\ i \in Nat /\ i < n
      /\ \A i \in DOMAIN snapshots' : i \in DOMAIN snapshots \/ i = n
      /\ n \in Nat
  <2>1. snapshots \in Seq(Snapshot)
    BY DEF IInv, Scalars
  <2> HIDE DEF e
  <2> QED
    BY <1>1, <1>3, <2>1
<1> HIDE DEF n
<1>7. Held(c) /\ Alone(c)
  BY DEF IInv
<1>8. Scalars'
  <2>1. \A d \in Callers : handler'[d].stamp \in 0..now
    BY <1>4, <1>5 DEF IInv, Scalars
  <2> QED
    BY <1>1, <1>5, <1>6, <2>1 DEF IInv, Scalars
<1>9. Newer' /\ Span'
  BY <1>1 DEF IInv, Newer, Span
<1>10. ASSUME NEW d \in Callers PROVE Held(d)' /\ Alone(d)'
  <2>1. Held(d) /\ \A f \in Callers : Alone(f)
    BY DEF IInv
  <2>2. Held(d)'
    <3>1. CASE d = c
      BY <1>1, <1>4, <1>5, <2>1, <3>1 DEF Held
    <3>2. CASE d # c
      BY <1>1, <1>5, <2>1, <3>2 DEF Held
    <3> QED
      BY <3>1, <3>2
  <2>3. Alone(d)'
    BY <1>1, <1>4, <1>5, <2>1 DEF Alone
  <2> QED
    BY <2>2, <2>3
<1>11. ASSUME NEW i \in DOMAIN snapshots' PROVE Marked(i)'
  <2>1. CASE i \in DOMAIN snapshots
    <3>1. Marked(i)
      BY <2>1 DEF IInv
    <3> QED
      BY <1>1, <1>4, <1>5, <1>6, <2>1, <3>1 DEF Marked
  <2>2. CASE i = n
    <3> SUFFICES ASSUME e.alone PROVE Marked(i)'
      BY <1>6, <2>2 DEF Marked
    <3>1. \A d \in Callers : d # c => handler'[d].at = "idle"
      BY <1>1, <1>5, <1>7 DEF Alone
    <3>2. 0 < e.stamp
      BY <1>1, <1>7 DEF Held
    <3> QED
      BY <1>2, <1>4, <1>5, <1>6, <2>2, <3>1, <3>2 DEF Marked
  <2> QED
    BY <1>6, <2>1, <2>2
<1>12. SnapshotsSpaced'
  <2> SUFFICES ASSUME NEW i \in DOMAIN snapshots', NEW j \in DOMAIN snapshots', i < j,
                      snapshots'[i].alone, snapshots'[j].alone
               PROVE  snapshots'[j].stamp - snapshots'[i].stamp > SnapshotGap
    BY DEF SnapshotsSpaced
  <2>1. i \in DOMAIN snapshots
    BY <1>6
  <2>2. CASE j \in DOMAIN snapshots
    BY <1>6, <2>1, <2>2 DEF IInv, SnapshotsSpaced
  <2>3. CASE j = n
    BY <1>1, <1>6, <2>1, <2>3 DEF IInv, Marked
  <2> QED
    BY <1>6, <2>2, <2>3
<1>13. SnapshotSession'
  <2>1. 0 < e.time /\ e.base <= e.time /\ e.time <= e.rest /\ e.rest <= session
    BY <1>1, <1>7 DEF Held
  <2> HIDE DEF e
  <2> QED
    BY <1>1, <1>6, <2>1 DEF IInv, SnapshotSession
<1> QED
  BY <1>8, <1>9, <1>10, <1>11, <1>12, <1>13 DEF IInv

-----------------------------------------------------------------------------
LEMMA InitInv == Init => IInv
<1> SUFFICES ASSUME Init PROVE IInv
  OBVIOUS
<1>1. /\ NoCall \in Handler /\ NoCall.at = "idle" /\ NoCall.base = 0 /\ NoCall.stamp = 0
  BY DEF NoCall, Handler
<1>2. /\ now = 0 /\ start = 1 /\ state = 0 /\ session = 0 /\ snapshot = 0 /\ snapshots = <<>>
      /\ handler = [c \in Callers |-> NoCall] /\ replay = NoReplay
  BY DEF Init, RaceInit
<1>3. Scalars
  <2>1. <<>> \in Seq(Snapshot)
    OBVIOUS
  <2> QED
    BY <1>1, <1>2, <2>1 DEF Scalars
<1>4. Newer /\ Span
  BY <1>2 DEF Newer, Span, NoReplay
<1>5. \A c \in Callers : Held(c) /\ Alone(c)
  BY <1>1, <1>2 DEF Held, Alone
<1>6. DOMAIN snapshots = {}
  BY <1>2
<1> QED
  BY <1>3, <1>4, <1>5, <1>6 DEF IInv, SnapshotsSpaced, SnapshotSession

LEMMA StepInv == IInv /\ [Next]_vars => IInv'
<1> SUFFICES ASSUME IInv, [Next]_vars PROVE IInv'
  OBVIOUS
<1>1. CASE ProcessState \/ ProcessStateEnd \/ \E r \in BOOLEAN : SwitchSession(r)
  <2>1. Scalars /\ Newer /\ Span
    BY DEF IInv
  <2> QED
    BY <1>1, <2>1, StateSteps, TimeKeeps
<1>2. ASSUME NEW c \in Callers, Begin(c) \/ Check(c) \/ Read(c) \/ Send(c) \/ Mark(c) PROVE IInv'
  BY <1>2, BeginStep, CheckStep, ReadStep, SendStep, MarkStep
<1>3. CASE UNCHANGED vars
  <2>1. UNCHANGED <<now, start, state, session, replay, snapshot, handler, snapshots>>
    BY <1>3 DEF vars, raceVars, clock
  <2> QED
    BY <2>1 DEF IInv, Scalars, Newer, Span, Held, Alone, Marked, SnapshotsSpaced, SnapshotSession
<1> QED
  BY <1>1, <1>2, <1>3 DEF Next

LEMMA Always == Spec => []IInv
BY InitInv, StepInv, PTL DEF Spec

(***************************************************************************)
(* ProcessSpeedmap without a mutex: however many speedmaps are processed   *)
(* at once and wherever a state message ends meanwhile, a snapshot has     *)
(* session data of messages that were processed, not older than the last   *)
(* one before the speedmap came.                                           *)
(***************************************************************************)
THEOREM SnapshotHasSession == Spec => []SnapshotSession
<1>1. IInv => SnapshotSession
  BY DEF IInv
<1> QED
  BY Always, <1>1, PTL

(***************************************************************************)
(* Two snapshots of speedmaps that were processed while no other was are   *)
(* further apart than the two minutes of the code.                         *)
(***************************************************************************)
THEOREM SnapshotsApart == Spec => []SnapshotsSpaced
<1>1. IInv => SnapshotsSpaced
  BY DEF IInv
<1> QED
  BY Always, <1>1, PTL

(***************************************************************************)
(* ReplayInfo: the span of the race begins where its first race message or *)
(* its marker is, ends at the last race message, and within one session    *)
(* does not end before it begins.                                          *)
(***************************************************************************)
THEOREM SpanOfRace == Spec => ReplaySpan
<1> DEFINE Step == /\ marker => replay'.from = replay.from /\ replay'.minTime = replay.minTime
                   /\ replay.from # 0 => replay'.from # 0 /\ replay'.from >= replay.from
                   /\ replay'.to >= replay.to
           Within == /\ replay.from <= replay.to
                     /\ replay.from >= start => replay.minTime <= replay.maxTime
<1>1. IInv => Within
  BY DEF IInv, Scalars, Span
<1>2. IInv /\ [Next]_vars => [Step]_vars
  <2> SUFFICES ASSUME IInv, [Next]_vars PROVE [Step]_vars
    OBVIOUS
  <2>1. replay.from \in Nat /\ replay.to \in Nat /\ replay.from <= now /\ replay.to <= now /\ now \in Nat
    BY DEF IInv, Scalars, Span
  <2>2. CASE ProcessState
    <3> DEFINE t == now + 1
    <3>1. PICK r : replay' = ReplayInfo(t, r)
      BY <2>2, Zenon DEF ProcessState, ProcessStatePayload
    <3>2. t \in Nat /\ now < t
      BY <2>1
    <3> HIDE DEF t
    <3>3. \/ replay' = replay
          \/ /\ replay'.to = t
             /\ \/ replay'.from = t /\ ~marker
                \/ replay'.from = replay.from /\ replay'.minTime = replay.minTime
      BY <3>1, ReplayInfoFacts
    <3> QED
      BY <2>1, <3>2, <3>3
  <2>3. CASE ~ProcessState
    <3>1. replay' = replay
      BY <2>3 DEF Next, ProcessStateEnd, SwitchSession, Begin, Check, Read, Send, Mark, vars, raceVars
    <3> QED
      BY <2>1, <3>1
  <2> QED
    BY <2>2, <2>3
<1> QED
  BY Always, <1>1, <1>2, PTL DEF Spec, ReplaySpan

-----------------------------------------------------------------------------
(* What the race processor keeps for the cars: its types, and the infos of  *)
(* the laps.  SelectInSeq is the first match, or 0.                         *)

LEMMA Least ==
  ASSUME NEW n \in Nat, NEW I \in SUBSET (1..n), I # {}
  PROVE  Min(I) \in I
<1>1. PICK x \in I : \A y \in I : ~(<<y, x>> \in OpToRel(<, Nat))
  <2>1. I \subseteq Nat
    OBVIOUS
  <2> QED
    BY <2>1, NatLessThanWellFounded, WFMin
<1>2. ASSUME NEW y \in I PROVE x <= y
  <2>1. x \in Nat /\ y \in Nat
    OBVIOUS
  <2>2. ASSUME y < x PROVE FALSE
    <3> DEFINE s == <<y, x>>
    <3>1. s \in Nat \X Nat /\ s[1] < s[2]
      BY <2>1, <2>2
    <3>2. s \in OpToRel(<, Nat)
      BY <3>1 DEF OpToRel
    <3> QED
      BY <1>1, <3>2
  <2> QED
    BY <2>1, <2>2
<1> QED
  BY <1>2 DEF Min

\* The entry of a lap, in the laps of a car and in a race graph.
At(entries, n) == SelectInSeq(entries, LAMBDA e : e.lap = n)

LEMMA AtFacts ==
  ASSUME NEW entries, NEW n, Len(entries) \in Nat
  PROVE  \/ /\ At(entries, n) = 0
            /\ \A i \in 1..Len(entries) : entries[i].lap # n
         \/ /\ At(entries, n) \in 1..Len(entries)
            /\ entries[At(entries, n)].lap = n
<1> DEFINE I == {i \in 1..Len(entries) : entries[i].lap = n}
<1>1. At(entries, n) = IF I # {} THEN Min(I) ELSE 0
  BY DEF At, SelectInSeq
<1>2. I # {} => Min(I) \in I
  <2>1. I \in SUBSET (1..Len(entries))
    OBVIOUS
  <2> HIDE DEF I
  <2> QED
    BY <2>1, Least
<1> QED
  BY <1>1, <1>2

\* The report of a car.
Of(p, c) == p[SelectInSeq(p, LAMBDA r : r.car = c)]

LEMMA OfFacts ==
  ASSUME NEW p, NEW c, Len(p) \in Nat, NEW i \in 1..Len(p), p[i].car = c
  PROVE  \E j \in 1..Len(p) : Of(p, c) = p[j] /\ p[j].car = c
<1> DEFINE I == {j \in 1..Len(p) : p[j].car = c}
<1>1. Of(p, c) = p[IF I # {} THEN Min(I) ELSE 0]
  BY DEF Of, SelectInSeq
<1>2. I \in SUBSET (1..Len(p)) /\ I # {}
  OBVIOUS
<1>3. Min(I) \in I
  <2> HIDE DEF I
  <2> QED
    BY <1>2, Least
<1> QED
  BY <1>1, <1>2, <1>3

\* A message has each car once, with a lap that exists.
LEMMA PayloadFacts ==
  ASSUME NEW p \in Payloads
  PROVE  /\ Len(p) \in Nat /\ DOMAIN p = 1..Len(p)
         /\ \A i \in DOMAIN p : p[i].car \in Cars /\ p[i].lap \in 0..MaxLap /\ p[i].told \in 0..MaxLap
         /\ \A i, j \in DOMAIN p : p[i].car = p[j].car => i = j
<1> DEFINE D == 1..Cardinality(Cars)
<1>1. PICK m \in [cars : SetToSeqs(Cars), position : Orders, laps : NextLaps, out : BOOLEAN, told : 0..MaxLap] :
        p = [i \in DOMAIN m.cars |->
              LET r == Report(m.cars[i], m.position, m.laps, m.out, IF i = 1 THEN m.told ELSE 0)
              IN  IF m.laps = [c \in Cars |-> 0] THEN [r EXCEPT !.pos = 0, !.pic = 0] ELSE r]
  BY DEF Payloads
<1>2. m.cars \in [D -> Cars] /\ Cardinality(Cars) \in Nat
  BY <1>1, RaceAssumption, FS_CardinalityType DEF SetToSeqs
<1>7. \A i, j \in D : m.cars[i] = m.cars[j] => i = j
  BY <1>1 DEF SetToSeqs
<1>3. m.laps \in [Cars -> 0..MaxLap] /\ m.told \in 0..MaxLap /\ MaxLap \in Nat
  BY <1>1, RaceAssumption DEF NextLaps
<1>4. DOMAIN p = D
  BY <1>1, <1>2
<1>5. Len(p) = Cardinality(Cars)
  <2> DEFINE S == {p[i] : i \in D}
             k == Cardinality(Cars)
  <2>1. p = [i \in D |-> p[i]]
    BY <1>1, <1>4
  <2>2. p \in [1..k -> S] /\ k \in Nat
    BY <1>2, <1>4, <2>1
  <2> HIDE DEF S, k
  <2>3. p \in Seq(S) /\ DOMAIN p = 1..k
    BY <2>2
  <2>4. Len(p) = k
    BY <2>2, <2>3
  <2> QED
    BY <2>4 DEF k
<1>6. ASSUME NEW i \in D
      PROVE  p[i].car \in Cars /\ p[i].car = m.cars[i] /\ p[i].lap \in 0..MaxLap /\ p[i].told \in 0..MaxLap
  <2> DEFINE told == IF i = 1 THEN m.told ELSE 0
             r == Report(m.cars[i], m.position, m.laps, m.out, told)
  <2>1. r.car = m.cars[i] /\ r.lap = m.laps[m.cars[i]] /\ r.told = told
    BY DEF Report
  <2>2. p[i] = IF m.laps = [c \in Cars |-> 0] THEN [r EXCEPT !.pos = 0, !.pic = 0] ELSE r
    BY <1>1, <1>2
  <2>3. p[i].car = r.car /\ p[i].lap = r.lap /\ p[i].told = r.told
    BY <2>2 DEF Report
  <2>4. m.cars[i] \in Cars /\ told \in 0..MaxLap
    BY <1>2, <1>3
  <2> HIDE DEF r, told
  <2> QED
    BY <1>3, <2>1, <2>3, <2>4
<1> QED
  BY <1>2, <1>4, <1>5, <1>6, <1>7

\* A car is in a message once: the report that counts is the one that is found.
LEMMA CountedFacts ==
  ASSUME NEW p \in Payloads, NEW i \in DOMAIN p, p[i].lap >= 1
  PROVE  /\ Of(p, p[i].car).car = p[i].car
         /\ Of(p, p[i].car).lap \in 1..MaxLap /\ Of(p, p[i].car).told \in 0..MaxLap
<1>1. /\ Len(p) \in Nat /\ DOMAIN p = 1..Len(p)
      /\ p[i].lap \in 0..MaxLap /\ p[i].told \in 0..MaxLap
      /\ \A k, l \in DOMAIN p : p[k].car = p[l].car => k = l
  BY PayloadFacts
<1>2. PICK j \in DOMAIN p : Of(p, p[i].car) = p[j] /\ p[j].car = p[i].car
  BY <1>1, OfFacts
<1>3. j = i
  BY <1>1, <1>2
<1> QED
  BY <1>1, <1>2, <1>3

Info == [lap : 0..MaxLap, at : Nat]
Lap == [lap : 1..MaxLap, time : Nat, first : Nat, info : Info]

\* The laps of a car and the info that waits, at a moment t.
LapsKept(laps, ti, t) ==
  /\ laps \in Seq(Lap)
  /\ \A k, l \in DOMAIN laps : laps[k].lap = laps[l].lap => k = l
  /\ ti \in Info /\ ti.at <= t
  /\ \A k \in DOMAIN laps :
       /\ laps[k].first <= t
       /\ laps[k].info # NoInfo => laps[k].info.lap = laps[k].lap /\ laps[k].info.at <= laps[k].first
       /\ ti.lap = laps[k].lap => ti.at > laps[k].first

\* A lap that is there keeps what it has but for its time.
LEMMA SetLapFacts ==
  ASSUME NEW laps \in Seq(Lap), NEW r, NEW t \in Nat, r.lap \in 1..MaxLap, Waiting(r, t) \in Info
  PROVE  LET set == SetLap(laps, r, t)
             new == [lap |-> r.lap, time |-> t, first |-> t, info |-> LapInfo(Waiting(r, t), r.lap)]
         IN  \/ /\ \E i \in DOMAIN laps : laps[i].lap = r.lap
                /\ set \in Seq(Lap) /\ DOMAIN set = DOMAIN laps
                /\ \A k \in DOMAIN laps : /\ set[k].lap = laps[k].lap /\ set[k].first = laps[k].first
                                          /\ set[k].info = laps[k].info
             \/ /\ \A i \in DOMAIN laps : laps[i].lap # r.lap
                /\ set = Append(laps, new) /\ new \in Lap
<1> DEFINE i == At(laps, r.lap)
           set == SetLap(laps, r, t)
           info == LapInfo(Waiting(r, t), r.lap)
           new == [lap |-> r.lap, time |-> t, first |-> t, info |-> info]
<1>1. set = IF i # 0 THEN [laps EXCEPT ![i].time = t] ELSE Append(laps, new)
  BY DEF SetLap, At
<1>2. Len(laps) \in Nat /\ DOMAIN laps = 1..Len(laps)
  OBVIOUS
<1>3. \/ i = 0 /\ \A k \in DOMAIN laps : laps[k].lap # r.lap
      \/ i \in DOMAIN laps /\ i # 0 /\ laps[i].lap = r.lap
  BY <1>2, AtFacts
<1>4. new \in Lap
  <2>1. NoInfo \in Info
    BY RaceAssumption DEF NoInfo, Info
  <2>2. info \in Info
    BY <2>1 DEF LapInfo
  <2> HIDE DEF info
  <2> QED
    BY <2>2 DEF Lap
<1> HIDE DEF i, new, info
<1>5. CASE i \in DOMAIN laps /\ i # 0
  <2> DEFINE e == [laps[i] EXCEPT !.time = t]
  <2>1. laps[i] \in Lap
    BY <1>5
  <2>2. e \in Lap /\ e.lap = laps[i].lap /\ e.first = laps[i].first /\ e.info = laps[i].info
    BY <2>1 DEF Lap
  <2>3. set = [laps EXCEPT ![i] = e]
    BY <1>1, <1>5
  <2> HIDE DEF e
  <2>4. set \in Seq(Lap) /\ DOMAIN set = DOMAIN laps /\ \A k \in DOMAIN laps : set[k] = IF k = i THEN e ELSE laps[k]
    BY <1>2, <1>5, <2>2, <2>3
  <2> HIDE DEF set
  <2>5. \A k \in DOMAIN laps : set[k].lap = laps[k].lap /\ set[k].first = laps[k].first /\ set[k].info = laps[k].info
    BY <2>2, <2>4
  <2> QED
    BY <1>3, <1>5, <2>4, <2>5 DEF set
<1>6. CASE i = 0
  BY <1>1, <1>2, <1>3, <1>4, <1>6 DEF new, info
<1> QED
  BY <1>3, <1>5, <1>6

LEMMA AppendFacts ==
  ASSUME NEW S, NEW s \in Seq(S), NEW e \in S
  PROVE  /\ Append(s, e) \in Seq(S)
         /\ \A i \in DOMAIN Append(s, e) :
              \/ i \in DOMAIN s /\ i # Len(s) + 1 /\ Append(s, e)[i] = s[i]
              \/ i = Len(s) + 1 /\ Append(s, e)[i] = e
OBVIOUS

\* A report comes a moment after what is kept: an info it has is newer than
\* every lap, and a new lap has taken the info that waited for it.
LEMMA ReportKeeps ==
  ASSUME NEW laps, NEW r, NEW n \in Nat, LapsKept(laps, timeInfos[r.car], n),
         r.lap \in 1..MaxLap, r.told \in 0..MaxLap
  PROVE  LapsKept(SetLap(laps, r, n + 1), NextInfo(laps, r, n + 1), n + 1)
<1> DEFINE t == n + 1
           ti == Waiting(r, t)
           set == SetLap(laps, r, t)
           next == NextInfo(laps, r, t)
           new == [lap |-> r.lap, time |-> t, first |-> t, info |-> LapInfo(ti, r.lap)]
<1>0. /\ laps \in Seq(Lap) /\ t \in Nat /\ n < t
      /\ \A k \in DOMAIN laps : laps[k] \in Lap
  BY DEF LapsKept
<1>1. LapsKept(laps, ti, t)
  <2>1. CASE r.told # 0
    <3> DEFINE told == [lap |-> r.told, at |-> t]
    <3>1. ti = told
      BY <2>1 DEF Waiting
    <3>2. told \in Info /\ told.lap = r.told /\ told.at = t
      BY <1>0 DEF Info
    <3> HIDE DEF t, ti, told
    <3>3. \A k \in DOMAIN laps : laps[k].first \in Nat
      BY <1>0 DEF Lap
    <3> QED
      BY <1>0, <3>1, <3>2, <3>3 DEF LapsKept
  <2>2. CASE r.told = 0
    <3>1. ti = timeInfos[r.car]
      BY <2>2 DEF Waiting
    <3>2. ti.at \in Nat /\ \A k \in DOMAIN laps : laps[k].first \in Nat
      BY <1>0, <3>1 DEF Lap, Info, LapsKept
    <3> HIDE DEF t, ti
    <3> QED
      BY <1>0, <3>1, <3>2 DEF LapsKept
  <2> QED
    BY <2>1, <2>2
<1> HIDE DEF ti
<1>2. ti \in Info /\ ti.lap \in 0..MaxLap /\ ti.at \in Nat /\ ti.at <= t
  BY <1>1 DEF LapsKept, Info
<1>3. CASE \E i \in DOMAIN laps : laps[i].lap = r.lap
  <2>1. next = ti
    BY <1>3 DEF NextInfo, ti
  <2>2. /\ set \in Seq(Lap) /\ DOMAIN set = DOMAIN laps
        /\ \A k \in DOMAIN laps : /\ set[k].lap = laps[k].lap /\ set[k].first = laps[k].first
                                  /\ set[k].info = laps[k].info
    BY <1>0, <1>2, <1>3, SetLapFacts DEF ti
  <2> HIDE DEF set, next, t
  <2>3. LapsKept(set, next, t)
    BY <1>1, <2>1, <2>2 DEF LapsKept
  <2> QED
    BY <2>3 DEF set, next, t
<1>4. CASE \A i \in DOMAIN laps : laps[i].lap # r.lap
  <2>1. next = IF ti.lap = r.lap THEN NoInfo ELSE ti
    BY <1>4 DEF NextInfo, ti
  <2>2. set = Append(laps, new) /\ new \in Lap
    BY <1>0, <1>2, <1>4, SetLapFacts DEF ti
  <2>3. /\ new.lap = r.lap /\ new.first = t
        /\ new.info # NoInfo => new.info.lap = r.lap /\ new.info.at <= t
    BY <1>2 DEF LapInfo
  <2>4. /\ next \in Info /\ next.at <= t /\ next.lap # r.lap
        /\ next.lap # 0 => next = ti
    <3>1. NoInfo \in Info /\ NoInfo.lap = 0 /\ NoInfo.at = 0 /\ r.lap # 0
      BY RaceAssumption DEF NoInfo, Info
    <3> QED
      BY <1>0, <1>2, <2>1, <3>1
  <2> HIDE DEF set, new, next, t
  <2>5. /\ set \in Seq(Lap)
        /\ \A k \in DOMAIN set : \/ k \in DOMAIN laps /\ set[k] = laps[k]
                                 \/ k = Len(laps) + 1 /\ set[k] = new
    BY <1>0, <2>2, AppendFacts
  <2>6. \A k, l \in DOMAIN set : set[k].lap = set[l].lap => k = l
    BY <1>1, <1>4, <2>3, <2>5 DEF LapsKept
  <2>7. ASSUME NEW k \in DOMAIN set
        PROVE  /\ set[k].first <= t
               /\ set[k].info # NoInfo => set[k].info.lap = set[k].lap /\ set[k].info.at <= set[k].first
               /\ next.lap = set[k].lap => next.at > set[k].first
    <3>1. CASE k \in DOMAIN laps /\ set[k] = laps[k]
      <4>1. laps[k].lap # 0
        BY <1>0, <3>1 DEF Lap
      <4> QED
        BY <1>1, <2>4, <3>1, <4>1 DEF LapsKept
    <3>2. CASE set[k] = new
      BY <1>0, <2>3, <2>4, <3>2
    <3> QED
      BY <2>5, <3>1, <3>2
  <2>8. LapsKept(set, next, t)
    BY <2>4, <2>5, <2>6, <2>7 DEF LapsKept
  <2> QED
    BY <2>8 DEF set, next, t
<1> QED
  BY <1>3, <1>4

\* A race graph has one entry per lap.
GraphKept(g) ==
  /\ g \in Seq(Range(g))
  /\ \A i, j \in DOMAIN g : g[i].lap = g[j].lap => i = j

LEMMA PutEntryKeeps ==
  ASSUME NEW g, NEW e, GraphKept(g)
  PROVE  /\ GraphKept(PutEntry(g, e))
         /\ \A k \in DOMAIN g : k \in DOMAIN PutEntry(g, e) /\ PutEntry(g, e)[k].lap = g[k].lap
<1> DEFINE i == At(g, e.lap)
           put == PutEntry(g, e)
           S == Range(g) \cup {e}
<1>1. put = IF i # 0 THEN [g EXCEPT ![i] = e] ELSE Append(g, e)
  BY DEF PutEntry, At
<1>2. g \in Seq(S) /\ e \in S /\ Len(g) \in Nat /\ DOMAIN g = 1..Len(g)
  BY DEF GraphKept
<1>3. \/ i = 0 /\ \A k \in DOMAIN g : g[k].lap # e.lap
      \/ i \in DOMAIN g /\ i # 0 /\ g[i].lap = e.lap
  BY <1>2, AtFacts
<1>4. \A k, l \in DOMAIN g : g[k].lap = g[l].lap => k = l
  BY DEF GraphKept
<1> HIDE DEF i, put, S
<1>5. /\ put \in Seq(S) /\ \A k, l \in DOMAIN put : put[k].lap = put[l].lap => k = l
      /\ \A k \in DOMAIN g : k \in DOMAIN put /\ put[k].lap = g[k].lap
  <2>1. CASE i = 0
    <3>1. put = Append(g, e)
      BY <1>1, <2>1
    <3>2. /\ put \in Seq(S)
          /\ \A k \in DOMAIN put : \/ k \in DOMAIN g /\ put[k] = g[k]
                                   \/ k = Len(g) + 1 /\ put[k] = e
      BY <1>2, <3>1, AppendFacts
    <3>3. \A k \in DOMAIN g : k \in DOMAIN put /\ put[k] = g[k]
      BY <1>2, <3>1
    <3> QED
      BY <1>3, <1>4, <2>1, <3>2, <3>3
  <2>2. CASE i # 0
    <3>1. put = [g EXCEPT ![i] = e] /\ i \in DOMAIN g /\ g[i].lap = e.lap
      BY <1>1, <1>3, <2>2
    <3>2. put \in Seq(S) /\ DOMAIN put = DOMAIN g /\ \A k \in DOMAIN g : put[k] = IF k = i THEN e ELSE g[k]
      BY <1>2, <3>1
    <3>3. \A k \in DOMAIN g : put[k].lap = g[k].lap
      BY <3>1, <3>2
    <3> QED
      BY <1>4, <3>2, <3>3
  <2> QED
    BY <2>1, <2>2
<1>6. put \in Seq(Range(put))
  BY <1>5 DEF Range
<1> QED
  BY <1>5, <1>6 DEF GraphKept, put

\* All that the race processor keeps, at the last message.
Tables ==
  /\ raceOrder \in Seq(Cars)
  /\ {marker, race, panicked} \subseteq BOOLEAN
  /\ replay \in [from : 0..now, minTime : 0..now, to : 0..now, maxTime : 0..now]
  /\ \A c \in Cars : LapsKept(carLaps[c], timeInfos[c], now)
  /\ \A g \in Graphs : GraphKept(graph[g])

LEMMA LapsLater ==
  ASSUME NEW laps, NEW ti, NEW n \in Nat, NEW m \in Nat, n <= m, LapsKept(laps, ti, n)
  PROVE  LapsKept(laps, ti, m)
<1>1. ti.at \in Nat /\ \A k \in DOMAIN laps : laps[k].first \in Nat
  <2>1. \A k \in DOMAIN laps : laps[k] \in Lap
    BY DEF LapsKept
  <2> QED
    BY <2>1 DEF LapsKept, Info, Lap
<1> QED
  BY <1>1 DEF LapsKept

LEMMA TablesInit == Init => Tables
<1> SUFFICES ASSUME Init PROVE Tables
  OBVIOUS
<1>1. /\ raceOrder = <<>> /\ marker = FALSE /\ panicked = FALSE /\ race \in BOOLEAN /\ now = 0 /\ replay = NoReplay
  BY DEF Init, RaceInit
<1>2. replay \in [from : 0..now, minTime : 0..now, to : 0..now, maxTime : 0..now]
  BY <1>1 DEF NoReplay
<1>3. \A c \in Cars : LapsKept(carLaps[c], timeInfos[c], now)
  <2> SUFFICES ASSUME NEW c \in Cars PROVE LapsKept(carLaps[c], timeInfos[c], now)
    OBVIOUS
  <2>1. carLaps[c] = <<>> /\ timeInfos[c] = NoInfo
    BY DEF Init, RaceInit
  <2>2. NoInfo \in Info /\ NoInfo.at = 0
    BY RaceAssumption DEF NoInfo, Info
  <2>3. <<>> \in Seq(Lap) /\ DOMAIN <<>> = {}
    OBVIOUS
  <2> QED
    BY <1>1, <2>1, <2>2, <2>3 DEF LapsKept
<1>4. \A g \in Graphs : GraphKept(graph[g])
  <2>1. GraphKept(<<>>)
    BY DEF GraphKept
  <2>2. \A g \in Graphs : graph[g] = <<>>
    BY DEF Init, RaceInit
  <2> QED
    BY <2>1, <2>2
<1>5. raceOrder \in Seq(Cars) /\ {marker, race, panicked} \subseteq BOOLEAN
  <2>1. raceOrder \in Seq(Cars)
    BY <1>1
  <2>2. {marker, race, panicked} \subseteq BOOLEAN
    BY <1>1, Zenon
  <2> QED
    BY <2>1, <2>2
<1> QED
  BY <1>2, <1>3, <1>4, <1>5 DEF Tables

\* A state message.
LEMMA TablesState ==
  ASSUME Tables, IInv, ProcessState
  PROVE  Tables'
<1>1. PICK p \in Payloads, raceStart \in {FALSE, race} : ProcessStatePayload(p, raceStart)
  BY DEF ProcessState
<1>2. now' = now + 1 /\ now \in Nat /\ start \in 1..(now + 1) /\ UNCHANGED <<race, panicked>>
  BY DEF ProcessState, Tick, IInv, Scalars
<1>3. /\ Len(p) \in Nat /\ DOMAIN p = 1..Len(p)
      /\ \A i \in DOMAIN p : p[i].car \in Cars
  BY PayloadFacts
<1>4. raceOrder' \in Seq(Cars)
  BY <1>1, <1>3 DEF ProcessStatePayload
<1>5. {marker, race, panicked}' \subseteq BOOLEAN
  <2>1. raceStart \in BOOLEAN /\ race \in BOOLEAN /\ marker \in BOOLEAN /\ panicked \in BOOLEAN
    BY <1>1, Zenon DEF Tables
  <2>2. marker' = (marker \/ (race /\ raceStart))
    BY <1>1, Zenon DEF ProcessStatePayload
  <2>3. marker' \in BOOLEAN
    BY <2>2, Zenon
  <2> QED
    BY <1>2, <2>1, <2>3, Zenon
<1>6. replay' \in [from : 0..now', minTime : 0..now', to : 0..now', maxTime : 0..now']
  <2> DEFINE t == now + 1
             begins == ~marker /\ (raceStart \/ replay.from = 0)
             f == IF begins THEN t ELSE replay.from
             m == IF begins THEN t - start ELSE replay.minTime
  <2>1. replay' = replay \/ replay' = [from |-> f, minTime |-> m, to |-> t, maxTime |-> t - start]
    BY <1>1 DEF ProcessStatePayload, ReplayInfo
  <2>2. replay \in [from : 0..now, minTime : 0..now, to : 0..now, maxTime : 0..now]
    BY DEF Tables
  <2>3. f \in 0..t /\ m \in 0..t /\ t - start \in 0..t /\ t \in 0..t /\ 0..now \subseteq 0..t
    BY <1>2, <2>2
  <2>4. now' = t
    BY <1>2
  <2> HIDE DEF f, m, t
  <2> QED
    BY <2>1, <2>2, <2>3, <2>4
<1>7. ASSUME NEW c \in Cars PROVE LapsKept(carLaps[c], timeInfos[c], now)'
  <2> DEFINE counted == {p[i].car : i \in {j \in DOMAIN p : p[j].lap >= 1}}
             laps == carLaps[c]
             r == Of(p, c)
  <2>1. /\ carLaps'[c] = IF c \in counted THEN SetLap(laps, r, now + 1) ELSE laps
        /\ timeInfos'[c] = IF c \in counted THEN NextInfo(laps, r, now + 1) ELSE timeInfos[c]
    BY <1>1 DEF ProcessStatePayload, ProcessCarLaps, Of
  <2>2. LapsKept(laps, timeInfos[c], now)
    BY DEF Tables
  <2>3. CASE c \notin counted
    BY <1>2, <2>1, <2>2, <2>3, LapsLater
  <2>4. CASE c \in counted
    <3>1. PICK i \in DOMAIN p : p[i].car = c /\ p[i].lap >= 1
      BY <2>4
    <3>2. r.car = c /\ r.lap \in 1..MaxLap /\ r.told \in 0..MaxLap
      BY <3>1, CountedFacts
    <3> HIDE DEF r, laps, counted
    <3>3. LapsKept(laps, timeInfos[r.car], now)
      BY <2>2, <3>2
    <3>4. LapsKept(SetLap(laps, r, now + 1), NextInfo(laps, r, now + 1), now + 1)
      BY <1>2, <3>2, <3>3, ReportKeeps
    <3> QED
      BY <1>2, <2>1, <2>4, <3>4
  <2> QED
    BY <2>3, <2>4
<1>8. ASSUME NEW g \in Graphs PROVE GraphKept(graph[g])'
  <2>1. GraphKept(graph[g])
    BY DEF Tables
  <2>2. graph'[g] = graph[g] \/ \E e : graph'[g] = PutEntry(graph[g], e)
    BY <1>1, Zenon DEF ProcessStatePayload, OverallGraph, ClassGraph
  <2> QED
    BY <2>1, <2>2, PutEntryKeeps
<1> QED
  BY <1>4, <1>5, <1>6, <1>7, <1>8 DEF Tables

LEMMA TablesStep == Tables /\ IInv /\ [Next]_vars => Tables'
<1> SUFFICES ASSUME Tables, IInv, [Next]_vars PROVE Tables'
  OBVIOUS
<1>1. CASE ProcessState
  BY <1>1, TablesState
<1>2. CASE ~ProcessState
  <2>1. UNCHANGED <<raceOrder, carLaps, timeInfos, graph, replay, marker>>
    BY <1>2 DEF Next, ProcessStateEnd, SwitchSession, Begin, Check, Read, Send, Mark, vars, raceVars
  <2>2. now \in Nat /\ now' \in {now, now + 1}
    BY <1>2 DEF Next, ProcessStateEnd, SwitchSession, Begin, Check, Read, Send, Mark, vars, clock, Tick, IInv, Scalars
  <2>3. race' \in BOOLEAN /\ panicked' \in BOOLEAN
    <3>1. race \in BOOLEAN /\ panicked \in BOOLEAN
      BY Zenon DEF Tables
    <3>2. race' = race \/ race' \in BOOLEAN
      BY <1>2 DEF Next, ProcessStateEnd, SwitchSession, NewSession, Begin, Check, Read, Send, Mark, vars, clock
    <3>3. panicked' = panicked \/ \E c \in Callers : panicked' = (panicked \/ (Due(c) /\ session = 0))
      BY <1>2, Zenon DEF Next, ProcessStateEnd, SwitchSession, Begin, Check, Read, Send, Mark, vars
    <3>4. race' \in BOOLEAN
      BY <3>1, <3>2, Zenon
    <3>5. panicked' \in BOOLEAN
      BY <3>1, <3>3, Zenon
    <3> QED
      BY <3>4, <3>5
  <2>4. raceOrder' \in Seq(Cars) /\ \A g \in Graphs : GraphKept(graph[g])'
    BY <2>1 DEF Tables
  <2>5. {marker, race, panicked}' \subseteq BOOLEAN
    BY <2>1, <2>3, Zenon DEF Tables
  <2>6. replay' \in [from : 0..now', minTime : 0..now', to : 0..now', maxTime : 0..now']
    BY <2>1, <2>2 DEF Tables
  <2>7. ASSUME NEW c \in Cars PROVE LapsKept(carLaps[c], timeInfos[c], now)'
    <3>1. LapsKept(carLaps[c], timeInfos[c], now)
      BY DEF Tables
    <3>2. LapsKept(carLaps[c], timeInfos[c], now')
      BY <2>2, <3>1, LapsLater
    <3> QED
      BY <2>1, <3>2
  <2> QED
    BY <2>4, <2>5, <2>6, <2>7 DEF Tables
<1> QED
  BY <1>1, <1>2

LEMMA AlwaysTables == Spec => []Tables
<1>1. Init => Tables
  BY TablesInit
<1>2. IInv /\ Tables /\ [Next]_vars => Tables'
  BY TablesStep
<1> QED
  BY <1>1, <1>2, Always, PTL DEF Spec

(***************************************************************************)
(* Whatever the recorder sends, in any number of sessions: the processors  *)
(* keep their types, and a lap has one entry in the laps of its car and in *)
(* each race graph, although the graph of a class takes its laps from      *)
(* other cars.                                                             *)
(***************************************************************************)
THEOREM TypeCorrect == Spec => []TypeOK
<1>1. IInv /\ Tables => TypeOK
  <2> SUFFICES ASSUME IInv, Tables PROVE TypeOK
    OBVIOUS
  <2>1. ASSUME NEW c \in Cars
        PROVE  /\ \A k \in DOMAIN carLaps[c] : carLaps[c][k].lap \in 1..MaxLap
               /\ \A k, l \in DOMAIN carLaps[c] : carLaps[c][k].lap = carLaps[c][l].lap => k = l
               /\ timeInfos[c] \in [lap : 0..MaxLap, at : Moments]
    <3>1. LapsKept(carLaps[c], timeInfos[c], now)
      BY DEF Tables
    <3>2. \A k \in DOMAIN carLaps[c] : carLaps[c][k] \in Lap
      BY <3>1 DEF LapsKept
    <3>3. timeInfos[c] \in [lap : 0..MaxLap, at : Moments]
      <4>1. timeInfos[c] \in [lap : 0..MaxLap, at : Nat] /\ timeInfos[c].at <= now /\ now \in Nat
        BY <3>1 DEF LapsKept, Info, IInv, Scalars
      <4> QED
        BY <4>1 DEF Moments
    <3> QED
      BY <3>1, <3>2, <3>3 DEF LapsKept, Lap
  <2>2. \A g \in Graphs : \A i, j \in DOMAIN graph[g] : graph[g][i].lap = graph[g][j].lap => i = j
    BY DEF Tables, GraphKept
  <2>3. /\ start \in 1..(now + 1) /\ now \in Nat /\ {state, session, snapshot} \subseteq Moments
        /\ replay \in [from : Moments, minTime : Moments, to : Moments, maxTime : Moments]
    BY DEF IInv, Scalars, Tables, Moments
  <2>4. \A c \in Callers : handler[c].at \in {"idle", "check", "read", "send", "mark"}
    BY HandlerFacts DEF Handler
  <2>5. raceOrder \in Seq(Cars) /\ {marker, race, panicked} \subseteq BOOLEAN
    BY Zenon DEF Tables
  <2> QED
    BY <2>1, <2>2, <2>3, <2>4, <2>5 DEF TypeOK
<1> QED
  BY Always, AlwaysTables, <1>1, PTL

(***************************************************************************)
(* ProcessCarLaps: a lap never has the info of another lap or one that     *)
(* came after it, and no info that came in time is left behind, for cars   *)
(* and laps in any order over any number of sessions.                      *)
(***************************************************************************)
THEOREM InfosAlwaysAttached == Spec => []InfosAttached
<1>1. Tables => InfosAttached
  BY DEF Tables, LapsKept, InfosAttached
<1> QED
  BY AlwaysTables, <1>1, PTL

\* What is in the tables stays at its place.
LapsStay ==
  \A c \in Cars : \A i \in DOMAIN carLaps[c] :
    /\ i \in DOMAIN carLaps'[c]
    /\ carLaps'[c][i].lap = carLaps[c][i].lap
    /\ carLaps'[c][i].first = carLaps[c][i].first
    /\ carLaps'[c][i].info = carLaps[c][i].info
GraphsGrow ==
  \A g \in Graphs : \A i \in DOMAIN graph[g] :
    i \in DOMAIN graph'[g] /\ graph'[g][i].lap = graph[g][i].lap

(***************************************************************************)
(* No message, and no new session that starts its laps again, removes or   *)
(* moves a lap or gives it another info, and a race graph replaces entries *)
(* only by entries of the same lap.                                        *)
(***************************************************************************)
THEOREM NothingLost == Spec => [][LapsStay /\ GraphsGrow]_vars
<1>1. Tables /\ IInv /\ [Next]_vars => [LapsStay /\ GraphsGrow]_vars
  <2> SUFFICES ASSUME Tables, IInv, Next PROVE LapsStay /\ GraphsGrow
    OBVIOUS
  <2>1. CASE ~ProcessState
    <3>1. carLaps' = carLaps /\ graph' = graph
      BY <2>1 DEF Next, ProcessStateEnd, SwitchSession, Begin, Check, Read, Send, Mark, raceVars
    <3> QED
      BY <3>1 DEF LapsStay, GraphsGrow
  <2>2. CASE ProcessState
    <3>1. PICK p \in Payloads, raceStart \in {FALSE, race} : ProcessStatePayload(p, raceStart)
      BY <2>2 DEF ProcessState
    <3>2. now \in Nat
      BY DEF IInv, Scalars
    <3>3. ASSUME NEW c \in Cars, NEW k \in DOMAIN carLaps[c]
          PROVE  /\ k \in DOMAIN carLaps'[c] /\ carLaps'[c][k].lap = carLaps[c][k].lap
                 /\ carLaps'[c][k].first = carLaps[c][k].first /\ carLaps'[c][k].info = carLaps[c][k].info
      <4> DEFINE counted == {p[i].car : i \in {j \in DOMAIN p : p[j].lap >= 1}}
                 laps == carLaps[c]
                 r == Of(p, c)
      <4>1. carLaps'[c] = IF c \in counted THEN SetLap(laps, r, now + 1) ELSE laps
        BY <3>1 DEF ProcessStatePayload, ProcessCarLaps, Of
      <4>2. CASE c \notin counted
        BY <3>3, <4>1, <4>2
      <4>3. CASE c \in counted
        <5>1. PICK i \in DOMAIN p : p[i].car = c /\ p[i].lap >= 1
          BY <4>3
        <5>2. r.car = c /\ r.lap \in 1..MaxLap /\ r.told \in 0..MaxLap
          BY <5>1, CountedFacts
        <5> HIDE DEF r, counted
        <5>3. laps \in Seq(Lap) /\ timeInfos[c] \in Info
          BY DEF Tables, LapsKept
        <5>4. Waiting(r, now + 1) \in Info
          BY <3>2, <5>2, <5>3 DEF Waiting, Info
        <5> DEFINE set == SetLap(laps, r, now + 1)
                   new == [lap |-> r.lap, time |-> now + 1, first |-> now + 1,
                           info |-> LapInfo(Waiting(r, now + 1), r.lap)]
        <5>5. \/ /\ DOMAIN set = DOMAIN laps
                 /\ \A l \in DOMAIN laps : /\ set[l].lap = laps[l].lap /\ set[l].first = laps[l].first
                                           /\ set[l].info = laps[l].info
              \/ set = Append(laps, new)
          BY <3>2, <5>2, <5>3, <5>4, SetLapFacts
        <5> HIDE DEF set, new, laps
        <5>6. set = Append(laps, new) => \A l \in DOMAIN laps : l \in DOMAIN set /\ set[l] = laps[l]
          BY <5>3
        <5>7. k \in DOMAIN laps
          BY <3>3 DEF laps
        <5>8. k \in DOMAIN set /\ set[k].lap = laps[k].lap /\ set[k].first = laps[k].first /\ set[k].info = laps[k].info
          BY <5>5, <5>6, <5>7
        <5> QED
          BY <4>1, <4>3, <5>8 DEF laps, set
      <4> QED
        BY <4>2, <4>3
    <3>4. ASSUME NEW g \in Graphs PROVE \A i \in DOMAIN graph[g] : i \in DOMAIN graph'[g] /\ graph'[g][i].lap = graph[g][i].lap
      <4>1. GraphKept(graph[g])
        BY DEF Tables
      <4>2. graph'[g] = graph[g] \/ \E e : graph'[g] = PutEntry(graph[g], e)
        BY <3>1, Zenon DEF ProcessStatePayload, OverallGraph, ClassGraph
      <4> QED
        BY <4>1, <4>2, PutEntryKeeps
    <3> QED
      BY <3>3, <3>4 DEF LapsStay, GraphsGrow
  <2> QED
    BY <2>1, <2>2
<1> QED
  BY Always, AlwaysTables, <1>1, PTL DEF Spec
=============================================================================
