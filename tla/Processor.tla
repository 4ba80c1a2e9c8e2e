----------------------------- MODULE Processor -----------------------------
(***************************************************************************)
(* The processor of an event, processing/processor.go: a state message     *)
(* goes to the race processor (and to the car processor, see CarProcessor) *)
(* under the mutex of the event.  The speedmaps are processed without it:  *)
(* from time to time one of them yields a snapshot, with the session data  *)
(* of the last state message.                                              *)
(***************************************************************************)
EXTENDS RaceProcessor

CONSTANTS
  Callers,     \* handlers of PublishSpeedmap
  SnapshotGap, \* two minutes
  MaxStates,   \* bound on the state messages
  MaxMaps,     \* bound on the speedmaps
  MaxMix,      \* bound on speedmaps times other messages
  MaxSwitch    \* bound on the changes of the session

ASSUME ProcessorAssumption == SnapshotGap \in Nat /\ {MaxStates, MaxMaps, MaxMix, MaxSwitch} \subseteq Nat

VARIABLES
  state,      \* the moment of the state message in progress, 0 for none
  session,    \* lastSessionData: the moment of its message, 0 for nil
  snapshot,   \* lastSnapshotTime, 0 for the zero time
  handler,    \* per caller the speedmap in progress
  snapshots,  \* what was sent to snapshotChan
  sent,       \* numbers of messages and changes of the session
  panicked    \* history: a request ended with a nil dereference

vars == <<raceVars, clock, state, session, snapshot, handler, snapshots, sent, panicked>>

NoCall == [at |-> "idle", stamp |-> 0, base |-> 0, time |-> 0, rest |-> 0, alone |-> TRUE]

Init ==
  /\ RaceInit
  /\ state = 0 /\ session = 0 /\ snapshot = 0
  /\ handler = [c \in Callers |-> NoCall]
  /\ snapshots = <<>>
  /\ sent = [states |-> 0, maps |-> 0, switches |-> 0]
  /\ panicked = FALSE

Tick(kind) ==
  /\ now' = now + 1
  /\ sent' = [sent EXCEPT ![kind] = @ + 1]
  /\ sent'.states <= MaxStates /\ sent'.maps <= MaxMaps /\ sent'.switches <= MaxSwitch
  /\ (sent'.states + sent'.switches) * sent'.maps <= MaxMix

-----------------------------------------------------------------------------
\* PublishState holds the mutex from here until ProcessState has returned.
ProcessState ==
  /\ state = 0 /\ Tick("states")
  /\ \E p \in Payloads, raceStart \in {FALSE, race} : ProcessStatePayload(p, raceStart)
  /\ state' = now + 1
  /\ UNCHANGED <<race, start, session, snapshot, handler, snapshots, panicked>>

\* After the sends to the broadcast servers.
ProcessStateEnd ==
  /\ state # 0
  /\ session' = state
  /\ state' = 0
  /\ UNCHANGED <<raceVars, clock, snapshot, handler, snapshots, sent, panicked>>

SwitchSession(r) ==
  /\ state = 0 /\ Tick("switches")
  /\ NewSession(r)
  /\ UNCHANGED <<raceVars, state, session, snapshot, handler, snapshots, panicked>>
-----------------------------------------------------------------------------
(* ProcessSpeedmap                                                          *)

Begin(c) ==
  /\ handler[c].at = "idle" /\ Tick("maps")
  /\ LET others == {d \in Callers \ {c} : handler[d].at # "idle"}
     IN  handler' = [d \in Callers |->
           IF d = c THEN [at |-> "check", stamp |-> now + 1, base |-> session,
                          time |-> 0, rest |-> 0, alone |-> others = {}]
           ELSE [handler[d] EXCEPT !.alone = @ /\ d \notin others]]
  /\ UNCHANGED <<raceVars, race, start, lap, state, session, snapshot, snapshots, panicked>>

\* Mutant of Due: the time of the last snapshot is not looked at.
DueAlways(c) == TRUE

Due(c) == snapshot = 0 \/ handler[c].stamp - snapshot > SnapshotGap

\* Mutant of Check: without session data the snapshot has none.
CheckNoNil(c) ==
  /\ handler[c].at = "check"
  /\ handler' = [handler EXCEPT ![c].at = IF Due(c) THEN "read" ELSE "mark", ![c].time = session]
  /\ UNCHANGED <<raceVars, clock, state, session, snapshot, snapshots, sent, panicked>>

\* Without a state message before there is no session data: a nil dereference.
Check(c) ==
  /\ handler[c].at = "check"
  /\ IF Due(c) /\ session # 0
     THEN handler' = [handler EXCEPT ![c].at = "read", ![c].time = session]
     ELSE handler' = [handler EXCEPT ![c] = NoCall]
  /\ panicked' = (panicked \/ (Due(c) /\ session = 0))
  /\ UNCHANGED <<raceVars, clock, state, session, snapshot, snapshots, sent>>

\* The other fields of the session data are read after its time.
Read(c) ==
  /\ handler[c].at = "read"
  /\ handler' = [handler EXCEPT ![c].at = "send", ![c].rest = session]
  /\ UNCHANGED <<raceVars, clock, state, session, snapshot, snapshots, sent, panicked>>

Send(c) ==
  /\ handler[c].at = "send"
  /\ snapshots' = Append(snapshots, handler[c])
  /\ handler' = [handler EXCEPT ![c].at = "mark"]
  /\ UNCHANGED <<raceVars, clock, state, session, snapshot, sent, panicked>>

Mark(c) ==
  /\ handler[c].at = "mark"
  /\ snapshot' = handler[c].stamp
  /\ handler' = [handler EXCEPT ![c] = NoCall]
  /\ UNCHANGED <<raceVars, clock, state, session, snapshots, sent, panicked>>

-----------------------------------------------------------------------------
Next ==
  \/ ProcessState \/ ProcessStateEnd
  \/ \E r \in BOOLEAN : SwitchSession(r)
  \/ \E c \in Callers : Begin(c) \/ Check(c) \/ Read(c) \/ Send(c) \/ Mark(c)

Spec == Init /\ [][Next]_vars

-----------------------------------------------------------------------------
(* Properties                                                               *)

Moments == 0..now

\* The variables keep their types; every lap of a car and every lap of a race
\* graph has one entry, whatever laps, leaders and sessions come back.
TypeOK ==
  /\ raceOrder \in Seq(Cars)
  /\ \A c \in Cars :
       /\ \A k \in DOMAIN carLaps[c] : carLaps[c][k].lap \in 1..MaxLap
       /\ \A k, l \in DOMAIN carLaps[c] : carLaps[c][k].lap = carLaps[c][l].lap => k = l
       /\ timeInfos[c] \in [lap : 0..MaxLap, at : Moments]
  /\ \A g \in Graphs : \A i, j \in DOMAIN graph[g] : graph[g][i].lap = graph[g][j].lap => i = j
  /\ replay \in [from : Moments, minTime : Moments, to : Moments, maxTime : Moments]
  /\ {marker, race, panicked} \subseteq BOOLEAN
  /\ start \in 1..(now + 1) /\ now \in Nat
  /\ {state, session, snapshot} \subseteq Moments
  /\ \A c \in Callers : handler[c].at \in {"idle", "check", "read", "send", "mark"}

\* A lap has the info that was sent for it or before it, and none that came in
\* time still waits.  Nothing is cleared between sessions: a lap of the race
\* keeps, or gets, what came in the qualifying.
InfosAttached ==
  \A c \in Cars : \A i \in DOMAIN carLaps[c] :
    LET e == carLaps[c][i] IN
      /\ e.info # NoInfo => e.info.lap = e.lap /\ e.info.at <= e.first
      /\ timeInfos[c].lap = e.lap => timeInfos[c].at > e.first

\* The span for replays begins at the first race message or, once it came, at
\* the first "Race start", for good; it ends at the last race message, and
\* within one session it does not end before it begins.
ReplaySpan ==
  /\ [][/\ marker => replay'.from = replay.from /\ replay'.minTime = replay.minTime
        /\ replay.from # 0 => replay'.from # 0 /\ replay'.from >= replay.from
        /\ replay'.to >= replay.to]_vars
  /\ [](/\ replay.from <= replay.to
        /\ replay.from >= start => replay.minTime <= replay.maxTime)

\* Snapshots whose handlers ran alone are further apart than two minutes.
SnapshotsSpaced ==
  \A i, j \in DOMAIN snapshots :
    i < j /\ snapshots[i].alone /\ snapshots[j].alone => snapshots[j].stamp - snapshots[i].stamp > SnapshotGap

\* A snapshot has the session data of state messages that were processed, none
\* older than the last one before the speedmap came, and its time is not newer
\* than the rest; both are of one message unless one ended meanwhile.
SnapshotSession ==
  \A i \in DOMAIN snapshots :
    LET s == snapshots[i] IN
      /\ 0 < s.time /\ s.base <= s.time
      /\ s.time <= s.rest /\ s.rest <= session
=============================================================================
