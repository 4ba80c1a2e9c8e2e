--------------------------- MODULE RaceProcessor ---------------------------
(***************************************************************************)
(* The race processor of an event, processing/race/race_processor.go: laps *)
(* of the cars, race graphs (who was where when the leader finished a lap) *)
(* and the span of the race for replays, from the state messages of the    *)
(* recorder.  As in CarProcessor every message has a moment of its own,    *)
(* and the session time is moment - start.  Gaps and lap times are not     *)
(* computed with; what is recorded is the moment of the message.           *)
(***************************************************************************)
EXTENDS Integers, Sequences, FiniteSets, SequencesExt

CONSTANTS
  Cars,     \* car numbers; the car processor knows all of them
  Classes,
  ClassOf,  \* the class of each car
  MaxLap    \* bound on the laps of a session

ASSUME RaceAssumption ==
  /\ IsFiniteSet(Cars) /\ ClassOf \in [Cars -> Classes] /\ "overall" \notin Classes
  /\ MaxLap \in Nat

VARIABLES
  raceOrder,  \* RaceOrder
  carLaps,    \* CarLaps: per car its laps
  timeInfos,  \* timeInfos: per car the lap info that waits for its lap
  graph,      \* RaceGraph: per class, and overall, its entries
  replay,     \* ReplayInfo: moments of MinTimestamp and MaxSessionTime, session times
  marker,     \* raceStartMarkerFound
  race,       \* the session is one of raceSessions
  start,      \* the moment at which the session time was 0
  now,        \* the moment of the last message
  lap         \* history: per car the laps it reported last in this session

raceVars == <<raceOrder, carLaps, timeInfos, graph, replay, marker>>
clock == <<race, start, now, lap>>

NoInfo == [lap |-> 0, at |-> 0]
NoReplay == [from |-> 0, minTime |-> 0, to |-> 0, maxTime |-> 0]
Graphs == Classes \cup {"overall"}

RaceInit ==
  /\ raceOrder = <<>>
  /\ carLaps = [c \in Cars |-> <<>>]
  /\ timeInfos = [c \in Cars |-> NoInfo]
  /\ graph = [g \in Graphs |-> <<>>]
  /\ replay = NoReplay
  /\ marker = FALSE
  /\ race \in BOOLEAN
  /\ start = 1 /\ now = 0
  /\ lap = [c \in Cars |-> 0]

-----------------------------------------------------------------------------
(* A message: reports [car, pos, pic, lap, racing, told] in any order;      *)
(* told is the lap of its TimeInfo, 0 for none.                             *)

\* What the recorder may send: laps are completed one by one, the order of the
\* race follows the laps, there are positions once a lap is completed, a car
\* that is out is the last one, and the info of a lap comes with it or before.
Orders == {p \in [Cars -> 1..Cardinality(Cars)] : \A c, d \in Cars : p[c] = p[d] => c = d}
NextLaps == {f \in [Cars -> 0..MaxLap] : \A c \in Cars : f[c] \in {lap[c], lap[c] + 1}}

Report(c, position, laps, out, told) ==
  [car |-> c,
   pos |-> position[c],
   pic |-> Cardinality({d \in Cars : ClassOf[d] = ClassOf[c] /\ position[d] <= position[c]}),
   lap |-> laps[c],
   racing |-> ~(out /\ position[c] = Cardinality(Cars)),
   told |-> told]

Payloads ==
  {[i \in DOMAIN m.cars |->
      LET r == Report(m.cars[i], m.position, m.laps, m.out, IF i = 1 THEN m.told ELSE 0)
      IN  IF m.laps = [c \in Cars |-> 0] THEN [r EXCEPT !.pos = 0, !.pic = 0] ELSE r] :
   m \in {n \in [cars : SetToSeqs(Cars), position : Orders, laps : NextLaps, out : BOOLEAN, told : 0..MaxLap] :
           /\ \A c, d \in Cars : n.position[c] < n.position[d] => n.laps[c] >= n.laps[d]
           /\ n.told # 0 => n.told - n.laps[n.cars[1]] \in {0, 1}}}

-----------------------------------------------------------------------------
(* The laps of a car.                                                       *)

\* Mutant of LapInfo: the lap of the info is not compared.
LapInfoAny(ti, n) == ti

\* getLapInfo: the info that waits, if it is the one of this lap.
LapInfo(ti, n) == IF ti.lap = n THEN ti ELSE NoInfo

\* The info that waits once the message has come.
Waiting(r, t) == IF r.told # 0 THEN [lap |-> r.told, at |-> t] ELSE timeInfos[r.car]

\* A lap that is known keeps its info and the place it has.
SetLap(laps, r, t) ==
  LET i == SelectInSeq(laps, LAMBDA e : e.lap = r.lap)
  IN  IF i # 0 THEN [laps EXCEPT ![i].time = t]
      ELSE Append(laps, [lap |-> r.lap, time |-> t, first |-> t,
                         info |-> LapInfo(Waiting(r, t), r.lap)])

\* The info that a new lap has taken is deleted.
NextInfo(laps, r, t) ==
  LET ti == Waiting(r, t)
      known == \E i \in DOMAIN laps : laps[i].lap = r.lap
  IN  IF ~known /\ ti.lap = r.lap THEN NoInfo ELSE ti

\* Laps before the first one are not looked at.
ProcessCarLaps(p, t) ==
  LET Of(c) == p[SelectInSeq(p, LAMBDA r : r.car = c)]
      counted == {p[i].car : i \in {j \in DOMAIN p : p[j].lap >= 1}}
  IN  /\ carLaps' = [c \in Cars |-> IF c \in counted THEN SetLap(carLaps[c], Of(c), t) ELSE carLaps[c]]
      /\ timeInfos' = [c \in Cars |-> IF c \in counted THEN NextInfo(carLaps[c], Of(c), t) ELSE timeInfos[c]]

-----------------------------------------------------------------------------
(* The race graphs.                                                         *)

\* Cars that race, ordered by position.
Gaps(reports) ==
  LET racing == SelectSeq(reports, LAMBDA r : r.racing)
      sorted == SortSeq(racing, LAMBDA a, b : a.pos < b.pos)
  IN  [i \in DOMAIN sorted |-> [car |-> sorted[i].car, pos |-> sorted[i].pos]]

\* Mutant of PutEntry: the entry of the same lap stays.
PutEntryAnyway(g, e) == Append(g, e)

\* The entry of a lap replaces the one of the same lap.
PutEntry(g, e) ==
  LET i == SelectInSeq(g, LAMBDA f : f.lap = e.lap)
  IN  IF i # 0 THEN [g EXCEPT ![i] = e] ELSE Append(g, e)

\* Without a leader there is no entry.
OverallGraph(p, t) ==
  LET leader == SelectInSeq(p, LAMBDA r : r.pos = 1)
  IN  IF leader = 0 THEN graph["overall"]
      ELSE PutEntry(graph["overall"], [lap |-> p[leader].lap, gaps |-> Gaps(p), at |-> t])

\* The index of the leader in its class is used as one in the whole message:
\* the lap of the entry is that of another car when the class is not ahead.
ClassGraph(p, g, t) ==
  LET entries == SelectSeq(p, LAMBDA r : ClassOf[r.car] = g)
      leader == SelectInSeq(entries, LAMBDA r : r.pic = 1)
  IN  IF leader = 0 THEN graph[g]
      ELSE PutEntry(graph[g], [lap |-> p[leader].lap, gaps |-> Gaps(entries), at |-> t])

-----------------------------------------------------------------------------
(* The span of the race.                                                    *)

\* Mutant of ReplayInfo: a second "Race start" counts.
ReplayInfoRestart(t, raceStart) ==
  LET time == t - start
      begins == raceStart \/ replay.from = 0
  IN  IF ~race THEN replay
      ELSE [from |-> IF begins THEN t ELSE replay.from,
            minTime |-> IF begins THEN time ELSE replay.minTime,
            to |-> t, maxTime |-> time]

\* Until the message "Race start" has come the span begins with the first
\* message of a race session; other sessions do not count.
ReplayInfo(t, raceStart) ==
  LET time == t - start
      begins == ~marker /\ (raceStart \/ replay.from = 0)
  IN  IF ~race THEN replay
      ELSE [from |-> IF begins THEN t ELSE replay.from,
            minTime |-> IF begins THEN time ELSE replay.minTime,
            to |-> t, maxTime |-> time]

-----------------------------------------------------------------------------
\* checkValidData never refuses: the car processor has taken the message
\* before, and a car it does not know ends the request there.
ProcessStatePayload(p, raceStart) ==
  /\ raceOrder' = [i \in DOMAIN p |-> p[i].car]
  /\ ProcessCarLaps(p, now + 1)
  /\ graph' = [g \in Graphs |-> IF g = "overall" THEN OverallGraph(p, now + 1) ELSE ClassGraph(p, g, now + 1)]
  /\ replay' = ReplayInfo(now + 1, raceStart)
  /\ marker' = (marker \/ (race /\ raceStart))
  /\ lap' = [c \in Cars |-> p[SelectInSeq(p, LAMBDA r : r.car = c)].lap]

\* The recorder goes on with another session of the event.
NewSession(r) ==
  /\ race' = r
  /\ start' = now + 1
  /\ lap' = [c \in Cars |-> 0]
=============================================================================
