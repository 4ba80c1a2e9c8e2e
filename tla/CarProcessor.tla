---------------------------- MODULE CarProcessor ----------------------------
(***************************************************************************)
(* The car processor of an event, processing/car/car_processor.go: it      *)
(* turns the driver data and the state messages of the recorder into       *)
(* stints, pit stops and seat times.  Both handlers run under the mutex of *)
(* the event, so a message is one step.                                    *)
(*                                                                         *)
(* Every message has a moment of its own.  The code writes session times,  *)
(* which begin at 0 in every session; the model writes moments, which tell *)
(* the sessions apart, and uses the session time, moment - start, where    *)
(* the code computes with it.  Laps are left out, but for lap < 1.         *)
(***************************************************************************)
EXTENDS Integers, Sequences

CONSTANTS
  Cars,          \* car numbers; the index of a car stands for its number
  Drivers,       \* names of drivers
  OutThreshold,  \* how long a car is missing before it is taken for out
  MaxTime        \* bound on the number of messages

ASSUME TimeAssumption == OutThreshold \in Nat /\ MaxTime \in Nat

VARIABLES
  known,    \* cars of which driver data came: NumByIdx, ByCarIdx, ComputeState
  car,      \* per car: ComputeState, StintLookup and PitLookup
  seats,    \* CarOccupancyLookup: per car and driver the seat times
  drivers,  \* CurrentDrivers, Nobody for a car that is not known
  race,     \* the session is one of raceSessions
  start,    \* the moment at which the session time was 0
  now,      \* the moment of the last message
  result,   \* how the last request ended
  hist      \* history: what the messages said, see HistType

vars == <<known, car, seats, drivers, race, start, now, result, hist>>

Nobody == ""

(* What a state message says of a car; INACTIVE stands for a lap < 1.      *)
Reports == {"INACTIVE", "INIT", "RUN", "PIT", "OUT", "FIN"}

\* A stint or a stop.  NoSpan is what "reset current" leaves behind.
NoSpan == [from |-> 0, to |-> 0, current |-> FALSE]
Started(t) == [from |-> t, to |-> 0, current |-> TRUE]

NewCar ==
  [at |-> "INIT", out |-> 0,
   hasStint |-> FALSE, stint |-> NoSpan, stints |-> <<>>,
   hasPit |-> FALSE, stop |-> NoSpan, stops |-> <<>>]

NewHist ==
  [stints |-> 0, stops |-> 0, lost |-> 0, outSince |-> 0,
   returned |-> FALSE, raced |-> FALSE]

Init ==
  /\ known = {}
  /\ car = [c \in Cars |-> NewCar]
  /\ seats = [c \in Cars |-> [d \in Drivers |-> <<>>]]
  /\ drivers = [c \in Cars |-> Nobody]
  /\ race \in BOOLEAN
  /\ start = 1 /\ now = 0
  /\ result = "ok"
  /\ hist = [c \in Cars |-> NewHist]

-----------------------------------------------------------------------------
(* Seat times.                                                             *)

Enter(times, t) == Append(times, [enter |-> t, leave |-> t])
Leave(times, t) == [times EXCEPT ![Len(times)].leave = t]
Occupied(occ) == \E d \in Drivers : occ[d] # <<>>

\* Mutant of UpdateCarInfo: a driver who comes back gets no new seat time.
UpdateCarInfoOnce(occ, prev, d, t) ==
  [e \in Drivers |->
     IF e = d THEN (IF occ[d] # <<>> THEN Leave(occ[d], t) ELSE Enter(occ[d], t))
     ELSE IF e = prev /\ occ[e] # <<>> THEN Leave(occ[e], t)
     ELSE occ[e]]

\* prev is the driver the car had so far.  A driver who keeps the car gets his
\* seat time extended, any other one a new one, and prev leaves.
UpdateCarInfo(occ, prev, d, t) ==
  [e \in Drivers |->
     IF e = d THEN (IF prev = d /\ occ[d] # <<>> THEN Leave(occ[d], t)
                                                 ELSE Enter(occ[d], t))
     ELSE IF e = prev /\ occ[e] # <<>> THEN Leave(occ[e], t)
     ELSE occ[e]]

EnsureCarOccupancy(occ, d, t) ==
  IF Occupied(occ) THEN occ ELSE [occ EXCEPT ![d] = Enter(@, t)]

MarkSeatTime(occ, d, t) ==
  IF occ[d] # <<>> THEN [occ EXCEPT ![d] = Leave(@, t)] ELSE occ

\* The handlers that call markSeatTime.
Marks(c, m) ==
  \/ c.at = "INIT" /\ m = "RUN"
  \/ c.at \in {"RUN", "PIT"} /\ m # "INACTIVE"

-----------------------------------------------------------------------------
(* The states of a car.  t is the moment and s the session time.           *)

BeginStint(c, t) == [c EXCEPT !.at = "RUN", !.stint = Started(t)]
BeginStop(c, t) == [c EXCEPT !.at = "PIT", !.hasPit = TRUE, !.stop = Started(t)]
EndStint(c) == [c EXCEPT !.stints = Append(@, c.stint), !.stint = NoSpan]
EndStop(c) ==
  [c EXCEPT !.stops = Append(@, [c.stop EXCEPT !.current = FALSE]), !.stop = NoSpan]

\* Mutant of MissingLongEnough: the time at which the car went missing is not
\* looked at.
MissingTwice(c, s) == c.out # 0

\* A session time of 0 is not told from "not missing".
MissingLongEnough(c, s) == c.out # 0 /\ s - c.out > OutThreshold

Missing(c, s) == [c EXCEPT !.out = IF @ = 0 THEN s ELSE @]

\* Mutant of HandleInit: the first message may find the car in the pits.
HandleInitPit(c, m, t) ==
  CASE m = "RUN" -> [BeginStint(c, t) EXCEPT !.hasStint = TRUE, !.stints = <<>>]
    [] m = "PIT" -> BeginStop(c, t)
    [] OTHER     -> c

HandleInit(c, m, t) ==
  IF m = "RUN" THEN [BeginStint(c, t) EXCEPT !.hasStint = TRUE, !.stints = <<>>] ELSE c

\* The stint is prolonged first, whatever the message says.
HandleRun(c0, m, t, s) ==
  LET c == [c0 EXCEPT !.stint.to = t]
  IN  CASE m = "RUN" -> [c EXCEPT !.out = 0]
        [] m = "FIN" -> [c EXCEPT !.at = "FIN"]
        [] m = "OUT" -> IF MissingLongEnough(c, s) THEN [EndStint(c) EXCEPT !.at = "OUT"]
                                                   ELSE Missing(c, s)
        [] m = "PIT" -> BeginStop(EndStint([c EXCEPT !.out = 0, !.stint.current = FALSE]), t)
        [] OTHER     -> c

\* Mutant of HandlePit: the finished stop is not added to the history.
HandlePitForget(c0, m, t, s) ==
  LET c == [c0 EXCEPT !.stop.to = t]
  IN  CASE m = "RUN" -> BeginStint([c EXCEPT !.out = 0], t)
        [] m = "OUT" -> IF MissingLongEnough(c, s) THEN [c EXCEPT !.at = "OUT"]
                                                   ELSE Missing(c, s)
        [] m = "PIT" -> [c EXCEPT !.out = 0]
        [] OTHER     -> c

\* A car that is out keeps its stop, which the next one replaces.
HandlePit(c0, m, t, s) ==
  LET c == [c0 EXCEPT !.stop.to = t]
  IN  CASE m = "RUN" -> BeginStint(EndStop([c EXCEPT !.out = 0]), t)
        [] m = "OUT" -> IF MissingLongEnough(c, s) THEN [c EXCEPT !.at = "OUT"]
                                                   ELSE Missing(c, s)
        [] m = "PIT" -> [c EXCEPT !.out = 0]
        [] OTHER     -> c

\* Mutant of HandleOut: the car goes on with the stint it had.
HandleOutResume(c, m, t) ==
  CASE m = "RUN" -> [c EXCEPT !.at = "RUN"]
    [] m = "PIT" -> BeginStop(c, t)
    [] OTHER     -> c

\* The time at which the car went missing stays.
HandleOut(c, m, t) ==
  CASE m = "RUN" -> BeginStint(c, t)
    [] m = "PIT" -> BeginStop(c, t)
    [] OTHER     -> c

HandleComputeState(c, m, t, s) ==
  CASE m = "INACTIVE" -> c
    [] m # "INACTIVE" /\ c.at = "INIT" -> HandleInit(c, m, t)
    [] m # "INACTIVE" /\ c.at = "RUN"  -> HandleRun(c, m, t, s)
    [] m # "INACTIVE" /\ c.at = "PIT"  -> HandlePit(c, m, t, s)
    [] m # "INACTIVE" /\ c.at = "OUT"  -> HandleOut(c, m, t)
    [] OTHER -> c

-----------------------------------------------------------------------------
(* History: the stints and stops begun, the stops that ended with the car  *)
(* out, the first OUT since the last RUN or PIT, whether that RUN or PIT   *)
(* found the car out, whether driver data came in a race.                  *)

Count(h, c, c1, m, t) ==
  [h EXCEPT
     !.stints = IF c1.at = "RUN" /\ c.at # "RUN" THEN @ + 1 ELSE @,
     !.stops = IF c1.at = "PIT" /\ c.at # "PIT" THEN @ + 1 ELSE @,
     !.lost = IF c1.at = "OUT" /\ c.at = "PIT" THEN @ + 1 ELSE @,
     !.outSince = IF m \in {"RUN", "PIT"} THEN 0
                  ELSE IF m = "OUT" /\ @ = 0 THEN t ELSE @,
     !.returned = IF m \in {"RUN", "PIT"} THEN c.at = "OUT" ELSE @]

-----------------------------------------------------------------------------
(* The messages.                                                           *)

\* The race sessions come last: practice, qualifying, one or more races.
NewSession ==
  /\ start # now + 1
  /\ race' \in {race, TRUE}
  /\ start' = now + 1
  /\ UNCHANGED <<known, car, seats, drivers, now, result, hist>>

\* Mutant of AssignDrivers: CurrentDrivers is left alone outside of a race.
AssignDriversInRace(current) ==
  drivers' = [c \in Cars |-> IF race /\ c \in DOMAIN current THEN current[c] ELSE drivers[c]]

\* CurrentDrivers is replaced as a whole.
AssignDrivers(current) ==
  drivers' = [c \in Cars |-> IF c \in DOMAIN current THEN current[c] ELSE Nobody]

\* Mutant of PreviousDriver: CurrentDrivers is assigned before it is read.
PreviousDriverNew(c, current) == current[c]

PreviousDriver(c, current) == drivers[c]

\* Driver data lists the cars of the session, each with its driver.  A car is
\* never taken from the list again (the recorder sends everyone who joined).
ProcessCarPayload(current) ==
  /\ now < MaxTime
  /\ known' = known \cup DOMAIN current
  /\ AssignDrivers(current)
  /\ seats' = [c \in Cars |->
       IF race /\ c \in DOMAIN current
       THEN UpdateCarInfo(seats[c], PreviousDriver(c, current), current[c], now + 1)
       ELSE seats[c]]
  /\ hist' = [c \in Cars |-> [hist[c] EXCEPT !.raced = @ \/ (race /\ c \in DOMAIN current)]]
  /\ now' = now + 1
  /\ result' = "ok"
  /\ UNCHANGED <<car, race, start>>

\* The car after a state message.
NextCar(c, m) == HandleComputeState(car[c], m, now + 1, (now + 1) - start)

NextSeats(c, m) ==
  LET occ == EnsureCarOccupancy(seats[c], drivers[c], now + 1)
  IN  IF Marks(car[c], m) THEN MarkSeatTime(occ, drivers[c], now + 1) ELSE occ

ProcessStatePayload(msg) ==
  /\ now < MaxTime
  /\ DOMAIN msg \subseteq known
  /\ car' = [c \in Cars |-> IF c \in DOMAIN msg THEN NextCar(c, msg[c]) ELSE car[c]]
  /\ seats' = [c \in Cars |-> IF c \in DOMAIN msg THEN NextSeats(c, msg[c]) ELSE seats[c]]
  /\ hist' = [c \in Cars |-> IF c \in DOMAIN msg
                             THEN Count(hist[c], car[c], NextCar(c, msg[c]), msg[c], now + 1)
                             ELSE hist[c]]
  /\ now' = now + 1
  /\ result' = "ok"
  /\ UNCHANGED <<known, drivers, race, start>>

\* A car of which no driver data came: ensureCarOccupancy dereferences its
\* missing entry, after it was done with the cars before it in the message.
\* The request ends there.
ProcessStatePanic(named) ==
  /\ now < MaxTime
  /\ ~ named \subseteq known
  /\ \E before \in SUBSET (named \cap known) :
       seats' = [c \in Cars |-> IF c \in before
                                THEN EnsureCarOccupancy(seats[c], drivers[c], now + 1)
                                ELSE seats[c]]
  /\ now' = now + 1
  /\ result' = "panic"
  /\ UNCHANGED <<known, car, drivers, race, start, hist>>

Next ==
  \/ NewSession
  \/ \E S \in SUBSET Cars :
       \/ known \subseteq S /\ \E current \in [S -> Drivers] : ProcessCarPayload(current)
       \/ \E msg \in [S -> Reports] : ProcessStatePayload(msg)
       \/ ProcessStatePanic(S)

Spec == Init /\ [][Next]_vars
-----------------------------------------------------------------------------
SpanType == [from : Nat, to : Nat, current : BOOLEAN]

CarType ==
  [at : {"INIT", "RUN", "PIT", "OUT", "FIN"}, out : Nat,
   hasStint : BOOLEAN, stint : SpanType, stints : Seq(SpanType),
   hasPit : BOOLEAN, stop : SpanType, stops : Seq(SpanType)]

SeatType == [enter : Nat, leave : Nat]

HistType ==
  [stints : Nat, stops : Nat, lost : Nat, outSince : Nat,
   returned : BOOLEAN, raced : BOOLEAN]

\* Type invariant.
TypeOK ==
  /\ known \subseteq Cars
  /\ car \in [Cars -> CarType]
  /\ seats \in [Cars -> [Drivers -> Seq(SeatType)]]
  /\ drivers \in [Cars -> Drivers \cup {Nobody}]
  /\ \A c \in known : drivers[c] \in Drivers
  /\ race \in BOOLEAN
  /\ now \in Nat /\ start \in 1 .. now + 1
  /\ result \in {"ok", "panic"}
  /\ hist \in [Cars -> HistType]

(***************************************************************************)
(* The handlers use the entries of StintLookup, PitLookup and              *)
(* CarOccupancyLookup without asking whether they exist; the state of the  *)
(* car has to guarantee it, whatever order the messages come in.           *)
(***************************************************************************)
EntriesExist ==
  \A c \in Cars :
    /\ car[c].at # "INIT" => car[c].hasStint /\ Occupied(seats[c])
    /\ car[c].at = "PIT" => car[c].hasPit

(***************************************************************************)
(* What a car is said to have done is possible: its finished stints and    *)
(* stops follow each other without overlap, and the stint or stop it is    *)
(* doing began after them.                                                 *)
(***************************************************************************)
Disjoint(a, b) == a.to <= b.from \/ b.to <= a.from

InSequence(spans) ==
  /\ \A i \in DOMAIN spans : spans[i].from <= spans[i].to
  /\ \A i, j \in DOMAIN spans : i < j => spans[i].to <= spans[j].from

After(t, spans) == \A i \in DOMAIN spans : spans[i].to <= t

Ordered(c) ==
  /\ InSequence(c.stints) /\ InSequence(c.stops)
  /\ \A i \in DOMAIN c.stints, j \in DOMAIN c.stops : Disjoint(c.stints[i], c.stops[j])
  /\ c.at = "RUN" => After(c.stint.from, c.stints) /\ After(c.stint.from, c.stops)
  /\ c.at = "PIT" => After(c.stop.from, c.stints) /\ After(c.stop.from, c.stops)

SpansOrdered == \A c \in Cars : Ordered(car[c])

(***************************************************************************)
(* No stint is lost: each one that began is in the history or current (a   *)
(* car that has finished keeps its last one).  No stop is lost but those   *)
(* during which the car was taken for out.                                 *)
(***************************************************************************)
Kept(c, h) ==
  /\ IF c.at \in {"RUN", "FIN"} THEN h.stints = Len(c.stints) + 1
                                ELSE h.stints = Len(c.stints)
  /\ IF c.at = "PIT" THEN h.stops = Len(c.stops) + h.lost + 1
                     ELSE h.stops = Len(c.stops) + h.lost

NothingForgotten == \A c \in Cars : Kept(car[c], hist[c])

(***************************************************************************)
(* A car is taken for out only after it was missing for longer than        *)
(* OutThreshold, over the boundaries of sessions too.  The exception is a  *)
(* car that has just come back from being out: its old time is still there *)
(* until the next RUN or PIT.                                              *)
(***************************************************************************)
OutConfirmed ==
  [][\A c \in Cars :
       (car'[c].at = "OUT" /\ car[c].at # "OUT" /\ ~hist[c].returned)
         => hist[c].outSince # 0 /\ now' - hist[c].outSince > OutThreshold]_vars

(***************************************************************************)
(* The seat times of a car do not overlap: two drivers never have it at    *)
(* the same time, and no driver has it twice.                              *)
(***************************************************************************)
Apart(a, b) == a.leave <= b.enter \/ b.leave <= a.enter

OneAtATime(occ) ==
  \A d, e \in Drivers : \A i \in DOMAIN occ[d], j \in DOMAIN occ[e] :
    d # e \/ i # j => Apart(occ[d][i], occ[e][j])

OneDriverAtATime == \A c \in Cars : OneAtATime(seats[c])

(***************************************************************************)
(* Once driver data of a race came, the driver of a car has its latest     *)
(* seat time: all others ended before he entered.                          *)
(***************************************************************************)
Seated(occ, d) ==
  /\ occ[d] # <<>>
  /\ \A e \in Drivers : \A i \in DOMAIN occ[e] :
       (e = d /\ i = Len(occ[d])) \/ occ[e][i].leave <= occ[d][Len(occ[d])].enter

CurrentDriverSeated ==
  \A c \in Cars : race /\ hist[c].raced => Seated(seats[c], drivers[c])

(***************************************************************************)
(* The inductive invariant behind these: what is in the histories lies in  *)
(* the past; a car that is missing (out # 0) was reported missing at or    *)
(* before the moment it is missing from; before driver data of a race came *)
(* there is at most one seat time.                                         *)
(***************************************************************************)
InThePast(c, t) ==
  /\ After(t, c.stints) /\ After(t, c.stops)
  /\ c.at = "RUN" => c.stint.from <= t
  /\ c.at = "PIT" => c.stop.from <= t
  /\ c.at = "INIT" => c.stints = <<>>

MissingSince(c, h, st, t) ==
  /\ c.at = "INIT" => c.out = 0
  /\ h.outSince <= t
  /\ (c.at \in {"RUN", "PIT"} /\ c.out # 0 /\ ~h.returned)
       => h.outSince # 0 /\ h.outSince <= st + c.out

SeatsInThePast(occ, t) ==
  \A d \in Drivers : \A i \in DOMAIN occ[d] :
    occ[d][i].enter <= occ[d][i].leave /\ occ[d][i].leave <= t

OneSeatTime(occ) ==
  \A d, e \in Drivers : \A i \in DOMAIN occ[d], j \in DOMAIN occ[e] : d = e /\ i = j

SeatState(c) ==
  /\ OneAtATime(seats[c])
  /\ SeatsInThePast(seats[c], now)
  /\ IF hist[c].raced THEN race /\ c \in known /\ Seated(seats[c], drivers[c])
                      ELSE OneSeatTime(seats[c])

IInv ==
  /\ TypeOK /\ EntriesExist
  /\ \A c \in Cars : /\ Ordered(car[c]) /\ InThePast(car[c], now)
                     /\ Kept(car[c], hist[c])
                     /\ MissingSince(car[c], hist[c], start, now)
                     /\ SeatState(c)
=============================================================================
