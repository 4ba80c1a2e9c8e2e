------------------------- MODULE CarProcessorProofs -------------------------
(***************************************************************************)
(* Proofs about CarProcessor, for any number of cars, drivers and          *)
(* messages.  A message changes each car on its own, so the work is done   *)
(* by lemmas about one car: Transition says how a report may change it,    *)
(* and the lemmas after it that such a change preserves each part of the   *)
(* invariant.                                                              *)
(***************************************************************************)
EXTENDS CarProcessor, TLAPS

USE TimeAssumption

(* How a report received at t changes a car.                               *)

SameHistory(c, n) == n.stints = c.stints /\ n.stops = c.stops

Goes(c, n) ==
  /\ SameHistory(c, n)
  /\ n.at = c.at
  /\ n.stint.from = c.stint.from /\ n.stop.from = c.stop.from

Ends(c, n) ==
  /\ SameHistory(c, n)
  /\ (c.at = "RUN" /\ n.at = "FIN") \/ (c.at = "PIT" /\ n.at = "OUT")

StartsStint(c, n, t) ==
  /\ c.at \in {"INIT", "OUT"} /\ n.at = "RUN"
  /\ n.stops = c.stops /\ n.stints = (IF c.at = "INIT" THEN <<>> ELSE c.stints)
  /\ n.stint.from = t

StartsStop(c, n, t) ==
  /\ c.at = "OUT" /\ n.at = "PIT"
  /\ SameHistory(c, n)
  /\ n.stop.from = t

EndsStint(c, n, t) ==
  /\ c.at = "RUN" /\ n.at \in {"OUT", "PIT"}
  /\ \E x \in SpanType : /\ x.from = c.stint.from /\ x.to = t
                         /\ n.stints = Append(c.stints, x)
  /\ n.stops = c.stops
  /\ n.at = "PIT" => n.stop.from = t

EndsStop(c, n, t) ==
  /\ c.at = "PIT" /\ n.at = "RUN"
  /\ \E x \in SpanType : /\ x.from = c.stop.from /\ x.to = t
                         /\ n.stops = Append(c.stops, x)
  /\ n.stints = c.stints
  /\ n.stint.from = t

Changes(c, n, t) ==
  \/ Goes(c, n)
  \/ Ends(c, n)
  \/ StartsStint(c, n, t)
  \/ StartsStop(c, n, t)
  \/ EndsStint(c, n, t)
  \/ EndsStop(c, n, t)

-----------------------------------------------------------------------------
\* Appending a stint, a stop or a seat time to the ones so far.
LEMMA AppendFacts ==
  ASSUME NEW T, NEW s \in Seq(T), NEW x \in T
  PROVE  /\ Append(s, x) \in Seq(T)
         /\ Len(s) \in Nat /\ Len(Append(s, x)) = Len(s) + 1
         /\ DOMAIN s = 1 .. Len(s)
         /\ DOMAIN Append(s, x) = 1 .. Len(s) + 1
         /\ Append(s, x)[Len(s) + 1] = x
         /\ \A i \in 1 .. Len(s) : Append(s, x)[i] = s[i]
OBVIOUS

\* The helpers yield cars.
LEMMA HelperTypes ==
  ASSUME NEW c \in CarType, NEW t \in Nat, NEW s \in Nat
  PROVE  /\ [c EXCEPT !.stint.to = t] \in CarType
         /\ [c EXCEPT !.stop.to = t] \in CarType
         /\ [c EXCEPT !.out = 0] \in CarType
         /\ Missing(c, s) \in CarType
         /\ BeginStint(c, t) \in CarType
         /\ BeginStop(c, t) \in CarType
         /\ EndStint(c) \in CarType
         /\ EndStop(c) \in CarType
<1>1. /\ [c EXCEPT !.stint.to = t] \in CarType
      /\ [c EXCEPT !.stop.to = t] \in CarType
      /\ [c EXCEPT !.out = 0] \in CarType
      /\ Missing(c, s) \in CarType
  BY DEF CarType, SpanType, Missing
<1>2. BeginStint(c, t) \in CarType /\ BeginStop(c, t) \in CarType
  BY DEF CarType, SpanType, BeginStint, BeginStop, Started
<1>3. c.stint \in SpanType /\ c.stop \in SpanType
      /\ c.stints \in Seq(SpanType) /\ c.stops \in Seq(SpanType)
  BY DEF CarType
<1>4. NoSpan \in SpanType
  BY DEF NoSpan, SpanType
<1>5. [c.stop EXCEPT !.current = FALSE] \in SpanType
  BY <1>3 DEF SpanType
<1>6. /\ Append(c.stints, c.stint) \in Seq(SpanType)
      /\ Append(c.stops, [c.stop EXCEPT !.current = FALSE]) \in Seq(SpanType)
  BY <1>3, <1>5, AppendFacts
<1>7. EndStint(c) \in CarType /\ EndStop(c) \in CarType
  BY <1>4, <1>6 DEF CarType, EndStint, EndStop
<1> QED
  BY <1>1, <1>2, <1>7

\* A report yields a car.
LEMMA ReportType ==
  ASSUME NEW c \in CarType, NEW m \in Reports, NEW t \in Nat, NEW s \in Nat
  PROVE  HandleComputeState(c, m, t, s) \in CarType
<1>1. HandleInit(c, m, t) \in CarType /\ HandleOut(c, m, t) \in CarType
  <2>1. \A r \in CarType : [r EXCEPT !.hasStint = TRUE, !.stints = <<>>] \in CarType
    <3>1. <<>> \in Seq(SpanType)
      OBVIOUS
    <3> QED
      BY <3>1 DEF CarType
  <2> QED
    BY <2>1, HelperTypes DEF HandleInit, HandleOut
<1>2. HandleRun(c, m, t, s) \in CarType
  <2> DEFINE c1 == [c EXCEPT !.stint.to = t]
             c2 == [c1 EXCEPT !.out = 0, !.stint.current = FALSE]
  <2>1. c1 \in CarType
    BY HelperTypes
  <2>2. c2 \in CarType
    BY <2>1 DEF CarType, SpanType
  <2>3. \A r \in CarType : [r EXCEPT !.at = "FIN"] \in CarType /\ [r EXCEPT !.at = "OUT"] \in CarType
    BY DEF CarType
  <2> HIDE DEF c1, c2
  <2>4. [EndStint(c1) EXCEPT !.at = "OUT"] \in CarType /\ BeginStop(EndStint(c2), t) \in CarType
    BY <2>1, <2>2, <2>3, HelperTypes
  <2>5. [c1 EXCEPT !.out = 0] \in CarType /\ [c1 EXCEPT !.at = "FIN"] \in CarType /\ Missing(c1, s) \in CarType
    BY <2>1, <2>3, HelperTypes
  <2> QED
    BY <2>1, <2>4, <2>5 DEF HandleRun, c1, c2
<1>3. HandlePit(c, m, t, s) \in CarType
  <2> DEFINE c1 == [c EXCEPT !.stop.to = t]
             c2 == [c1 EXCEPT !.out = 0]
  <2>1. c1 \in CarType /\ c2 \in CarType
    BY HelperTypes
  <2>2. \A r \in CarType : [r EXCEPT !.at = "OUT"] \in CarType
    BY DEF CarType
  <2> HIDE DEF c1, c2
  <2>3. /\ BeginStint(EndStop(c2), t) \in CarType
        /\ [c1 EXCEPT !.at = "OUT"] \in CarType /\ Missing(c1, s) \in CarType
    BY <2>1, <2>2, HelperTypes
  <2> QED
    BY <2>1, <2>3 DEF HandlePit, c1, c2
<1> QED
  BY <1>1, <1>2, <1>3 DEF HandleComputeState

\* A report changes a car in one of these ways only.
LEMMA Transition ==
  ASSUME NEW c \in CarType, NEW m \in Reports, NEW t \in Nat, NEW s \in Nat
  PROVE  Changes(c, HandleComputeState(c, m, t, s), t)
<1> DEFINE n == HandleComputeState(c, m, t, s)
<1>1. CASE m = "INACTIVE" \/ c.at = "FIN"
  <2>1. n = c
    BY <1>1 DEF HandleComputeState
  <2> QED
    BY <2>1 DEF Changes, Goes, SameHistory
<1>2. CASE m # "INACTIVE" /\ c.at = "INIT"
  <2>1. n = HandleInit(c, m, t)
    BY <1>2 DEF HandleComputeState
  <2>2. Goes(c, n) \/ StartsStint(c, n, t)
    BY <1>2, <2>1 DEF HandleInit, BeginStint, Started, CarType, Goes, StartsStint, SameHistory
  <2> QED
    BY <2>2 DEF Changes
<1>3. CASE m # "INACTIVE" /\ c.at = "RUN"
  <2> DEFINE x == [c.stint EXCEPT !.to = t]
             y == [c.stint EXCEPT !.to = t, !.current = FALSE]
  <2>1. n = HandleRun(c, m, t, s)
    BY <1>3 DEF HandleComputeState
  <2>2. x \in SpanType /\ x.from = c.stint.from /\ x.to = t
        /\ y \in SpanType /\ y.from = c.stint.from /\ y.to = t
    BY DEF CarType, SpanType
  <2>3. CASE m = "PIT"
    <3> DEFINE e == EndStint([[c EXCEPT !.stint.to = t] EXCEPT !.out = 0, !.stint.current = FALSE])
    <3>1. n.at = "PIT" /\ n.stops = c.stops /\ n.stop.from = t
      <4>1. n = BeginStop(e, t)
        BY <2>1, <2>3 DEF HandleRun
      <4>2. [[c EXCEPT !.stint.to = t] EXCEPT !.out = 0, !.stint.current = FALSE] \in CarType
        BY DEF CarType, SpanType
      <4>3. e \in CarType
        BY <4>2, HelperTypes
      <4>4. e.stops = c.stops
        BY DEF EndStint, CarType, SpanType
      <4> HIDE DEF e, n
      <4> QED
        BY <4>1, <4>3, <4>4 DEF BeginStop, Started, CarType
    <3>2. n.stints = Append(c.stints, y)
      BY <1>3, <2>1, <2>3 DEF HandleRun, BeginStop, EndStint, CarType, SpanType
    <3> QED
      BY <1>3, <2>2, <3>1, <3>2 DEF EndsStint, Changes
  <2>4. CASE n.at = "OUT"
    <3>1. n.stints = Append(c.stints, x) /\ n.stops = c.stops
      BY <1>3, <2>1, <2>4 DEF HandleRun, BeginStop, EndStint, Missing, CarType, SpanType
    <3> QED
      BY <1>3, <2>2, <2>4, <3>1 DEF EndsStint, Changes
  <2>5. CASE m # "PIT" /\ n.at # "OUT"
    <3>1. SameHistory(c, n) /\ n.stint.from = c.stint.from /\ n.stop.from = c.stop.from
          /\ n.at \in {"RUN", "FIN"}
      BY <1>3, <2>1, <2>5 DEF HandleRun, EndStint, Missing, CarType, SpanType, SameHistory
    <3> HIDE DEF n
    <3>2. Goes(c, n) \/ Ends(c, n)
      BY <1>3, <3>1 DEF Goes, Ends, SameHistory
    <3> QED
      BY <3>2 DEF Changes, n
  <2> QED
    BY <2>3, <2>4, <2>5
<1>4. CASE m # "INACTIVE" /\ c.at = "PIT"
  <2> DEFINE x == [c.stop EXCEPT !.to = t, !.current = FALSE]
  <2>1. n = HandlePit(c, m, t, s)
    BY <1>4 DEF HandleComputeState
  <2>2. x \in SpanType /\ x.from = c.stop.from /\ x.to = t
    BY DEF CarType, SpanType
  <2>3. CASE m = "RUN"
    <3> DEFINE e == EndStop([[c EXCEPT !.stop.to = t] EXCEPT !.out = 0])
    <3>1. n.at = "RUN" /\ n.stints = c.stints /\ n.stint.from = t
      <4>1. n = BeginStint(e, t)
        BY <2>1, <2>3 DEF HandlePit
      <4>2. [[c EXCEPT !.stop.to = t] EXCEPT !.out = 0] \in CarType
        BY DEF CarType, SpanType
      <4>3. e \in CarType
        BY <4>2, HelperTypes
      <4>4. e.stints = c.stints
        BY DEF EndStop, CarType, SpanType
      <4> HIDE DEF e, n
      <4> QED
        BY <4>1, <4>3, <4>4 DEF BeginStint, Started, CarType
    <3>2. n.stops = Append(c.stops, x)
      BY <2>1, <2>3 DEF HandlePit, BeginStint, EndStop, CarType, SpanType
    <3> QED
      BY <1>4, <2>2, <3>1, <3>2 DEF EndsStop, Changes
  <2>4. CASE m # "RUN"
    <3>1. SameHistory(c, n) /\ n.stint.from = c.stint.from /\ n.stop.from = c.stop.from
          /\ n.at \in {"PIT", "OUT"}
      BY <1>4, <2>1, <2>4 DEF HandlePit, Missing, CarType, SpanType, SameHistory
    <3> QED
      BY <1>4, <3>1 DEF Goes, Ends, Changes
  <2> QED
    BY <2>3, <2>4
<1>5. CASE m # "INACTIVE" /\ c.at = "OUT"
  <2>1. n = HandleOut(c, m, t)
    BY <1>5 DEF HandleComputeState
  <2>2. Goes(c, n) \/ StartsStint(c, n, t) \/ StartsStop(c, n, t)
    BY <1>5, <2>1 DEF HandleOut, BeginStint, BeginStop, Started, CarType, Goes, StartsStint,
                      StartsStop, SameHistory
  <2> QED
    BY <2>2 DEF Changes
<1> QED
  BY <1>1, <1>2, <1>3, <1>4, <1>5 DEF CarType
-----------------------------------------------------------------------------
\* Adding a span that starts after the others and ends at t.
LEMMA AppendSpan ==
  ASSUME NEW spans \in Seq(SpanType), NEW x \in SpanType, NEW t \in Nat,
         InSequence(spans), After(x.from, spans), x.from <= t, x.to = t
  PROVE  InSequence(Append(spans, x)) /\ After(t, Append(spans, x))
<1> DEFINE new == Append(spans, x)
<1>1. /\ DOMAIN spans = 1 .. Len(spans) /\ DOMAIN new = 1 .. Len(spans) + 1
      /\ Len(spans) \in Nat
      /\ new[Len(spans) + 1] = x /\ \A i \in 1 .. Len(spans) : new[i] = spans[i]
  BY AppendFacts
<1>2. \A i \in 1 .. Len(spans) : spans[i] \in SpanType
  BY <1>1
<1> HIDE DEF new
<1>3. ASSUME NEW i \in DOMAIN new
      PROVE  new[i].from <= new[i].to /\ new[i].to <= t
  BY <1>1, <1>2 DEF InSequence, After, SpanType
<1>4. ASSUME NEW i \in DOMAIN new, NEW j \in DOMAIN new, i < j
      PROVE  new[i].to <= new[j].from
  <2>1. i \in 1 .. Len(spans)
    BY <1>1, <1>4
  <2>2. CASE j = Len(spans) + 1
    BY <1>1, <2>1, <2>2 DEF After
  <2>3. CASE j # Len(spans) + 1
    BY <1>1, <1>4, <2>1, <2>3 DEF InSequence
  <2> QED
    BY <2>2, <2>3
<1> QED
  BY <1>3, <1>4 DEF InSequence, After, new

\* It is disjoint from the spans of the other kind, which lie before it.
LEMMA AppendApart ==
  ASSUME NEW spans \in Seq(SpanType), NEW x \in SpanType, NEW others \in Seq(SpanType),
         \A i \in DOMAIN spans, j \in DOMAIN others : Disjoint(spans[i], others[j]),
         After(x.from, others)
  PROVE  \A i \in DOMAIN Append(spans, x), j \in DOMAIN others :
           Disjoint(Append(spans, x)[i], others[j])
<1> DEFINE new == Append(spans, x)
<1>1. /\ DOMAIN spans = 1 .. Len(spans) /\ DOMAIN new = 1 .. Len(spans) + 1
      /\ Len(spans) \in Nat
      /\ new[Len(spans) + 1] = x /\ \A i \in 1 .. Len(spans) : new[i] = spans[i]
  BY AppendFacts
<1> HIDE DEF new
<1>2. ASSUME NEW i \in DOMAIN new, NEW j \in DOMAIN others
      PROVE  Disjoint(new[i], others[j])
  <2>1. CASE i = Len(spans) + 1
    BY <1>1, <2>1 DEF After, Disjoint
  <2>2. CASE i # Len(spans) + 1
    <3>1. i \in DOMAIN spans
      BY <1>1, <2>2
    <3> QED
      BY <1>1, <3>1
  <2> QED
    BY <2>1, <2>2
<1> QED
  BY <1>2 DEF new

LEMMA AfterLater ==
  ASSUME NEW spans \in Seq(SpanType), NEW t \in Nat, NEW u \in Nat, t <= u, After(t, spans)
  PROVE  After(u, spans)
<1>1. \A i \in DOMAIN spans : spans[i] \in SpanType
  OBVIOUS
<1>2. \A x \in SpanType : x.to \in Nat
  BY DEF SpanType
<1> QED
  BY <1>1, <1>2 DEF After

\* A change at a later moment keeps the spans in order.
LEMMA ChangeKeepsOrder ==
  ASSUME NEW c \in CarType, NEW n \in CarType, NEW u \in Nat, NEW t \in Nat, u <= t,
         Ordered(c), InThePast(c, u), Changes(c, n, t)
  PROVE  Ordered(n) /\ InThePast(n, t)
<1>1. /\ c.stints \in Seq(SpanType) /\ c.stops \in Seq(SpanType)
      /\ c.stint.from \in Nat /\ c.stop.from \in Nat /\ n.stint.from \in Nat /\ n.stop.from \in Nat
  BY DEF CarType, SpanType
<1>2. /\ After(u, c.stints) /\ After(u, c.stops)
      /\ After(t, c.stints) /\ After(t, c.stops)
  BY <1>1, AfterLater DEF InThePast
<1>3. CASE Goes(c, n)
  BY <1>1, <1>2, <1>3 DEF Goes, SameHistory, Ordered, InThePast
<1>4. CASE Ends(c, n)
  BY <1>2, <1>4 DEF Ends, SameHistory, Ordered, InThePast
<1>5. CASE StartsStint(c, n, t)
  <2>1. n.stints = c.stints
    BY <1>5 DEF StartsStint, InThePast
  <2> QED
    BY <1>1, <1>2, <1>5, <2>1 DEF StartsStint, Ordered, InThePast
<1>6. CASE StartsStop(c, n, t)
  BY <1>1, <1>2, <1>6 DEF StartsStop, SameHistory, Ordered, InThePast
<1>7. CASE EndsStint(c, n, t)
  <2>1. PICK x \in SpanType : x.from = c.stint.from /\ x.to = t /\ n.stints = Append(c.stints, x)
    BY <1>7 DEF EndsStint
  <2>2. /\ c.at = "RUN" /\ n.at \in {"OUT", "PIT"} /\ n.stops = c.stops
        /\ n.at = "PIT" => n.stop.from = t
    BY <1>7 DEF EndsStint
  <2>3. /\ InSequence(c.stints) /\ InSequence(c.stops)
        /\ \A i \in DOMAIN c.stints, j \in DOMAIN c.stops : Disjoint(c.stints[i], c.stops[j])
        /\ After(x.from, c.stints) /\ After(x.from, c.stops) /\ x.from <= t
    BY <1>1, <2>1, <2>2 DEF Ordered, InThePast
  <2>4. InSequence(n.stints) /\ After(t, n.stints)
    BY <1>1, <2>1, <2>3, AppendSpan
  <2>5. \A i \in DOMAIN n.stints, j \in DOMAIN n.stops : Disjoint(n.stints[i], n.stops[j])
    BY <1>1, <2>1, <2>2, <2>3, AppendApart
  <2> QED
    BY <1>1, <1>2, <2>2, <2>3, <2>4, <2>5 DEF Ordered, InThePast
<1>8. CASE EndsStop(c, n, t)
  <2>1. PICK x \in SpanType : x.from = c.stop.from /\ x.to = t /\ n.stops = Append(c.stops, x)
    BY <1>8 DEF EndsStop
  <2>2. c.at = "PIT" /\ n.at = "RUN" /\ n.stints = c.stints /\ n.stint.from = t
    BY <1>8 DEF EndsStop
  <2>3. /\ InSequence(c.stints) /\ InSequence(c.stops)
        /\ After(x.from, c.stints) /\ After(x.from, c.stops) /\ x.from <= t
    BY <1>1, <2>1, <2>2 DEF Ordered, InThePast
  <2>7. \A i \in DOMAIN c.stops, j \in DOMAIN c.stints : Disjoint(c.stops[i], c.stints[j])
    BY DEF Ordered, Disjoint
  <2>4. InSequence(n.stops) /\ After(t, n.stops)
    BY <1>1, <2>1, <2>3, AppendSpan
  <2>5. \A i \in DOMAIN n.stops, j \in DOMAIN n.stints : Disjoint(n.stops[i], n.stints[j])
    BY <1>1, <2>1, <2>2, <2>3, <2>7, AppendApart
  <2>6. \A i \in DOMAIN n.stints, j \in DOMAIN n.stops : Disjoint(n.stints[i], n.stops[j])
    BY <2>5 DEF Disjoint
  <2> QED
    BY <1>1, <1>2, <2>2, <2>3, <2>4, <2>6 DEF Ordered, InThePast
<1> QED
  BY <1>3, <1>4, <1>5, <1>6, <1>7, <1>8 DEF Changes

\* The history counts what a change begins.
LEMMA ChangeKeepsAll ==
  ASSUME NEW c \in CarType, NEW n \in CarType, NEW h \in HistType, NEW t \in Nat,
         NEW m \in Reports,
         Kept(c, h), c.at = "INIT" => c.stints = <<>>, Changes(c, n, t)
  PROVE  Count(h, c, n, m, t) \in HistType /\ Kept(n, Count(h, c, n, m, t))
<1> DEFINE g == Count(h, c, n, m, t)
           stints == IF n.at = "RUN" /\ c.at # "RUN" THEN h.stints + 1 ELSE h.stints
           stops == IF n.at = "PIT" /\ c.at # "PIT" THEN h.stops + 1 ELSE h.stops
           lost == IF n.at = "OUT" /\ c.at = "PIT" THEN h.lost + 1 ELSE h.lost
           since == IF m \in {"RUN", "PIT"} THEN 0
                    ELSE IF m = "OUT" /\ h.outSince = 0 THEN t ELSE h.outSince
           back == IF m \in {"RUN", "PIT"} THEN c.at = "OUT" ELSE h.returned
<1>1. /\ c.stints \in Seq(SpanType) /\ c.stops \in Seq(SpanType)
      /\ Len(c.stints) \in Nat /\ Len(c.stops) \in Nat
      /\ h.stints \in Nat /\ h.stops \in Nat /\ h.lost \in Nat
      /\ h.outSince \in Nat /\ h.returned \in BOOLEAN
  BY DEF CarType, HistType
<1>2. g = [h EXCEPT !.stints = stints, !.stops = stops, !.lost = lost,
                    !.outSince = since, !.returned = back]
  BY Zenon DEF Count
<1>3. stints \in Nat /\ stops \in Nat /\ lost \in Nat /\ since \in Nat
  BY <1>1
<1>4. back \in BOOLEAN
  BY <1>1, Zenon
<1>5. /\ stints = h.stints + (IF n.at = "RUN" /\ c.at # "RUN" THEN 1 ELSE 0)
      /\ stops = h.stops + (IF n.at = "PIT" /\ c.at # "PIT" THEN 1 ELSE 0)
      /\ lost = h.lost + (IF n.at = "OUT" /\ c.at = "PIT" THEN 1 ELSE 0)
  BY <1>1
<1> HIDE DEF g, stints, stops, lost, since, back
<1>6. /\ g \in HistType /\ g.stints = stints /\ g.stops = stops /\ g.lost = lost
  BY <1>2, <1>3, <1>4 DEF HistType
<1>7. /\ g.stints = h.stints + (IF n.at = "RUN" /\ c.at # "RUN" THEN 1 ELSE 0)
      /\ g.stops = h.stops + (IF n.at = "PIT" /\ c.at # "PIT" THEN 1 ELSE 0)
      /\ g.lost = h.lost + (IF n.at = "OUT" /\ c.at = "PIT" THEN 1 ELSE 0)
  BY <1>5, <1>6
<1> SUFFICES Kept(n, g)
  BY <1>6 DEF g
<1>8. CASE Goes(c, n)
  <2>1. Len(n.stints) = Len(c.stints) /\ Len(n.stops) = Len(c.stops) /\ n.at = c.at
    BY <1>8 DEF Goes, SameHistory
  <2>2. g.stints = h.stints /\ g.stops = h.stops /\ g.lost = h.lost
    BY <1>1, <1>7, <2>1
  <2> QED
    BY <2>1, <2>2 DEF Kept
<1>9. CASE Ends(c, n)
  <2>1. Len(n.stints) = Len(c.stints) /\ Len(n.stops) = Len(c.stops)
    BY <1>9 DEF Ends, SameHistory
  <2>2. CASE c.at = "RUN" /\ n.at = "FIN"
    <3>1. g.stints = h.stints /\ g.stops = h.stops /\ g.lost = h.lost
      BY <1>1, <1>7, <2>2
    <3> QED
      BY <2>1, <2>2, <3>1 DEF Kept
  <2>3. CASE c.at = "PIT" /\ n.at = "OUT"
    <3>1. g.stints = h.stints /\ g.stops = h.stops /\ g.lost = h.lost + 1
      BY <1>1, <1>7, <2>3
    <3>2. h.stints = Len(c.stints) /\ h.stops = Len(c.stops) + h.lost + 1
      BY <2>3 DEF Kept
    <3>3. \A i, j \in Nat : i + j + 1 = i + (j + 1)
      OBVIOUS
    <3>4. h.stops = Len(c.stops) + (h.lost + 1)
      BY <1>1, <3>2, <3>3
    <3>5. g.stints = Len(n.stints) /\ g.stops = Len(n.stops) + g.lost
      BY <2>1, <3>1, <3>2, <3>4, Zenon
    <3> QED
      BY <2>3, <3>5 DEF Kept
  <2> QED
    BY <1>9, <2>2, <2>3 DEF Ends
<1>10. CASE StartsStint(c, n, t)
  <2>1. /\ Len(n.stints) = Len(c.stints) /\ Len(n.stops) = Len(c.stops)
        /\ c.at \in {"INIT", "OUT"} /\ n.at = "RUN"
    BY <1>1, <1>10, AppendFacts DEF StartsStint
  <2>2. g.stints = h.stints + 1 /\ g.stops = h.stops /\ g.lost = h.lost
    BY <1>1, <1>7, <2>1
  <2> QED
    BY <1>1, <2>1, <2>2 DEF Kept
<1>11. CASE StartsStop(c, n, t)
  <2>1. /\ Len(n.stints) = Len(c.stints) /\ Len(n.stops) = Len(c.stops)
        /\ c.at = "OUT" /\ n.at = "PIT"
    BY <1>1, <1>11, AppendFacts DEF StartsStop, SameHistory
  <2>2. g.stints = h.stints /\ g.stops = h.stops + 1 /\ g.lost = h.lost
    BY <1>1, <1>7, <2>1
  <2> QED
    BY <1>1, <2>1, <2>2 DEF Kept
<1>12. CASE EndsStint(c, n, t)
  <2>1. Len(n.stints) = Len(c.stints) + 1 /\ n.stops = c.stops
        /\ c.at = "RUN" /\ n.at \in {"OUT", "PIT"}
    BY <1>1, <1>12, AppendFacts DEF EndsStint
  <2>2. /\ g.stints = h.stints /\ g.lost = h.lost
        /\ g.stops = (IF n.at = "PIT" THEN h.stops + 1 ELSE h.stops)
    BY <1>1, <1>7, <2>1
  <2> QED
    BY <1>1, <2>1, <2>2 DEF Kept
<1>13. CASE EndsStop(c, n, t)
  <2>1. Len(n.stops) = Len(c.stops) + 1 /\ n.stints = c.stints /\ c.at = "PIT" /\ n.at = "RUN"
    BY <1>1, <1>13, AppendFacts DEF EndsStop
  <2>2. g.stints = h.stints + 1 /\ g.stops = h.stops /\ g.lost = h.lost
    BY <1>1, <1>7, <2>1
  <2> QED
    BY <1>1, <2>1, <2>2 DEF Kept
<1> QED
  BY <1>8, <1>9, <1>10, <1>11, <1>12, <1>13 DEF Changes
-----------------------------------------------------------------------------
\* What a report does to the time at which a car went missing.
LEMMA OutField ==
  ASSUME NEW c \in CarType, NEW m \in Reports, NEW t \in Nat, NEW s \in Nat
  PROVE  LET n == HandleComputeState(c, m, t, s)
         IN  /\ c.at \in {"RUN", "PIT"} /\ m \in {"RUN", "PIT"} => n.out = 0
             /\ c.at \notin {"RUN", "PIT"} => n.out = c.out
             /\ c.at \in {"RUN", "PIT"} /\ m \notin {"RUN", "PIT"}
                  => n.out = c.out \/ (m = "OUT" /\ c.out = 0 /\ n.out = s)
             /\ n.at = "INIT" => c.at = "INIT"
             /\ c.at = "INIT" /\ n.at # "INIT" => m = "RUN"
             /\ c.at = "OUT" /\ n.at \in {"RUN", "PIT"} => m \in {"RUN", "PIT"}
             /\ c.at = "FIN" => n.at = "FIN"
             /\ n.at = "OUT" /\ c.at # "OUT"
                  => /\ c.at \in {"RUN", "PIT"} /\ m = "OUT"
                     /\ c.out # 0 /\ s - c.out > OutThreshold
<1> DEFINE n == HandleComputeState(c, m, t, s)
<1>1. CASE m = "INACTIVE" \/ c.at = "FIN"
  <2>1. n = c
    BY <1>1 DEF HandleComputeState
  <2> QED
    BY <1>1, <2>1
<1>2. CASE m # "INACTIVE" /\ c.at = "INIT"
  <2>1. n = HandleInit(c, m, t)
    BY <1>2 DEF HandleComputeState
  <2>2. n.out = c.out /\ n.at \in {"INIT", "RUN"} /\ (n.at = "RUN" => m = "RUN")
    BY <1>2, <2>1 DEF HandleInit, BeginStint, CarType
  <2> QED
    BY <1>2, <2>2
<1>3. CASE m # "INACTIVE" /\ c.at = "RUN"
  <2> DEFINE c1 == [c EXCEPT !.stint.to = t]
  <2>1. n = HandleRun(c, m, t, s)
    BY <1>3 DEF HandleComputeState
  <2>2. c1 \in CarType /\ c1.out = c.out /\ c1.at = "RUN"
    BY <1>3, HelperTypes DEF CarType
  <2>3. MissingLongEnough(c1, s) <=> (c.out # 0 /\ s - c.out > OutThreshold)
    BY <2>2 DEF MissingLongEnough
  <2>4. CASE m \in {"RUN", "PIT"}
    <3>1. n.out = 0 /\ n.at \in {"RUN", "PIT"}
      BY <1>3, <2>1, <2>4 DEF HandleRun, BeginStop, EndStint, CarType
    <3> QED
      BY <1>3, <2>4, <3>1
  <2>5. CASE m = "OUT"
    <3>1. n = IF MissingLongEnough(c1, s) THEN [EndStint(c1) EXCEPT !.at = "OUT"]
                                          ELSE Missing(c1, s)
      BY <2>1, <2>5 DEF HandleRun
    <3> HIDE DEF c1, n
    <3>2. EndStint(c1) \in CarType /\ EndStint(c1).out = c1.out
      BY <2>2, HelperTypes DEF EndStint, CarType
    <3>3. MissingLongEnough(c1, s) => n.at = "OUT" /\ n.out = c.out
      BY <2>2, <3>1, <3>2 DEF CarType
    <3>4. ~MissingLongEnough(c1, s)
            => n.at = "RUN" /\ n.out = (IF c.out = 0 THEN s ELSE c.out)
      BY <2>2, <3>1 DEF Missing, CarType
    <3> QED
      BY <1>3, <2>3, <2>5, <3>3, <3>4 DEF n
  <2>6. CASE m \notin {"RUN", "PIT", "OUT"}
    <3>1. n.out = c.out /\ n.at \in {"RUN", "FIN"}
      BY <1>3, <2>1, <2>6 DEF HandleRun, CarType
    <3> QED
      BY <1>3, <2>6, <3>1
  <2> QED
    BY <2>4, <2>5, <2>6
<1>4. CASE m # "INACTIVE" /\ c.at = "PIT"
  <2> DEFINE c1 == [c EXCEPT !.stop.to = t]
  <2>1. n = HandlePit(c, m, t, s)
    BY <1>4 DEF HandleComputeState
  <2>2. c1 \in CarType /\ c1.out = c.out /\ c1.at = "PIT"
    BY <1>4, HelperTypes DEF CarType
  <2>3. MissingLongEnough(c1, s) <=> (c.out # 0 /\ s - c.out > OutThreshold)
    BY <2>2 DEF MissingLongEnough
  <2>4. CASE m \in {"RUN", "PIT"}
    <3>1. n.out = 0 /\ n.at \in {"RUN", "PIT"}
      BY <1>4, <2>1, <2>4 DEF HandlePit, BeginStint, EndStop, CarType
    <3> QED
      BY <1>4, <2>4, <3>1
  <2>5. CASE m = "OUT"
    <3>1. n = IF MissingLongEnough(c1, s) THEN [c1 EXCEPT !.at = "OUT"] ELSE Missing(c1, s)
      BY <2>1, <2>5 DEF HandlePit
    <3> HIDE DEF c1, n
    <3>3. MissingLongEnough(c1, s) => n.at = "OUT" /\ n.out = c.out
      BY <2>2, <3>1 DEF CarType
    <3>4. ~MissingLongEnough(c1, s)
            => n.at = "PIT" /\ n.out = (IF c.out = 0 THEN s ELSE c.out)
      BY <2>2, <3>1 DEF Missing, CarType
    <3> QED
      BY <1>4, <2>3, <2>5, <3>3, <3>4 DEF n
  <2>6. CASE m \notin {"RUN", "PIT", "OUT"}
    <3>1. n.out = c.out /\ n.at = "PIT"
      BY <1>4, <2>1, <2>6 DEF HandlePit, CarType
    <3> QED
      BY <1>4, <2>6, <3>1
  <2> QED
    BY <2>4, <2>5, <2>6
<1>5. CASE m # "INACTIVE" /\ c.at = "OUT"
  <2>1. n = HandleOut(c, m, t)
    BY <1>5 DEF HandleComputeState
  <2>2. n.out = c.out /\ n.at \in {"OUT", "RUN", "PIT"} /\ (n.at # "OUT" => m \in {"RUN", "PIT"})
    BY <1>5, <2>1 DEF HandleOut, BeginStint, BeginStop, CarType
  <2> QED
    BY <1>5, <2>2
<1> QED
  BY <1>1, <1>2, <1>3, <1>4, <1>5 DEF CarType

\* The report of a later moment keeps what is known of a missing car, and the
\* car is taken for out only after it was missing long enough.
LEMMA ReportKeepsMissing ==
  ASSUME NEW c \in CarType, NEW h \in HistType, NEW m \in Reports,
         NEW st \in Nat, NEW u \in Nat, NEW t \in Nat, u < t, st <= t,
         MissingSince(c, h, st, u)
  PROVE  LET n == HandleComputeState(c, m, t, t - st)
         IN  /\ MissingSince(n, Count(h, c, n, m, t), st, t)
             /\ n.at = "OUT" /\ c.at # "OUT" /\ ~h.returned
                  => h.outSince # 0 /\ t - h.outSince > OutThreshold
<1> DEFINE s == t - st
           n == HandleComputeState(c, m, t, s)
           g == Count(h, c, n, m, t)
<1>1. s \in Nat /\ c.out \in Nat /\ h.outSince \in Nat /\ OutThreshold \in Nat
  BY DEF CarType, HistType
<1>2. n \in CarType
  BY <1>1, ReportType
<1>3. n.out \in Nat
  BY <1>2 DEF CarType
<1>4. /\ g.outSince = (IF m \in {"RUN", "PIT"} THEN 0
                       ELSE IF m = "OUT" /\ h.outSince = 0 THEN t ELSE h.outSince)
      /\ m \in {"RUN", "PIT"} => (g.returned <=> c.at = "OUT")
      /\ m \notin {"RUN", "PIT"} => (g.returned <=> h.returned)
  BY DEF Count, HistType
<1>5. /\ c.at \in {"RUN", "PIT"} /\ m \in {"RUN", "PIT"} => n.out = 0
      /\ c.at \notin {"RUN", "PIT"} => n.out = c.out
      /\ c.at \in {"RUN", "PIT"} /\ m \notin {"RUN", "PIT"}
           => n.out = c.out \/ (m = "OUT" /\ c.out = 0 /\ n.out = s)
      /\ n.at = "INIT" => c.at = "INIT"
      /\ c.at = "INIT" /\ n.at # "INIT" => m = "RUN"
      /\ c.at = "OUT" /\ n.at \in {"RUN", "PIT"} => m \in {"RUN", "PIT"}
      /\ c.at = "FIN" => n.at = "FIN"
      /\ n.at = "OUT" /\ c.at # "OUT"
           => c.at \in {"RUN", "PIT"} /\ m = "OUT" /\ c.out # 0 /\ s - c.out > OutThreshold
  BY <1>1, OutField
<1> HIDE DEF n, g
<1>6. n.at = "INIT" => n.out = 0
  BY <1>5 DEF MissingSince
<1>7. g.outSince <= t
  BY <1>1, <1>4 DEF MissingSince
<1>8. ASSUME n.at \in {"RUN", "PIT"}, n.out # 0, ~g.returned
      PROVE  g.outSince # 0 /\ g.outSince <= st + n.out
  <2>1. c.at \in {"RUN", "PIT"} /\ m \notin {"RUN", "PIT"} /\ ~h.returned
    <3>1. c.at # "INIT"
      BY <1>5, <1>8 DEF MissingSince
    <3>2. c.at # "FIN" /\ c.at # "OUT"
      BY <1>4, <1>5, <1>8
    <3>3. c.at \in {"RUN", "PIT"}
      BY <3>1, <3>2 DEF CarType
    <3> QED
      BY <1>4, <1>5, <1>8, <3>3
  <2>2. CASE n.out = c.out
    BY <1>1, <1>4, <1>8, <2>1, <2>2 DEF MissingSince
  <2>3. CASE m = "OUT" /\ n.out = s
    BY <1>1, <1>4, <1>8, <2>1, <2>3 DEF MissingSince
  <2> QED
    BY <1>5, <2>1, <2>2, <2>3
<1>9. n.at = "OUT" /\ c.at # "OUT" /\ ~h.returned
        => h.outSince # 0 /\ t - h.outSince > OutThreshold
  BY <1>1, <1>5 DEF MissingSince
<1> QED
  BY <1>6, <1>7, <1>8, <1>9 DEF MissingSince, n, g
-----------------------------------------------------------------------------
(* Seat times.                                                             *)

Seats == [Drivers -> Seq(SeatType)]

Fine(occ, t) == occ \in Seats /\ OneAtATime(occ) /\ SeatsInThePast(occ, t)

LEMMA LeaveFacts ==
  ASSUME NEW times \in Seq(SeatType), times # <<>>, NEW t \in Nat
  PROVE  /\ Leave(times, t) \in Seq(SeatType) /\ Leave(times, t) # <<>>
         /\ Len(times) \in DOMAIN times /\ Len(Leave(times, t)) = Len(times)
         /\ DOMAIN Leave(times, t) = DOMAIN times
         /\ \A i \in DOMAIN times : Leave(times, t)[i].enter = times[i].enter
         /\ \A i \in DOMAIN times : i # Len(times) => Leave(times, t)[i] = times[i]
         /\ Leave(times, t)[Len(times)].leave = t
<1>1. /\ Len(times) \in Nat /\ DOMAIN times = 1 .. Len(times) /\ Len(times) # 0
      /\ \A i \in DOMAIN times : times[i] \in SeatType
  OBVIOUS
<1>2. [times[Len(times)] EXCEPT !.leave = t] \in SeatType
      /\ [times[Len(times)] EXCEPT !.leave = t].leave = t
      /\ [times[Len(times)] EXCEPT !.leave = t].enter = times[Len(times)].enter
  BY <1>1 DEF SeatType
<1> DEFINE x == [times[Len(times)] EXCEPT !.leave = t]
<1>3. Leave(times, t) = [times EXCEPT ![Len(times)] = x]
  BY DEF Leave
<1> HIDE DEF x
<1>4. [times EXCEPT ![Len(times)] = x] \in Seq(SeatType)
  BY <1>1, <1>2 DEF x
<1> QED
  BY <1>1, <1>2, <1>3, <1>4 DEF x

LEMMA EnterFacts ==
  ASSUME NEW times \in Seq(SeatType), NEW t \in Nat
  PROVE  /\ Enter(times, t) \in Seq(SeatType) /\ Enter(times, t) # <<>>
         /\ Len(times) \in Nat /\ DOMAIN times = 1 .. Len(times)
         /\ Len(Enter(times, t)) = Len(times) + 1
         /\ DOMAIN Enter(times, t) = 1 .. Len(times) + 1
         /\ \A i \in DOMAIN times : Enter(times, t)[i] = times[i]
         /\ Enter(times, t)[Len(times) + 1] = [enter |-> t, leave |-> t]
<1>1. [enter |-> t, leave |-> t] \in SeatType
  BY DEF SeatType
<1> QED
  BY <1>1, AppendFacts DEF Enter

LEMMA SeatFacts ==
  ASSUME NEW occ \in Seats, NEW d \in Drivers, NEW i \in DOMAIN occ[d]
  PROVE  occ[d][i] \in SeatType /\ occ[d][i].enter \in Nat /\ occ[d][i].leave \in Nat
<1>1. occ[d] \in Seq(SeatType)
  BY DEF Seats
<1>2. occ[d][i] \in SeatType
  BY <1>1
<1> QED
  BY <1>2 DEF SeatType

\* The driver with the latest seat time may have it prolonged.
LEMMA LeaveKeeps ==
  ASSUME NEW occ, NEW u \in Nat, NEW t \in Nat, u <= t, Fine(occ, u),
         NEW d \in Drivers, Seated(occ, d)
  PROVE  LET new == [occ EXCEPT ![d] = Leave(@, t)]
         IN  /\ Fine(new, t) /\ Seated(new, d) /\ Occupied(new)
             /\ OneSeatTime(occ) => OneSeatTime(new)
<1> DEFINE new == [occ EXCEPT ![d] = Leave(@, t)]
           last == Len(occ[d])
<1>1. occ \in Seats /\ occ[d] \in Seq(SeatType) /\ occ[d] # <<>>
  BY DEF Fine, Seats, Seated
<1>2. /\ new \in Seats /\ new[d] # <<>> /\ last \in DOMAIN occ[d] /\ Len(new[d]) = last
      /\ \A e \in Drivers : DOMAIN new[e] = DOMAIN occ[e]
      /\ \A e \in Drivers : \A i \in DOMAIN occ[e] : new[e][i].enter = occ[e][i].enter
      /\ \A e \in Drivers : \A i \in DOMAIN occ[e] : (e = d /\ i = last) \/ new[e][i] = occ[e][i]
      /\ new[d][last].leave = t
  <2>1. new \in Seats /\ new[d] = Leave(occ[d], t) /\ \A e \in Drivers : e # d => new[e] = occ[e]
    BY <1>1, LeaveFacts DEF Seats
  <2> HIDE DEF new
  <2> QED
    BY <1>1, <2>1, LeaveFacts
<1> HIDE DEF new, last
<1>3. \A e \in Drivers : \A i \in DOMAIN occ[e] :
        /\ (e = d /\ i = last) \/ occ[e][i].leave <= occ[d][last].enter
        /\ occ[e][i].enter <= occ[e][i].leave /\ occ[e][i].leave <= u
        /\ occ[e][i].enter \in Nat /\ occ[e][i].leave \in Nat
  BY <1>1, SeatFacts DEF Seated, Fine, SeatsInThePast, last
<1>4. SeatsInThePast(new, t)
  <2> SUFFICES ASSUME NEW e \in Drivers, NEW i \in DOMAIN new[e]
               PROVE  new[e][i].enter <= new[e][i].leave /\ new[e][i].leave <= t
    BY DEF SeatsInThePast
  <2>1. CASE e = d /\ i = last
    BY <1>2, <1>3, <2>1
  <2>2. CASE ~(e = d /\ i = last)
    BY <1>2, <1>3, <2>2
  <2> QED
    BY <2>1, <2>2
<1>5. OneAtATime(new)
  <2> SUFFICES ASSUME NEW e \in Drivers, NEW f \in Drivers,
                      NEW i \in DOMAIN new[e], NEW j \in DOMAIN new[f], e # f \/ i # j
               PROVE  Apart(new[e][i], new[f][j])
    BY DEF OneAtATime
  <2>1. CASE e = d /\ i = last
    BY <1>2, <1>3, <2>1 DEF Apart
  <2>2. CASE f = d /\ j = last
    BY <1>2, <1>3, <2>2 DEF Apart
  <2>3. CASE ~(e = d /\ i = last) /\ ~(f = d /\ j = last)
    <3>1. Apart(occ[e][i], occ[f][j])
      BY <1>2 DEF Fine, OneAtATime
    <3> QED
      BY <1>2, <2>3, <3>1
  <2> QED
    BY <2>1, <2>2, <2>3
<1>6. Seated(new, d)
  BY <1>2, <1>3 DEF Seated
<1>7. OneSeatTime(occ) => OneSeatTime(new)
  BY <1>2 DEF OneSeatTime
<1> QED
  BY <1>2, <1>4, <1>5, <1>6, <1>7 DEF Fine, Occupied, new

\* Anybody may enter at a later moment.
LEMMA EnterKeeps ==
  ASSUME NEW occ, NEW u \in Nat, NEW t \in Nat, u <= t, Fine(occ, u), NEW d \in Drivers
  PROVE  LET new == [occ EXCEPT ![d] = Enter(@, t)]
         IN  /\ Fine(new, t) /\ Seated(new, d) /\ Occupied(new)
             /\ ~Occupied(occ) => OneSeatTime(new)
<1> DEFINE new == [occ EXCEPT ![d] = Enter(@, t)]
           last == Len(occ[d]) + 1
<1>1. occ \in Seats /\ occ[d] \in Seq(SeatType)
  BY DEF Fine, Seats
<1>2. /\ new \in Seats /\ new[d] # <<>> /\ last \in DOMAIN new[d] /\ Len(new[d]) = last
      /\ \A e \in Drivers : \A i \in DOMAIN new[e] :
           (e = d /\ i = last) \/ (i \in DOMAIN occ[e] /\ new[e][i] = occ[e][i])
      /\ new[d][last].enter = t /\ new[d][last].leave = t
  <2>1. new \in Seats /\ new[d] = Enter(occ[d], t) /\ \A e \in Drivers : e # d => new[e] = occ[e]
    BY <1>1, EnterFacts DEF Seats
  <2> HIDE DEF new
  <2>2. /\ Enter(occ[d], t) # <<>> /\ last \in DOMAIN Enter(occ[d], t)
        /\ Len(Enter(occ[d], t)) = last
        /\ \A i \in DOMAIN Enter(occ[d], t) :
             i = last \/ (i \in DOMAIN occ[d] /\ Enter(occ[d], t)[i] = occ[d][i])
        /\ Enter(occ[d], t)[last] = [enter |-> t, leave |-> t]
    <3> HIDE DEF new
    <3> QED
      BY <1>1, EnterFacts
  <2> HIDE DEF last
  <2> QED
    BY <1>1, <2>1, <2>2
<1> HIDE DEF new, last
<1>3. \A e \in Drivers : \A i \in DOMAIN occ[e] :
        /\ occ[e][i].enter <= occ[e][i].leave /\ occ[e][i].leave <= t
        /\ occ[e][i].enter \in Nat /\ occ[e][i].leave \in Nat
  BY <1>1, SeatFacts DEF Fine, SeatsInThePast
<1>4. SeatsInThePast(new, t)
  BY <1>2, <1>3 DEF SeatsInThePast
<1>5. OneAtATime(new)
  <2> SUFFICES ASSUME NEW e \in Drivers, NEW f \in Drivers,
                      NEW i \in DOMAIN new[e], NEW j \in DOMAIN new[f], e # f \/ i # j
               PROVE  Apart(new[e][i], new[f][j])
    BY DEF OneAtATime
  <2>1. CASE e = d /\ i = last
    BY <1>2, <1>3, <2>1 DEF Apart
  <2>2. CASE f = d /\ j = last
    BY <1>2, <1>3, <2>2 DEF Apart
  <2>3. CASE ~(e = d /\ i = last) /\ ~(f = d /\ j = last)
    BY <1>2, <2>3 DEF Fine, OneAtATime
  <2> QED
    BY <2>1, <2>2, <2>3
<1>6. Seated(new, d)
  BY <1>2, <1>3 DEF Seated
<1>7. ~Occupied(occ) => OneSeatTime(new)
  <2> SUFFICES ASSUME ~Occupied(occ), NEW e \in Drivers, NEW i \in DOMAIN new[e]
               PROVE  e = d /\ i = last
    BY DEF OneSeatTime
  <2>1. DOMAIN occ[e] = {}
    <3>1. occ[e] = <<>>
      BY DEF Occupied
    <3> QED
      BY <3>1
  <2> QED
    BY <1>2, <2>1
<1> QED
  BY <1>2, <1>4, <1>5, <1>6, <1>7 DEF Fine, Occupied, new

\* A single seat time is the latest.
LEMMA OneIsLatest ==
  ASSUME NEW occ \in Seats, OneSeatTime(occ), NEW d \in Drivers, occ[d] # <<>>
  PROVE  Seated(occ, d)
<1>1. Len(occ[d]) \in DOMAIN occ[d]
  BY LeaveFacts DEF Seats
<1> QED
  BY <1>1 DEF OneSeatTime, Seated
LEMMA FineLater ==
  ASSUME NEW occ, NEW u \in Nat, NEW t \in Nat, u <= t, Fine(occ, u)
  PROVE  Fine(occ, t)
BY SeatFacts DEF Fine, SeatsInThePast

LEMMA EnsureKeeps ==
  ASSUME NEW occ, NEW u \in Nat, NEW t \in Nat, u <= t, Fine(occ, u), NEW d \in Drivers
  PROVE  LET new == EnsureCarOccupancy(occ, d, t)
         IN  /\ Fine(new, t) /\ Occupied(new)
             /\ \A e \in Drivers : Seated(occ, e) => Seated(new, e)
             /\ OneSeatTime(occ) => OneSeatTime(new)
<1>1. CASE Occupied(occ)
  BY <1>1, FineLater DEF EnsureCarOccupancy
<1>2. CASE ~Occupied(occ)
  <2>1. \A e \in Drivers : ~Seated(occ, e)
    BY <1>2 DEF Seated, Occupied
  <2> QED
    BY <1>2, <2>1, EnterKeeps DEF EnsureCarOccupancy
<1> QED
  BY <1>1, <1>2

LEMMA MarkKeeps ==
  ASSUME NEW occ, NEW t \in Nat, Fine(occ, t), NEW d \in Drivers, Occupied(occ),
         Seated(occ, d) \/ OneSeatTime(occ)
  PROVE  LET new == MarkSeatTime(occ, d, t)
         IN  /\ Fine(new, t) /\ Occupied(new)
             /\ Seated(occ, d) => Seated(new, d)
             /\ OneSeatTime(occ) => OneSeatTime(new)
<1>1. CASE occ[d] = <<>>
  BY <1>1 DEF MarkSeatTime
<1>2. CASE occ[d] # <<>>
  <2>1. Seated(occ, d)
    BY <1>2, OneIsLatest DEF Fine
  <2>2. MarkSeatTime(occ, d, t) = [occ EXCEPT ![d] = Leave(@, t)]
    BY <1>2 DEF MarkSeatTime
  <2> DEFINE left == [occ EXCEPT ![d] = Leave(@, t)]
  <2>3. /\ Fine(left, t) /\ Seated(left, d) /\ Occupied(left)
        /\ OneSeatTime(occ) => OneSeatTime(left)
    BY <2>1, LeaveKeeps
  <2> HIDE DEF left
  <2> QED
    BY <2>2, <2>3 DEF left
<1> QED
  BY <1>1, <1>2

LEMMA UpdateKeeps ==
  ASSUME NEW occ, NEW u \in Nat, NEW t \in Nat, u <= t, Fine(occ, u),
         NEW prev, NEW d \in Drivers,
         OneSeatTime(occ) \/ (prev \in Drivers /\ Seated(occ, prev))
  PROVE  LET new == UpdateCarInfo(occ, prev, d, t)
         IN  Fine(new, t) /\ Seated(new, d) /\ Occupied(new)
<1> DEFINE new == UpdateCarInfo(occ, prev, d, t)
<1>1. DOMAIN occ = Drivers /\ occ \in Seats
  BY DEF Fine, Seats
<1>2. CASE prev = d /\ occ[d] # <<>>
  <2>1. new = [occ EXCEPT ![d] = Leave(@, t)]
    BY <1>1, <1>2 DEF UpdateCarInfo, Seats
  <2>2. Seated(occ, d)
    BY <1>1, <1>2, OneIsLatest
  <2> DEFINE left == [occ EXCEPT ![d] = Leave(@, t)]
  <2>3. Fine(left, t) /\ Seated(left, d) /\ Occupied(left)
    BY <2>2, LeaveKeeps
  <2> HIDE DEF left
  <2> QED
    BY <2>1, <2>3 DEF left
<1>3. CASE prev # d /\ prev \in Drivers /\ occ[prev] # <<>>
  <2> DEFINE left == [occ EXCEPT ![prev] = Leave(@, t)]
  <2>1. new = [left EXCEPT ![d] = Enter(@, t)]
    BY <1>1, <1>3 DEF UpdateCarInfo, Seats
  <2>2. Seated(occ, prev)
    BY <1>1, <1>3, OneIsLatest
  <2>3. Fine(left, t)
    BY <1>3, <2>2, LeaveKeeps
  <2> HIDE DEF left
  <2> DEFINE entered == [left EXCEPT ![d] = Enter(@, t)]
  <2>4. Fine(entered, t) /\ Seated(entered, d) /\ Occupied(entered)
    BY <2>3, EnterKeeps
  <2> HIDE DEF entered
  <2> QED
    BY <2>1, <2>4 DEF entered
<1>4. CASE ~(prev = d /\ occ[d] # <<>>) /\ ~(prev # d /\ prev \in Drivers /\ occ[prev] # <<>>)
  <2>1. new = [occ EXCEPT ![d] = Enter(@, t)]
    BY <1>1, <1>4 DEF UpdateCarInfo, Seats
  <2> DEFINE entered == [occ EXCEPT ![d] = Enter(@, t)]
  <2>2. Fine(entered, t) /\ Seated(entered, d) /\ Occupied(entered)
    BY EnterKeeps
  <2> HIDE DEF entered
  <2> QED
    BY <2>1, <2>2 DEF entered
<1> QED
  BY <1>2, <1>3, <1>4
-----------------------------------------------------------------------------
\* The entries of a car are there when it leaves INIT or goes to the pits.
Entries(c) == (c.at # "INIT" => c.hasStint) /\ (c.at = "PIT" => c.hasPit)

LEMMA ReportKeepsEntries ==
  ASSUME NEW c \in CarType, NEW m \in Reports, NEW t \in Nat, NEW s \in Nat, Entries(c)
  PROVE  Entries(HandleComputeState(c, m, t, s))
<1> DEFINE n == HandleComputeState(c, m, t, s)
<1>1. CASE m = "INACTIVE" \/ c.at = "FIN"
  BY <1>1 DEF HandleComputeState
<1>2. CASE m # "INACTIVE" /\ c.at = "INIT"
  <2>1. n = HandleInit(c, m, t)
    BY <1>2 DEF HandleComputeState
  <2> QED
    BY <1>2, <2>1 DEF HandleInit, BeginStint, CarType, Entries
<1>3. CASE m # "INACTIVE" /\ c.at = "RUN"
  <2>1. n = HandleRun(c, m, t, s)
    BY <1>3 DEF HandleComputeState
  <2>2. n.hasStint = c.hasStint
    BY <2>1 DEF HandleRun, BeginStop, EndStint, Missing, CarType
  <2>3. n.at = "PIT" => n.hasPit
    BY <1>3, <2>1 DEF HandleRun, BeginStop, EndStint, Missing, CarType
  <2> QED
    BY <1>3, <2>2, <2>3 DEF Entries
<1>4. CASE m # "INACTIVE" /\ c.at = "PIT"
  <2>1. n = HandlePit(c, m, t, s)
    BY <1>4 DEF HandleComputeState
  <2>2. n.hasStint = c.hasStint /\ n.hasPit = c.hasPit
    BY <2>1 DEF HandlePit, BeginStint, EndStop, Missing, CarType
  <2> QED
    BY <1>4, <2>2 DEF Entries
<1>5. CASE m # "INACTIVE" /\ c.at = "OUT"
  <2>1. n = HandleOut(c, m, t)
    BY <1>5 DEF HandleComputeState
  <2> QED
    BY <1>5, <2>1 DEF HandleOut, BeginStint, BeginStop, CarType, Entries
<1> QED
  BY <1>1, <1>2, <1>3, <1>4, <1>5 DEF CarType

-----------------------------------------------------------------------------
(* The invariant, one car at a time.                                       *)

SpansOK(c, h, st, t) ==
  /\ Ordered(c) /\ InThePast(c, t)
  /\ Kept(c, h)
  /\ MissingSince(c, h, st, t)
  /\ Entries(c)

SeatsOK(occ, t, raced, r, isKnown, d) ==
  /\ Fine(occ, t)
  /\ IF raced THEN r /\ isKnown /\ Seated(occ, d) ELSE OneSeatTime(occ)

CarOK(c) ==
  /\ SpansOK(car[c], hist[c], start, now)
  /\ SeatsOK(seats[c], now, hist[c].raced, race, c \in known, drivers[c])
  /\ car[c].at # "INIT" => Occupied(seats[c])

LEMMA IInvParts == IInv <=> TypeOK /\ \A c \in Cars : CarOK(c)
<1>1. ASSUME TypeOK, NEW c \in Cars
      PROVE  SeatState(c) <=> SeatsOK(seats[c], now, hist[c].raced, race, c \in known, drivers[c])
  BY <1>1 DEF TypeOK, SeatState, SeatsOK, Fine, Seats
<1> QED
  BY <1>1 DEF IInv, EntriesExist, CarOK, SpansOK, Entries

LEMMA InitInv == Init => IInv
<1> SUFFICES ASSUME Init PROVE TypeOK /\ \A c \in Cars : CarOK(c)
  BY IInvParts
<1>1. <<>> \in Seq(SpanType) /\ <<>> \in Seq(SeatType)
  OBVIOUS
<1>2. NewCar \in CarType /\ NewHist \in HistType
  BY <1>1 DEF NewCar, NoSpan, SpanType, CarType, NewHist, HistType
<1>3. TypeOK
  BY <1>1, <1>2 DEF Init, TypeOK
<1>4. ASSUME NEW c \in Cars PROVE CarOK(c)
  <2>1. /\ car[c] = NewCar /\ hist[c] = NewHist /\ now = 0 /\ start = 1
        /\ seats[c] = [d \in Drivers |-> <<>>]
    BY DEF Init
  <2>2. SpansOK(NewCar, NewHist, 1, 0)
    BY DEF SpansOK, Ordered, InSequence, After, InThePast, Kept, MissingSince, Entries,
           NewCar, NewHist, NoSpan
  <2>3. \A d \in Drivers : DOMAIN seats[c][d] = {}
    BY <2>1
  <2>4. Fine(seats[c], 0) /\ OneSeatTime(seats[c])
    BY <1>1, <2>1, <2>3 DEF Fine, Seats, OneAtATime, SeatsInThePast, OneSeatTime
  <2> QED
    BY <2>1, <2>2, <2>4 DEF CarOK, SeatsOK, NewCar, NewHist
<1> QED
  BY <1>3, <1>4

\* What a state message does to one car.
LEMMA ReportKeepsCar ==
  ASSUME TypeOK, NEW c \in known, CarOK(c), NEW m \in Reports
  PROVE  LET n == NextCar(c, m)
             h == Count(hist[c], car[c], n, m, now + 1)
             occ == NextSeats(c, m)
         IN  /\ n \in CarType /\ h \in HistType
             /\ SpansOK(n, h, start, now + 1)
             /\ SeatsOK(occ, now + 1, h.raced, race, c \in known, drivers[c])
             /\ Occupied(occ)
             /\ n.at = "OUT" /\ car[c].at # "OUT" /\ ~hist[c].returned
                  => hist[c].outSince # 0 /\ (now + 1) - hist[c].outSince > OutThreshold
<1> DEFINE t == now + 1
           s == t - start
           n == NextCar(c, m)
           h == Count(hist[c], car[c], n, m, t)
           occ == EnsureCarOccupancy(seats[c], drivers[c], t)
           new == NextSeats(c, m)
<1>1. /\ c \in Cars /\ car[c] \in CarType /\ hist[c] \in HistType
      /\ drivers[c] \in Drivers /\ now \in Nat /\ start \in Nat
      /\ t \in Nat /\ now < t /\ now <= t /\ start <= t /\ s \in Nat
  BY DEF TypeOK
<1>2. n = HandleComputeState(car[c], m, t, s)
  BY DEF NextCar
<1>3. SpansOK(car[c], hist[c], start, now)
  BY DEF CarOK
<1> HIDE DEF n, t, s
<1>4. n \in CarType /\ Changes(car[c], n, t) /\ Entries(n)
  BY <1>1, <1>2, <1>3, ReportType, Transition, ReportKeepsEntries DEF SpansOK
<1>5. /\ MissingSince(n, h, start, t)
      /\ n.at = "OUT" /\ car[c].at # "OUT" /\ ~hist[c].returned
           => hist[c].outSince # 0 /\ t - hist[c].outSince > OutThreshold
  BY <1>1, <1>2, <1>3, ReportKeepsMissing DEF SpansOK, s, h
<1>6. Ordered(n) /\ InThePast(n, t)
  BY <1>1, <1>3, <1>4, ChangeKeepsOrder DEF SpansOK
<1>7. h \in HistType /\ Kept(n, h)
  BY <1>1, <1>3, <1>4, ChangeKeepsAll DEF SpansOK, InThePast
<1>8. h.raced = hist[c].raced
  BY <1>1 DEF Count, HistType
<1> HIDE DEF h
<1>9. SeatsOK(seats[c], now, hist[c].raced, race, c \in known, drivers[c])
  BY DEF CarOK
<1>10. /\ Fine(occ, t) /\ Occupied(occ)
       /\ Seated(seats[c], drivers[c]) => Seated(occ, drivers[c])
       /\ OneSeatTime(seats[c]) => OneSeatTime(occ)
  BY <1>1, <1>9, EnsureKeeps DEF SeatsOK
<1>11. new = (IF Marks(car[c], m) THEN MarkSeatTime(occ, drivers[c], t) ELSE occ)
  BY DEF NextSeats, t
<1> HIDE DEF occ, new
<1>12. Seated(occ, drivers[c]) \/ OneSeatTime(occ)
  BY <1>9, <1>10 DEF SeatsOK
<1>13. /\ Fine(new, t) /\ Occupied(new)
       /\ Seated(occ, drivers[c]) => Seated(new, drivers[c])
       /\ OneSeatTime(occ) => OneSeatTime(new)
  BY <1>1, <1>10, <1>11, <1>12, MarkKeeps
<1>14. SeatsOK(new, t, h.raced, race, c \in known, drivers[c])
  BY <1>8, <1>9, <1>10, <1>13 DEF SeatsOK
<1>15. SpansOK(n, h, start, t)
  BY <1>4, <1>5, <1>6, <1>7 DEF SpansOK
<1> QED
  BY <1>4, <1>5, <1>7, <1>13, <1>14, <1>15 DEF n, t, h, new

\* A car about which a message says nothing, at a later moment.
LEMMA QuietCar ==
  ASSUME TypeOK, NEW c \in Cars, NEW u \in Nat, now <= u, NEW st \in Nat, start <= st,
         SpansOK(car[c], hist[c], start, now), Fine(seats[c], now)
  PROVE  SpansOK(car[c], hist[c], st, u) /\ Fine(seats[c], u)
<1>1. car[c] \in CarType /\ hist[c] \in HistType /\ now \in Nat /\ start \in Nat
  BY DEF TypeOK
<1>2. Changes(car[c], car[c], u)
  BY DEF Changes, Goes, SameHistory
<1>3. Ordered(car[c]) /\ InThePast(car[c], u)
  BY <1>1, <1>2, ChangeKeepsOrder DEF SpansOK
<1>4. car[c].out \in Nat /\ hist[c].outSince \in Nat
  BY <1>1 DEF CarType, HistType
<1>5. MissingSince(car[c], hist[c], st, u)
  BY <1>1, <1>4 DEF SpansOK, MissingSince
<1>6. Fine(seats[c], u)
  BY <1>1, FineLater
<1> QED
  BY <1>3, <1>5, <1>6 DEF SpansOK

LEMMA NewSessionInv ==
  ASSUME IInv, NewSession
  PROVE  TypeOK' /\ \A c \in Cars : CarOK(c)'
<1>1. TypeOK /\ \A c \in Cars : CarOK(c)
  BY IInvParts
<1>2. TypeOK'
  <2>1. race' \in BOOLEAN
    <3>1. race \in BOOLEAN /\ race' \in {race, TRUE}
      BY <1>1 DEF NewSession, TypeOK
    <3> QED
      BY <3>1, Zenon
  <2>2. start' \in 1 .. now' + 1
    BY <1>1 DEF NewSession, TypeOK
  <2> QED
    BY <1>1, <2>1, <2>2 DEF NewSession, TypeOK
<1>3. ASSUME NEW c \in Cars PROVE CarOK(c)'
  <2>1. now \in Nat /\ start \in Nat /\ start <= now + 1 /\ start' = now + 1
    BY <1>1 DEF NewSession, TypeOK
  <2>2. SpansOK(car[c], hist[c], start', now) /\ Fine(seats[c], now)
    BY <1>1, <2>1, QuietCar DEF CarOK, SeatsOK
  <2>3. race => race'
    BY <1>1 DEF NewSession, TypeOK
  <2> QED
    BY <1>1, <2>2, <2>3 DEF CarOK, SeatsOK, NewSession
<1> QED
  BY <1>2, <1>3

LEMMA DriverDataInv ==
  ASSUME IInv, NEW S \in SUBSET Cars, known \subseteq S, NEW current \in [S -> Drivers],
         ProcessCarPayload(current)
  PROVE  TypeOK' /\ \A c \in Cars : CarOK(c)'
<1>1. TypeOK /\ \A c \in Cars : CarOK(c)
  BY IInvParts
<1>2. /\ now \in Nat /\ start \in Nat /\ now <= now + 1 /\ now + 1 \in Nat
      /\ race \in BOOLEAN /\ DOMAIN current = S /\ known' = S
  BY <1>1 DEF TypeOK, ProcessCarPayload
<1>3. ASSUME NEW c \in Cars
      PROVE  /\ hist'[c] \in HistType
             /\ hist'[c].raced <=> hist[c].raced \/ (race /\ c \in S)
             /\ hist'[c].stints = hist[c].stints /\ hist'[c].stops = hist[c].stops
             /\ hist'[c].lost = hist[c].lost /\ hist'[c].outSince = hist[c].outSince
             /\ hist'[c].returned = hist[c].returned
  <2> DEFINE r == hist[c].raced \/ (race /\ c \in S)
  <2>1. hist[c] \in HistType /\ r \in BOOLEAN
    BY <1>1 DEF TypeOK
  <2>2. hist'[c] = [hist[c] EXCEPT !.raced = r]
    BY <1>2 DEF ProcessCarPayload
  <2> HIDE DEF r
  <2>3. hist'[c].raced = r
    BY <2>1, <2>2 DEF HistType
  <2>4. /\ hist'[c] \in HistType
        /\ hist'[c].stints = hist[c].stints /\ hist'[c].stops = hist[c].stops
        /\ hist'[c].lost = hist[c].lost /\ hist'[c].outSince = hist[c].outSince
        /\ hist'[c].returned = hist[c].returned
    BY <2>1, <2>2 DEF HistType
  <2> QED
    BY <2>3, <2>4 DEF r
<1>4. ASSUME NEW c \in Cars, race, c \in S
      PROVE  /\ Fine(seats'[c], now + 1) /\ Seated(seats'[c], drivers'[c])
             /\ Occupied(seats'[c])
  <2>1. /\ seats'[c] = UpdateCarInfo(seats[c], drivers[c], current[c], now + 1)
        /\ drivers'[c] = current[c] /\ current[c] \in Drivers
    BY <1>2, <1>4 DEF ProcessCarPayload, PreviousDriver, AssignDrivers
  <2>2. hist[c].raced => drivers[c] \in Drivers
    BY <1>1 DEF TypeOK, CarOK, SeatsOK
  <2>3. /\ Fine(seats[c], now)
        /\ OneSeatTime(seats[c]) \/ (drivers[c] \in Drivers /\ Seated(seats[c], drivers[c]))
    BY <1>1, <2>2 DEF CarOK, SeatsOK
  <2> QED
    BY <1>2, <2>1, <2>3, UpdateKeeps
<1>5. ASSUME NEW c \in Cars, ~(race /\ c \in S)
      PROVE  seats'[c] = seats[c] /\ ~hist[c].raced /\ ~hist'[c].raced
  <2>1. seats'[c] = seats[c]
    BY <1>2, <1>5 DEF ProcessCarPayload
  <2>2. hist[c].raced => race /\ c \in known
    BY <1>1 DEF CarOK, SeatsOK
  <2> QED
    BY <1>3, <1>5, <2>1, <2>2
<1>6. ASSUME NEW c \in Cars
      PROVE  SpansOK(car'[c], hist'[c], start', now')
  <2>1. SpansOK(car[c], hist[c], start, now + 1)
    BY <1>1, <1>2, QuietCar DEF CarOK, SeatsOK
  <2>2. car'[c] = car[c] /\ start' = start /\ now' = now + 1
    BY DEF ProcessCarPayload
  <2> QED
    BY <1>3, <2>1, <2>2 DEF SpansOK, Kept, MissingSince
<1>7. ASSUME NEW c \in Cars
      PROVE  /\ SeatsOK(seats'[c], now', hist'[c].raced, race', c \in known', drivers'[c])
             /\ car'[c].at # "INIT" => Occupied(seats'[c])
  <2>1. now' = now + 1 /\ race' = race /\ car' = car
    BY DEF ProcessCarPayload
  <2>2. CASE race /\ c \in S
    BY <1>2, <1>3, <1>4, <2>1, <2>2 DEF SeatsOK
  <2>3. CASE ~(race /\ c \in S)
    <3>1. Fine(seats[c], now + 1) /\ OneSeatTime(seats[c])
      BY <1>1, <1>2, <1>5, <2>3, QuietCar DEF CarOK, SeatsOK
    <3> QED
      BY <1>1, <1>5, <2>1, <2>3, <3>1 DEF SeatsOK, CarOK
  <2> QED
    BY <2>2, <2>3
<1>8. TypeOK'
  <2>1. seats' \in [Cars -> Seats]
    <3>1. \A c \in Cars : seats'[c] \in Seats
      BY <1>7 DEF SeatsOK, Fine
    <3>2. seats' = [c \in Cars |-> seats'[c]]
      BY DEF ProcessCarPayload
    <3> QED
      BY <3>1, <3>2
  <2>2. hist' \in [Cars -> HistType]
    <3>1. hist' = [c \in Cars |-> hist'[c]]
      BY DEF ProcessCarPayload
    <3> QED
      BY <1>3, <3>1
  <2>3. drivers' \in [Cars -> Drivers \cup {Nobody}] /\ \A c \in known' : drivers'[c] \in Drivers
    BY <1>2 DEF ProcessCarPayload, AssignDrivers
  <2> QED
    BY <1>1, <1>2, <2>1, <2>2, <2>3 DEF TypeOK, ProcessCarPayload, Seats
<1> QED
  BY <1>6, <1>7, <1>8 DEF CarOK

LEMMA StateMessageInv ==
  ASSUME IInv, NEW S \in SUBSET Cars, NEW msg \in [S -> Reports], ProcessStatePayload(msg)
  PROVE  TypeOK' /\ \A c \in Cars : CarOK(c)'
<1>1. TypeOK /\ \A c \in Cars : CarOK(c)
  BY IInvParts
<1>2. /\ now \in Nat /\ start \in Nat /\ now <= now + 1 /\ now + 1 \in Nat
      /\ DOMAIN msg = S /\ S \subseteq known
      /\ now' = now + 1 /\ start' = start /\ race' = race /\ known' = known /\ drivers' = drivers
  BY <1>1 DEF TypeOK, ProcessStatePayload
<1>3. ASSUME NEW c \in S
      PROVE  car'[c] \in CarType /\ hist'[c] \in HistType /\ seats'[c] \in Seats /\ CarOK(c)'
  <2>1. msg[c] \in Reports /\ c \in Cars /\ c \in known
    BY <1>2
  <2>2. /\ car'[c] = NextCar(c, msg[c]) /\ seats'[c] = NextSeats(c, msg[c])
        /\ hist'[c] = Count(hist[c], car[c], NextCar(c, msg[c]), msg[c], now + 1)
    BY <1>2, <2>1 DEF ProcessStatePayload
  <2>3. /\ car'[c] \in CarType /\ hist'[c] \in HistType
        /\ SpansOK(car'[c], hist'[c], start, now + 1)
        /\ SeatsOK(seats'[c], now + 1, hist'[c].raced, race, c \in known, drivers[c])
        /\ Occupied(seats'[c])
    BY <1>1, <2>1, <2>2, ReportKeepsCar
  <2> QED
    BY <1>2, <2>3 DEF CarOK, SeatsOK, Fine
<1>4. ASSUME NEW c \in Cars, c \notin S
      PROVE  car'[c] \in CarType /\ hist'[c] \in HistType /\ seats'[c] \in Seats /\ CarOK(c)'
  <2>1. car'[c] = car[c] /\ seats'[c] = seats[c] /\ hist'[c] = hist[c]
    BY <1>2, <1>4 DEF ProcessStatePayload
  <2>2. SpansOK(car[c], hist[c], start, now + 1) /\ Fine(seats[c], now + 1)
    BY <1>1, <1>2, QuietCar DEF CarOK, SeatsOK
  <2> QED
    BY <1>1, <1>2, <2>1, <2>2 DEF CarOK, SeatsOK, Fine, TypeOK
<1>5. /\ car' = [c \in Cars |-> car'[c]] /\ hist' = [c \in Cars |-> hist'[c]]
      /\ seats' = [c \in Cars |-> seats'[c]]
  BY DEF ProcessStatePayload
<1>6. car' \in [Cars -> CarType] /\ hist' \in [Cars -> HistType] /\ seats' \in [Cars -> Seats]
  BY <1>3, <1>4, <1>5
<1>7. known \subseteq Cars /\ race \in BOOLEAN /\ start \in 1 .. now + 1
      /\ drivers \in [Cars -> Drivers \cup {Nobody}] /\ \A c \in known : drivers[c] \in Drivers
  BY <1>1 DEF TypeOK
<1>8. result' = "ok" /\ start' \in 1 .. now' + 1
  BY <1>2, <1>7 DEF ProcessStatePayload
<1>9. TypeOK'
  BY <1>2, <1>6, <1>7, <1>8 DEF TypeOK, Seats
<1> QED
  BY <1>3, <1>4, <1>9

LEMMA PanicInv ==
  ASSUME IInv, NEW S \in SUBSET Cars, ProcessStatePanic(S)
  PROVE  TypeOK' /\ \A c \in Cars : CarOK(c)'
<1>1. TypeOK /\ \A c \in Cars : CarOK(c)
  BY IInvParts
<1>2. PICK before \in SUBSET (S \cap known) :
        seats' = [c \in Cars |-> IF c \in before
                                 THEN EnsureCarOccupancy(seats[c], drivers[c], now + 1)
                                 ELSE seats[c]]
  BY DEF ProcessStatePanic
<1>3. /\ now \in Nat /\ start \in Nat /\ now <= now + 1 /\ now + 1 \in Nat
      /\ now' = now + 1 /\ start' = start /\ race' = race /\ known' = known /\ drivers' = drivers
      /\ car' = car /\ hist' = hist
  BY <1>1 DEF TypeOK, ProcessStatePanic
<1>4. ASSUME NEW c \in Cars
      PROVE  seats'[c] \in Seats /\ CarOK(c)'
  <2>1. SpansOK(car[c], hist[c], start, now + 1) /\ Fine(seats[c], now + 1)
    BY <1>1, <1>3, QuietCar DEF CarOK, SeatsOK
  <2>2. CASE c \in before
    <3>1. seats'[c] = EnsureCarOccupancy(seats[c], drivers[c], now + 1) /\ drivers[c] \in Drivers
      BY <1>1, <1>2, <2>2 DEF TypeOK
    <3>2. Fine(seats[c], now)
      BY <1>1 DEF CarOK, SeatsOK
    <3>3. /\ Fine(seats'[c], now + 1) /\ Occupied(seats'[c])
          /\ \A e \in Drivers : Seated(seats[c], e) => Seated(seats'[c], e)
          /\ OneSeatTime(seats[c]) => OneSeatTime(seats'[c])
      BY <1>3, <3>1, <3>2, EnsureKeeps
    <3> QED
      BY <1>1, <1>3, <2>1, <3>1, <3>3 DEF CarOK, SeatsOK, Fine
  <2>3. CASE c \notin before
    <3>1. seats'[c] = seats[c]
      BY <1>2, <2>3
    <3> QED
      BY <1>1, <1>3, <2>1, <3>1 DEF CarOK, SeatsOK, Fine
  <2> QED
    BY <2>2, <2>3
<1>5. seats' = [c \in Cars |-> seats'[c]]
  BY <1>2
<1>6. TypeOK'
  BY <1>1, <1>3, <1>4, <1>5 DEF TypeOK, ProcessStatePanic, Seats
<1> QED
  BY <1>4, <1>6
\* The inductive invariant is kept by every step.
LEMMA NextInv == IInv /\ [Next]_vars => IInv'
<1> DEFINE Parts == TypeOK /\ \A c \in Cars : CarOK(c)
<1>1. Parts' => IInv'
  <2>1. IInv <=> Parts
    BY IInvParts
  <2> HIDE DEF Parts
  <2> QED
    BY <2>1, PTL
<1> SUFFICES ASSUME IInv, [Next]_vars
             PROVE  TypeOK' /\ \A c \in Cars : CarOK(c)'
  BY <1>1
<1>2. CASE NewSession
  BY <1>2, NewSessionInv
<1>3. ASSUME NEW S \in SUBSET Cars, known \subseteq S, NEW current \in [S -> Drivers],
             ProcessCarPayload(current)
      PROVE  TypeOK' /\ \A c \in Cars : CarOK(c)'
  BY <1>3, DriverDataInv
<1>4. ASSUME NEW S \in SUBSET Cars, NEW msg \in [S -> Reports], ProcessStatePayload(msg)
      PROVE  TypeOK' /\ \A c \in Cars : CarOK(c)'
  BY <1>4, StateMessageInv
<1>5. ASSUME NEW S \in SUBSET Cars, ProcessStatePanic(S)
      PROVE  TypeOK' /\ \A c \in Cars : CarOK(c)'
  BY <1>5, PanicInv
<1>6. CASE UNCHANGED vars
  BY <1>6, IInvParts DEF vars, TypeOK, CarOK
<1> QED
  BY <1>2, <1>3, <1>4, <1>5, <1>6 DEF Next

LEMMA Invariance == Spec => []IInv
BY InitInv, NextInv, PTL DEF Spec

-----------------------------------------------------------------------------
\* The type invariant of the car processor.
THEOREM TypeCorrect == Spec => []TypeOK
<1>1. IInv => TypeOK
  BY DEF IInv
<1> QED
  BY <1>1, Invariance, PTL

\* The handlers never use an entry of a lookup that is not there, whatever the
\* order of the reports.
THEOREM EntriesAlwaysExist == Spec => []EntriesExist
<1>1. IInv => EntriesExist
  BY DEF IInv
<1> QED
  BY <1>1, Invariance, PTL

\* Stints and pit stops of a car never overlap and follow each other.
THEOREM SpansAlwaysOrdered == Spec => []SpansOrdered
<1>1. IInv => SpansOrdered
  BY DEF IInv, SpansOrdered
<1> QED
  BY <1>1, Invariance, PTL

\* No stint is lost, and no stop but those during which the car was taken for out.
THEOREM AllKept == Spec => []NothingForgotten
<1>1. IInv => NothingForgotten
  BY DEF IInv, NothingForgotten
<1> QED
  BY <1>1, Invariance, PTL

\* The seat times of a car never overlap.
THEOREM SeatsNeverShared == Spec => []OneDriverAtATime
<1>1. IInv => OneDriverAtATime
  BY DEF IInv, SeatState, OneDriverAtATime
<1> QED
  BY <1>1, Invariance, PTL

\* In a race the current driver of a car has its latest seat time.
THEOREM DriverAlwaysSeated == Spec => []CurrentDriverSeated
<1>1. IInv => CurrentDriverSeated
  BY DEF IInv, SeatState, CurrentDriverSeated
<1> QED
  BY <1>1, Invariance, PTL

\* A step takes a car for out only if it was missing long enough.
LEMMA StepConfirms ==
  ASSUME IInv, [Next]_vars, NEW c \in Cars,
         car'[c].at = "OUT", car[c].at # "OUT", ~hist[c].returned
  PROVE  hist[c].outSince # 0 /\ now' - hist[c].outSince > OutThreshold
<1>1. TypeOK /\ CarOK(c)
  BY IInvParts
<1>2. CASE car' = car
  BY <1>2
<1>3. ASSUME NEW S \in SUBSET Cars, NEW msg \in [S -> Reports], ProcessStatePayload(msg)
      PROVE  hist[c].outSince # 0 /\ now' - hist[c].outSince > OutThreshold
  <2>1. DOMAIN msg = S /\ S \subseteq known /\ now' = now + 1
    BY <1>3 DEF ProcessStatePayload
  <2>2. car'[c] = IF c \in S THEN NextCar(c, msg[c]) ELSE car[c]
    BY <1>3, <2>1 DEF ProcessStatePayload
  <2>3. c \in S /\ c \in known /\ msg[c] \in Reports /\ NextCar(c, msg[c]).at = "OUT"
    BY <2>1, <2>2
  <2> QED
    BY <1>1, <2>1, <2>3, ReportKeepsCar
<1>4. car' = car \/ \E S \in SUBSET Cars : \E msg \in [S -> Reports] : ProcessStatePayload(msg)
  BY DEF Next, NewSession, ProcessCarPayload, ProcessStatePanic, vars
<1> QED
  BY <1>2, <1>3, <1>4

\* A car is taken for out only after it was missing for longer than the
\* threshold, whatever sessions begin in between.
THEOREM OutAlwaysConfirmed == Spec => OutConfirmed
<1>1. IInv /\ [Next]_vars =>
        [\A c \in Cars :
           (car'[c].at = "OUT" /\ car[c].at # "OUT" /\ ~hist[c].returned)
             => hist[c].outSince # 0 /\ now' - hist[c].outSince > OutThreshold]_vars
  BY StepConfirms
<1> QED
  BY <1>1, Invariance, PTL DEF Spec, OutConfirmed
-----------------------------------------------------------------------------
(* What is written down stands.                                            *)

\* The finished stints and stops of a car stay, and a car that has finished
\* does not change.
KeepsSpans(c, n) ==
  /\ \A i \in DOMAIN c.stints : i \in DOMAIN n.stints /\ n.stints[i] = c.stints[i]
  /\ \A i \in DOMAIN c.stops : i \in DOMAIN n.stops /\ n.stops[i] = c.stops[i]
  /\ c.at = "FIN" => n = c

\* The i-th seat time of d began when all others had ended.
Latest(occ, d, i) ==
  \A e \in Drivers : \A j \in DOMAIN occ[e] :
    (e = d /\ j = i) \/ occ[e][j].leave <= occ[d][i].enter

\* Seat times stay, and only the latest one is prolonged.
KeepsSeats(occ, new) ==
  \A d \in Drivers : \A i \in DOMAIN occ[d] :
    /\ i \in DOMAIN new[d]
    /\ new[d][i].enter = occ[d][i].enter /\ new[d][i].leave >= occ[d][i].leave
    /\ new[d][i].leave = occ[d][i].leave \/ Latest(occ, d, i)

LEMMA ChangeKeepsSpans ==
  ASSUME NEW c \in CarType, NEW m \in Reports, NEW t \in Nat, NEW s \in Nat, NEW u \in Nat,
         InThePast(c, u)
  PROVE  KeepsSpans(c, HandleComputeState(c, m, t, s))
<1> DEFINE n == HandleComputeState(c, m, t, s)
<1>1. Changes(c, n, t)
  BY Transition
<1>2. c.at = "FIN" => n = c
  BY DEF HandleComputeState
<1>3. c.stints \in Seq(SpanType) /\ c.stops \in Seq(SpanType)
  BY DEF CarType
<1>4. /\ n.stints = c.stints \/ \E x \in SpanType : n.stints = Append(c.stints, x)
      /\ n.stops = c.stops \/ \E x \in SpanType : n.stops = Append(c.stops, x)
  <2>1. c.at = "INIT" => c.stints = <<>>
    BY DEF InThePast
  <2> HIDE DEF n
  <2> QED
    BY <1>1, <2>1 DEF Changes, Goes, Ends, StartsStint, StartsStop, EndsStint, EndsStop, SameHistory
<1> HIDE DEF n
<1>5. ASSUME NEW old \in Seq(SpanType), NEW new,
             new = old \/ \E x \in SpanType : new = Append(old, x)
      PROVE  \A i \in DOMAIN old : i \in DOMAIN new /\ new[i] = old[i]
  <2>1. CASE new = old
    BY <2>1
  <2>2. ASSUME NEW x \in SpanType, new = Append(old, x)
        PROVE  \A i \in DOMAIN old : i \in DOMAIN new /\ new[i] = old[i]
    BY <2>2, AppendFacts
  <2> QED
    BY <1>5, <2>1, <2>2
<1> QED
  BY <1>2, <1>3, <1>4, <1>5 DEF KeepsSpans, n

\* Entering adds a seat time, leaving prolongs the last one of its driver.
LEMMA SeatsKept ==
  ASSUME NEW occ, NEW new, NEW u \in Nat, NEW t \in Nat, u <= t, Fine(occ, u),
         \A d \in Drivers : \/ new[d] = occ[d]
                            \/ new[d] = Enter(occ[d], t)
                            \/ Seated(occ, d) /\ new[d] = Leave(occ[d], t)
  PROVE  KeepsSeats(occ, new)
<1> SUFFICES ASSUME NEW d \in Drivers, NEW i \in DOMAIN occ[d]
             PROVE  /\ i \in DOMAIN new[d]
                    /\ new[d][i].enter = occ[d][i].enter /\ new[d][i].leave >= occ[d][i].leave
                    /\ new[d][i].leave = occ[d][i].leave \/ Latest(occ, d, i)
  BY DEF KeepsSeats
<1>1. occ \in Seats /\ occ[d] \in Seq(SeatType)
  BY DEF Fine, Seats
<1>2. /\ occ[d][i].enter \in Nat /\ occ[d][i].leave \in Nat
      /\ occ[d][i].leave <= u
  BY <1>1, SeatFacts DEF Fine, SeatsInThePast
<1>3. CASE new[d] = occ[d]
  BY <1>2, <1>3
<1>4. CASE new[d] = Enter(occ[d], t)
  <2> DEFINE e == Enter(occ[d], t)
  <2>1. i \in DOMAIN e /\ e[i] = occ[d][i]
    <3> DEFINE times == occ[d]
    <3>1. times \in Seq(SeatType) /\ i \in DOMAIN times
      BY <1>1
    <3> HIDE DEF times
    <3>2. /\ Len(times) \in Nat /\ DOMAIN times = 1 .. Len(times)
          /\ DOMAIN e = 1 .. Len(times) + 1
          /\ \A k \in DOMAIN times : e[k] = times[k]
      BY <3>1, EnterFacts DEF times
    <3> HIDE DEF e
    <3> QED
      BY <3>1, <3>2 DEF times
  <2>2. new[d] = e
    BY <1>4
  <2> HIDE DEF e
  <2> QED
    BY <1>2, <2>1, <2>2
<1>5. CASE Seated(occ, d) /\ new[d] = Leave(occ[d], t)
  <2>1. occ[d] # <<>>
    BY <1>5 DEF Seated
  <2> DEFINE l == Leave(occ[d], t)
  <2>2. /\ i \in DOMAIN l /\ l[i].enter = occ[d][i].enter
        /\ i # Len(occ[d]) => l[i] = occ[d][i]
        /\ i = Len(occ[d]) => l[i].leave = t
    <3> DEFINE times == occ[d]
    <3>1. times \in Seq(SeatType) /\ times # <<>> /\ i \in DOMAIN times
      BY <1>1, <2>1
    <3> HIDE DEF times
    <3>2. /\ DOMAIN l = DOMAIN times
          /\ \A k \in DOMAIN times : l[k].enter = times[k].enter
          /\ \A k \in DOMAIN times : k # Len(times) => l[k] = times[k]
          /\ l[Len(times)].leave = t
      BY <3>1, LeaveFacts DEF times
    <3> HIDE DEF l
    <3> QED
      BY <3>1, <3>2 DEF times
  <2>3. new[d] = l
    BY <1>5
  <2>4. i = Len(occ[d]) => Latest(occ, d, i)
    BY <1>5 DEF Seated, Latest
  <2> HIDE DEF l
  <2> QED
    BY <1>2, <2>2, <2>3, <2>4
<1> QED
  BY <1>3, <1>4, <1>5

\* Until somebody has the car there is nothing to keep.
LEMMA NothingToKeep ==
  ASSUME NEW occ, NEW new, ~Occupied(occ)
  PROVE  KeepsSeats(occ, new)
<1>1. \A d \in Drivers : DOMAIN occ[d] = {}
  <2>1. \A d \in Drivers : occ[d] = <<>>
    BY DEF Occupied
  <2> QED
    BY <2>1
<1> QED
  BY <1>1 DEF KeepsSeats

\* Who is marked or leaves has the latest seat time.
LEMMA Leaver ==
  ASSUME NEW c \in Cars, CarOK(c), NEW d \in Drivers, drivers[c] = d, seats[c][d] # <<>>
  PROVE  Seated(seats[c], d)
BY OneIsLatest DEF CarOK, SeatsOK, Fine

LEMMA StepKeepsSeats ==
  ASSUME IInv, [Next]_vars, NEW c \in Cars
  PROVE  KeepsSeats(seats[c], seats'[c])
<1>1. TypeOK /\ CarOK(c)
  BY IInvParts
<1>2. now \in Nat /\ now + 1 \in Nat /\ now <= now + 1
  BY <1>1 DEF TypeOK
<1>3. Fine(seats[c], now) /\ seats[c] \in Seats
  BY <1>1 DEF CarOK, SeatsOK, Fine
<1> DEFINE Entered(d) == seats'[c][d] = Enter(seats[c][d], now + 1)
           Left(d) == Seated(seats[c], d) /\ seats'[c][d] = Leave(seats[c][d], now + 1)
<1>4. (\A d \in Drivers : seats'[c][d] = seats[c][d] \/ Entered(d) \/ Left(d))
        => KeepsSeats(seats[c], seats'[c])
  BY <1>2, <1>3, SeatsKept
<1>5. CASE seats'[c] = seats[c]
  BY <1>4, <1>5
<1>6. ASSUME NEW S \in SUBSET Cars, NEW current \in [S -> Drivers], ProcessCarPayload(current),
             race, c \in S
      PROVE  KeepsSeats(seats[c], seats'[c])
  <2>1. DOMAIN current = S /\ current[c] \in Drivers
    BY <1>6
  <2>2. seats'[c] = UpdateCarInfo(seats[c], drivers[c], current[c], now + 1)
    BY <1>6, <2>1 DEF ProcessCarPayload, PreviousDriver
  <2> SUFFICES ASSUME NEW d \in Drivers
               PROVE  seats'[c][d] = seats[c][d] \/ Entered(d) \/ Left(d)
    BY <1>4
  <2>3. \/ seats'[c][d] = seats[c][d]
        \/ Entered(d)
        \/ (drivers[c] = d /\ seats[c][d] # <<>> /\ seats'[c][d] = Leave(seats[c][d], now + 1))
    BY <2>2 DEF UpdateCarInfo
  <2> QED
    BY <1>1, <2>3, Leaver
<1>7. ASSUME NEW S \in SUBSET Cars, NEW msg \in [S -> Reports], ProcessStatePayload(msg), c \in S
      PROVE  KeepsSeats(seats[c], seats'[c])
  <2>1. DOMAIN msg = S /\ S \subseteq known /\ drivers[c] \in Drivers
    BY <1>1, <1>7 DEF ProcessStatePayload, TypeOK
  <2>2. seats'[c] = NextSeats(c, msg[c])
    BY <1>7, <2>1 DEF ProcessStatePayload
  <2>3. CASE ~Occupied(seats[c])
    BY <2>3, NothingToKeep
  <2>4. CASE Occupied(seats[c])
    <3>1. \/ seats'[c] = seats[c]
          \/ /\ seats[c][drivers[c]] # <<>>
             /\ seats'[c] = [seats[c] EXCEPT ![drivers[c]] = Leave(@, now + 1)]
      BY <2>2, <2>4 DEF NextSeats, EnsureCarOccupancy, MarkSeatTime
    <3>2. ASSUME NEW d \in Drivers
          PROVE  seats'[c][d] = seats[c][d] \/ Left(d)
      BY <1>1, <1>3, <2>1, <3>1, Leaver DEF Seats
    <3> QED
      BY <1>4, <3>2
  <2> QED
    BY <2>3, <2>4
<1>8. ASSUME NEW S \in SUBSET Cars, ProcessStatePanic(S)
      PROVE  KeepsSeats(seats[c], seats'[c])
  <2>1. \/ seats'[c] = seats[c]
        \/ seats'[c] = EnsureCarOccupancy(seats[c], drivers[c], now + 1)
    BY <1>8 DEF ProcessStatePanic
  <2> QED
    BY <1>5, <2>1, NothingToKeep DEF EnsureCarOccupancy
<1>9. \/ seats'[c] = seats[c]
      \/ \E S \in SUBSET Cars :
           \/ \E current \in [S -> Drivers] : ProcessCarPayload(current) /\ race /\ c \in S
           \/ \E msg \in [S -> Reports] : ProcessStatePayload(msg) /\ c \in S
           \/ ProcessStatePanic(S)
  <2>1. NewSession \/ UNCHANGED vars => seats' = seats
    BY DEF NewSession, vars
  <2>2. ASSUME NEW S \in SUBSET Cars, NEW current \in [S -> Drivers], ProcessCarPayload(current)
        PROVE  (race /\ c \in S) \/ seats'[c] = seats[c]
    BY <2>2 DEF ProcessCarPayload
  <2>3. ASSUME NEW S \in SUBSET Cars, NEW msg \in [S -> Reports], ProcessStatePayload(msg)
        PROVE  c \in S \/ seats'[c] = seats[c]
    BY <2>3 DEF ProcessStatePayload
  <2> QED
    BY <2>1, <2>2, <2>3 DEF Next
<1> HIDE DEF Entered, Left
<1> QED
  BY <1>5, <1>6, <1>7, <1>8, <1>9

LEMMA StepKeepsSpans ==
  ASSUME IInv, [Next]_vars, NEW c \in Cars
  PROVE  KeepsSpans(car[c], car'[c])
<1>1. TypeOK /\ CarOK(c)
  BY IInvParts
<1>2. CASE car'[c] = car[c]
  BY <1>2 DEF KeepsSpans
<1>3. ASSUME NEW S \in SUBSET Cars, NEW msg \in [S -> Reports], ProcessStatePayload(msg), c \in S
      PROVE  KeepsSpans(car[c], car'[c])
  <2>1. DOMAIN msg = S /\ msg[c] \in Reports /\ car[c] \in CarType /\ InThePast(car[c], now)
    BY <1>1, <1>3 DEF TypeOK, CarOK, SpansOK
  <2>2. car'[c] = HandleComputeState(car[c], msg[c], now + 1, (now + 1) - start)
    BY <1>3, <2>1 DEF ProcessStatePayload, NextCar
  <2>3. now \in Nat /\ now + 1 \in Nat /\ (now + 1) - start \in Nat
    BY <1>1 DEF TypeOK
  <2> QED
    BY <2>1, <2>2, <2>3, ChangeKeepsSpans
<1>4. ASSUME NEW S \in SUBSET Cars, NEW msg \in [S -> Reports], ProcessStatePayload(msg), c \notin S
      PROVE  car'[c] = car[c]
  BY <1>4 DEF ProcessStatePayload
<1>5. car' = car \/ \E S \in SUBSET Cars : \E msg \in [S -> Reports] : ProcessStatePayload(msg)
  BY DEF Next, NewSession, ProcessCarPayload, ProcessStatePanic, vars
<1> QED
  BY <1>2, <1>3, <1>4, <1>5

(***************************************************************************)
(* What the analysis has told its readers stands: no message, also none    *)
(* that names an unknown car or begins a session, changes a finished stint *)
(* or stop, moves the beginning of a seat time, or prolongs one after      *)
(* which somebody else has entered; a car that has finished stays as it    *)
(* was.                                                                    *)
(***************************************************************************)
THEOREM HistoryStands ==
  Spec => [][\A c \in Cars : /\ KeepsSpans(car[c], car'[c])
                             /\ KeepsSeats(seats[c], seats'[c])]_vars
<1>1. IInv /\ [Next]_vars =>
        [\A c \in Cars : /\ KeepsSpans(car[c], car'[c])
                         /\ KeepsSeats(seats[c], seats'[c])]_vars
  BY StepKeepsSpans, StepKeepsSeats
<1> QED
  BY <1>1, Invariance, PTL DEF Spec
=============================================================================
