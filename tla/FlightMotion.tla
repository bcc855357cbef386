---------------------------- MODULE FlightMotion ----------------------------
(***************************************************************************)
(* How an aircraft moves between two anchors, what the predictor says of   *)
(* it, and how two of them are assessed: closest approach, status, risk    *)
(* and the operational priority of one aircraft.                           *)
(*                                                                         *)
(* Integers stand for the floats: a compass of twelve points whose vectors *)
(* have integer coordinates, and times of closest approach kept as exact   *)
(* fractions n / d.  Lengths, heights and times are in units of the        *)
(* configuration.                                                          *)
(***************************************************************************)
EXTENDS Integers, Sequences, FiniteSets

CONSTANTS
  Near, NearMargin,        \* horizontal minimum, and the one that is still near
  Below, BelowMargin,      \* vertical minimum, likewise
  CriticalTime, HighTime   \* times to closest approach

(* What the constructors of the two profiles demand. *)
RuleAccepted == {Near, Below} \subseteq Nat \ {0}
RiskProfileAccepted ==
  /\ {NearMargin, BelowMargin, CriticalTime, HighTime} \subseteq Nat \ {0}
  /\ Near <= NearMargin /\ Below <= BelowMargin /\ CriticalTime < HighTime

ASSUME MinimaAssumption == RuleAccepted /\ RiskProfileAccepted

(* Headings, clockwise from north: all of length five. *)
Compass == << <<0, 5>>, <<3, 4>>, <<4, 3>>, <<5, 0>>, <<4, -3>>, <<3, -4>>,
              <<0, -5>>, <<-3, -4>>, <<-4, -3>>, <<-5, 0>>, <<-4, 3>>, <<-3, 4>> >>
Points == Len(Compass)

Normalized(heading) == ((heading - 1) % Points) + 1
Turn(from, to) ==
  LET difference == IF from <= to THEN to - from ELSE from - to
  IN  IF difference <= Points - difference THEN difference ELSE Points - difference

Velocity(s) == <<s.speed * Compass[s.heading][1], s.speed * Compass[s.heading][2]>>

-----------------------------------------------------------------------------
(* Constant motion from a state to time t. *)
Advanced(s, t) ==
  [s EXCEPT !.at = t,
            !.x = @ + Velocity(s)[1] * (t - s.at),
            !.y = @ + Velocity(s)[2] * (t - s.at),
            !.alt = @ + s.climb * (t - s.at)]

(* A recorded state may be older than the snapshot it is in. *)
Aligned(s, t) == IF s.at = t THEN s ELSE Advanced(s, t)

(* One point for each horizon after the reference time, which need not be  *)
(* the time of the state.                                                   *)
TrajectoryPoint(t, x, y, alt) == [at |-> t, x |-> x, y |-> y, alt |-> alt]

PredictedPoint(s, reference, h) ==
  LET elapsed == reference + h - s.at
  IN  TrajectoryPoint(reference + h, s.x + Velocity(s)[1] * elapsed,
                      s.y + Velocity(s)[2] * elapsed, s.alt + s.climb * elapsed)

\* Variant: the climb is left out.
PredictedLevel(s, reference, horizons) ==
  {PredictedPoint([s EXCEPT !.climb = 0], reference, h) : h \in horizons}

Predicted(s, reference, horizons) == {PredictedPoint(s, reference, h) : h \in horizons}

-----------------------------------------------------------------------------
(* Closest horizontal approach of two states of one time, within a horizon. *)
Relative(s, t) ==
  [x |-> t.x - s.x, y |-> t.y - s.y, z |-> t.alt - s.alt,
   vx |-> Velocity(t)[1] - Velocity(s)[1], vy |-> Velocity(t)[2] - Velocity(s)[2],
   vz |-> t.climb - s.climb]

\* Variant: closest approach is where the pair is now or at the horizon.
TimeOfApproachAtEnds(r, horizon) ==
  IF r.x * r.vx + r.y * r.vy >= 0 THEN <<0, 1>> ELSE <<horizon, 1>>

TimeOfApproach(r, horizon) ==
  LET square == r.vx * r.vx + r.vy * r.vy
      closing == -(r.x * r.vx + r.y * r.vy)
  IN  IF closing <= 0 THEN <<0, 1>>
      ELSE IF closing > horizon * square THEN <<horizon, 1>>
      ELSE <<closing, square>>

Magnitude(i) == IF i < 0 THEN -i ELSE i

(* The distance squared as a fraction: at a time within the horizon the    *)
(* relative position is at right angles to the relative velocity.          *)
SquaredDistance(r, time) ==
  IF time[2] = 1
  THEN LET x == r.x + r.vx * time[1]
           y == r.y + r.vy * time[1]
       IN  <<x * x + y * y, 1>>
  ELSE LET cross == r.x * r.vy - r.y * r.vx IN <<cross * cross, time[2]>>

ClosestApproach(s, t, horizon) ==
  LET r == Relative(s, t)
      time == TimeOfApproach(r, horizon)
  IN  [time |-> time,
       distance |-> SquaredDistance(r, time),
       height |-> <<Magnitude(r.z * time[2] + r.vz * time[1]), time[2]>>]

Within(approach, near, below) ==
  /\ approach.distance[1] < near * near * approach.distance[2]
  /\ approach.height[1] < below * approach.height[2]

Status(approach) == IF Within(approach, Near, Below) THEN "PREDICTED" ELSE "SAFE"

(* Every pair of the states once, each with its own event. *)
Event(s, t, horizon) ==
  LET approach == ClosestApproach(s, t, horizon)
  IN  [at |-> s.at, time |-> approach.time, status |-> Status(approach),
       near |-> Within(approach, NearMargin, BelowMargin)]

PairsOf(states) == {p \in SUBSET DOMAIN states : Cardinality(p) = 2}
EventOf(states, p, horizon) ==
  LET a == CHOOSE c \in p : TRUE
      b == CHOOSE c \in p : c # a
  IN  Event(states[a], states[b], horizon)
Assessed(states, horizon) == [p \in PairsOf(states) |-> EventOf(states, p, horizon)]

(* What the constructors of an event and of its run demand. *)
EventAccepted(e) == e.time[1] >= 0 /\ e.time[2] > 0

RunAccepted(run, horizon) ==
  \A p \in DOMAIN run.events :
    /\ EventAccepted(run.events[p])
    /\ run.events[p].at = run.at
    /\ run.events[p].time[1] <= horizon * run.events[p].time[2]

-----------------------------------------------------------------------------
(* Risk of an event, and its order. *)
RiskOf(e) ==
  IF e.status = "PREDICTED"
  THEN IF e.time[1] <= CriticalTime * e.time[2] THEN "CRITICAL"
       ELSE IF e.time[1] <= HighTime * e.time[2] THEN "HIGH"
       ELSE "MEDIUM"
  ELSE IF e.near THEN "MEDIUM" ELSE "LOW"

RiskRank == [LOW |-> 0, MEDIUM |-> 1, HIGH |-> 2, CRITICAL |-> 3]

(* Priority of one aircraft from the events due at its state's own time. *)
PriorityOf(a, s, events) ==
  LET due(type) == \E i \in DOMAIN events :
                     /\ events[i].target = a /\ events[i].type = type
                     /\ events[i].at <= s.at
  IN  IF s.emergency \/ due("EMERGENCY_DECLARED") THEN "EMERGENCY"
      ELSE IF due("ENTRY_CONFORMANCE_DEVIATION") THEN "ATTENTION"
      ELSE "ROUTINE"

(* Kept apart: the rule the assessments are about, of two present states. *)
Separated(s, t) ==
  \/ (s.x - t.x) * (s.x - t.x) + (s.y - t.y) * (s.y - t.y) >= Near * Near
  \/ Magnitude(s.alt - t.alt) >= Below
=============================================================================
