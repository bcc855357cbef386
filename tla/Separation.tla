----------------------------- MODULE Separation -----------------------------
(***************************************************************************)
(* The separation rules every other part of the regulation library asks:   *)
(* radar minimum with the formation extra, wake turbulence in trail,       *)
(* priority of an emergency, the ladder of assigned altitudes, and the     *)
(* ownership of airspace.  Pure operators over the figures transcribed in  *)
(* regulation/reference/airspace.json (nautical miles, feet).              *)
(***************************************************************************)
EXTENDS Integers, Sequences, FiniteSets

(* Wake categories: super, heavy, medium, light. *)
Categories == {"J", "H", "M", "S"}

Weight == [J |-> 3, H |-> 2, M |-> 1, S |-> 0]

RadarMinimum == 3
VerticalMinimum == 1000
LateralGate == 2500
BelowGate == 1000

(* Minima in flight (5-5-4 sa): a pair that is not in the table needs none. *)
InFlight(l, f) ==
  CASE l = "J" /\ f = "H" -> 5
    [] l = "J" /\ f = "M" -> 7
    [] l = "J" /\ f = "S" -> 8
    [] l = "H" /\ f = "H" -> 4
    [] l = "H" /\ f \in {"M", "S"} -> 5
    [] OTHER -> 0

(* Additional minima behind an aircraft landing on the same runway (5-5-4 a). *)
Landing(l, f) ==
  CASE l = "M" /\ f = "S" -> 4
    [] l = "H" /\ f = "S" -> 6
    [] OTHER -> 0

Larger(a, b) == IF a >= b THEN a ELSE b

(* "In addition to": the larger of the two tables. *)
WakeByCategory(l, f, sameRunway) ==
  Larger(InFlight(l, f), IF sameRunway THEN Landing(l, f) ELSE 0)

(* The follower is on the leader's path: within the lateral gate and not a  *)
(* thousand feet or more below.  Above the leader counts.                   *)
WakeGeometryGate(offset, below) == offset <= LateralGate /\ below < BelowGate

WakeInTrail(l, f, offset, below, sameRunway) ==
  IF WakeGeometryGate(offset, below)
  THEN WakeByCategory(l, f, sameRunway)
  ELSE IF sameRunway THEN Landing(l, f) ELSE 0

(* In whole miles: the tolerance of a ten-thousandth of one does not show. *)
WakeViolation(l, f, offset, below, sameRunway, actual) ==
  LET required == WakeInTrail(l, f, offset, below, sameRunway)
  IN  required > 0 /\ actual < required

FormationExtra(fa, fb) == IF fa /\ fb THEN 2 ELSE IF fa \/ fb THEN 1 ELSE 0

(* The reduced minimum on final is a switch the transcribed data keeps off: *)
(* 2.5 NM for a leader that is not heavier; in tenths of a mile.            *)
ReducedFinalAllowed(l, f) == Weight[l] <= Weight[f]

SeparationStandard(l, f, fa, fb, onFinal, reducedEnabled) ==
  10 * FormationExtra(fa, fb) +
  IF onFinal /\ reducedEnabled /\ ReducedFinalAllowed(l, f)
  THEN 25 ELSE 10 * RadarMinimum

(* The detector's profile: an aircraft whose category is unknown gets the   *)
(* unconditional minimum, which is never the reduced one.                   *)
Unknown == "unknown"
ThresholdsFor(l, f, fa, fb) ==
  <<IF Unknown \in {l, f} THEN 10 * RadarMinimum
    ELSE SeparationStandard(l, f, fa, fb, FALSE, FALSE),
    VerticalMinimum>>

(* In-trail distance an arrival needs behind the one before it. *)
RequiredInTrail(l, f, fa, fb) ==
  Larger(RadarMinimum + FormationExtra(fa, fb), WakeByCategory(l, f, TRUE))

PriorityRank(emergency) == IF emergency THEN 0 ELSE 1

(* The n-th arrival (from 0) flies a level of the ladder; behind the last   *)
(* one all share the top and belong to the upper sector.                    *)
AssignedLevel(ladder, n) == ladder[IF n < Len(ladder) THEN n + 1 ELSE Len(ladder)]
LadderExhausted(ladder, n) == n >= Len(ladder)

(* Cruising level by direction: odd thousands for 0..179 magnetic. *)
OddRequired(magnetic) == magnetic % 360 < 180
CruiseLevel(magnetic, floor) ==
  LET k == (floor + 999) \div 1000
  IN  1000 * (IF (k % 2 = 1) # OddRequired(magnetic) THEN k + 1 ELSE k)
(* To the nearest thousand; halfway to the even one. *)
Thousands(alt) ==
  LET k == alt \div 1000
  IN  IF alt % 1000 > 500 \/ (alt % 1000 = 500 /\ k % 2 = 1) THEN k + 1 ELSE k
DirectionOfFlightOk(magnetic, alt) == (Thousands(alt) % 2 = 1) = OddRequired(magnetic)
=============================================================================
