---------------------------- MODULE AirfieldProofs ----------------------------
(***************************************************************************)
(* What is proved of the arrivals at the airfield.                         *)
(* Of the arrival sequence (ArrivalSequence): the gap between two arrivals *)
(* keeps them in trail on the whole final course and out of each other's   *)
(* wake; the search keeps its limit, an emergency's place and the time     *)
(* everyone has landed; no schedule brings two arrivals too close; and an  *)
(* emergency put in costs only those behind it.                            *)
(* Of the sortie (RouteSearch, SortieDay, Playback): the way home is the   *)
(* shortest; the emergency has the runway first and nobody loses it; who   *)
(* is held is apart; and playback shows the day.                           *)
(* Times and lengths are recursive: that each recursion has a solution,    *)
(* and what it keeps, is shown by induction on the place (NaturalOrder).   *)
(***************************************************************************)
EXTENDS ArrivalSequence, Playback, RunwayProofs

-----------------------------------------------------------------------------
(* The arrival sequence.                                                    *)

LEMMA WakeBounds ==
  ASSUME NEW l \in Categories, NEW f \in Categories, NEW same \in BOOLEAN
  PROVE  /\ WakeByCategory(l, f, same) \in Nat
         /\ WakeByCategory(l, f, same) <= WakeByCategory(l, f, TRUE)
         /\ Landing(l, f) <= WakeByCategory(l, f, TRUE)
  BY DEF Categories, WakeByCategory, Larger, InFlight, Landing

LEMMA RequiredIsNat ==
  ASSUME NEW l \in Categories, NEW f \in Categories, NEW fa \in BOOLEAN, NEW fb \in BOOLEAN
  PROVE  /\ RequiredInTrail(l, f, fa, fb) \in Nat
         /\ RequiredInTrail(l, f, fa, fb) >= WakeByCategory(l, f, TRUE)
         /\ RequiredInTrail(l, f, fa, fb) >= RadarMinimum
<1> DEFINE w == WakeByCategory(l, f, TRUE)
<1>1. w \in Nat
  BY DEF Categories, WakeByCategory, Larger, InFlight, Landing
<1>2. PICK m \in Nat : m = RadarMinimum + FormationExtra(fa, fb) /\ m >= RadarMinimum
  BY DEF FormationExtra, RadarMinimum
<1>3. RequiredInTrail(l, f, fa, fb) = Larger(m, w)
  BY <1>2 DEF RequiredInTrail
<1> HIDE DEF w
<1>4. Larger(m, w) \in Nat /\ Larger(m, w) >= w /\ Larger(m, w) >= RadarMinimum
  BY <1>1, <1>2 DEF Larger, RadarMinimum
<1>5. QED
  BY <1>3, <1>4 DEF w

LEMMA KindIsTyped ==
  ASSUME NEW a \in Arriving
  PROVE  /\ Kind[a].wake \in Categories /\ Kind[a].formation \in BOOLEAN
         /\ Kind[a].pace \in Nat /\ Kind[a].occupancy + RunwayBuffer \in Nat
<1>1. Kind[a].occupancy \in Nat /\ RunwayBuffer \in Nat
  BY ArrivalAssumption
<1>2. Kind[a].occupancy + RunwayBuffer \in Nat
  BY <1>1
<1>3. Kind[a].wake \in Categories /\ Kind[a].formation \in BOOLEAN /\ Kind[a].pace \in Nat
  BY ArrivalAssumption
<1>4. QED
  BY <1>2, <1>3

LEMMA TrailIsNat ==
  ASSUME NEW l \in Arriving, NEW f \in Arriving
  PROVE  Trail(l, f) \in Nat
<1>1. /\ Kind[l].wake \in Categories /\ Kind[f].wake \in Categories
      /\ Kind[l].formation \in BOOLEAN /\ Kind[f].formation \in BOOLEAN
  BY KindIsTyped
<1>2. QED
  BY <1>1, RequiredIsNat DEF Trail

(* An arrival spaced as the sequencer asks (gap_requirement) is never in    *)
(* breach of the wake minima the detector looks for (wake_violation),       *)
(* wherever it flies relative to the leader's path.                         *)
THEOREM SpacingKeepsWake ==
  ASSUME NEW l \in Categories, NEW f \in Categories, NEW same \in BOOLEAN,
         NEW fa \in BOOLEAN, NEW fb \in BOOLEAN,
         NEW offset \in Nat, NEW below \in Int, NEW actual \in Nat,
         actual >= RequiredInTrail(l, f, fa, fb)
  PROVE  ~ WakeViolation(l, f, offset, below, same, actual)
<1>1. WakeInTrail(l, f, offset, below, same) \in Nat
  BY WakeBounds DEF WakeInTrail, Landing, Categories
<1>2. WakeInTrail(l, f, offset, below, same) <= WakeByCategory(l, f, TRUE)
  BY DEF Categories, WakeInTrail, WakeByCategory, Larger, InFlight, Landing
<1>3. WakeByCategory(l, f, TRUE) \in Nat
  BY DEF Categories, WakeByCategory, Larger, InFlight, Landing
<1>4. /\ RequiredInTrail(l, f, fa, fb) \in Nat
      /\ RequiredInTrail(l, f, fa, fb) >= WakeByCategory(l, f, TRUE)
  BY RequiredIsNat
<1>5. actual >= WakeInTrail(l, f, offset, below, same)
  <2> DEFINE w == WakeByCategory(l, f, TRUE)
             r == RequiredInTrail(l, f, fa, fb)
             t == WakeInTrail(l, f, offset, below, same)
  <2>1. /\ w \in Nat /\ r \in Nat /\ t \in Nat
        /\ r >= w /\ t <= w /\ actual >= r
    BY <1>1, <1>2, <1>3, <1>4
  <2> HIDE DEF w, r, t
  <2>2. actual >= t
    BY <2>1
  <2>3. QED
    BY <2>2 DEF t
<1>6. QED
  BY <1>1, <1>5 DEF WakeViolation

(* A pair of which something is unknown is given the unconditional minimum, *)
(* and no known pair is given less (RegulatorySeparationProfile).           *)
THEOREM NeverBelowUnconditional ==
  ASSUME NEW l \in Categories \cup {Unknown}, NEW f \in Categories \cup {Unknown},
         NEW fa \in BOOLEAN, NEW fb \in BOOLEAN
  PROVE  /\ ThresholdsFor(l, f, fa, fb)[1] >= ThresholdsFor(Unknown, f, fa, fb)[1]
         /\ ThresholdsFor(l, f, fa, fb)[2] = VerticalMinimum
  BY DEF ThresholdsFor, SeparationStandard, FormationExtra, RadarMinimum, Unknown,
         VerticalMinimum

(* The level given to a departure (cruise_altitude_ft) is not below the     *)
(* floor asked for, less than two thousand feet above it, and one the check *)
(* of levels by direction (direction_of_flight_altitude_ok) accepts.        *)
THEOREM CruiseLevelIsLegal ==
  ASSUME NEW magnetic \in Nat, NEW floor \in Nat
  PROVE  /\ CruiseLevel(magnetic, floor) >= floor
         /\ CruiseLevel(magnetic, floor) < floor + 2000
         /\ DirectionOfFlightOk(magnetic, CruiseLevel(magnetic, floor))
<1> DEFINE k == (floor + 999) \div 1000
           n == IF (k % 2 = 1) # OddRequired(magnetic) THEN k + 1 ELSE k
<1>1. k \in Nat /\ 1000 * k >= floor /\ 1000 * k < floor + 1000
  OBVIOUS
<1>2. n \in Nat /\ 1000 * n >= floor /\ 1000 * n < floor + 2000
  BY <1>1
<1>3. OddRequired(magnetic) \in BOOLEAN
  BY DEF OddRequired
<1>4. (n % 2 = 1) = OddRequired(magnetic)
  <2> HIDE DEF k
  <2>1. CASE (k % 2 = 1) = OddRequired(magnetic)
    BY <2>1
  <2>2. CASE (k % 2 = 1) # OddRequired(magnetic)
    <3>1. n = k + 1
      BY <2>2
    <3>2. (n % 2 = 1) = ~ (k % 2 = 1)
      BY <3>1, <1>1
    <3>3. QED
      BY <3>2, <2>2, <1>3
  <2>3. QED
    BY <2>1, <2>2
<1>5. Thousands(1000 * n) = n
  <2> HIDE DEF n
  <2>1. (1000 * n) \div 1000 = n /\ (1000 * n) % 1000 = 0
    BY <1>2
  <2>2. QED
    BY <2>1 DEF Thousands
<1>6. CruiseLevel(magnetic, floor) = 1000 * n
  BY DEF CruiseLevel
<1>7. QED
  BY <1>2, <1>4, <1>5, <1>6 DEF DirectionOfFlightOk
-----------------------------------------------------------------------------
LEMMA MoreTimes ==
  ASSUME NEW a \in Int, NEW b \in Int, NEW c \in Nat, a <= b
  PROVE  a * c <= b * c
  OBVIOUS

(* The gap the sequencer asks for keeps two arrivals in trail everywhere on *)
(* the final course, for every pair of speeds and every length of it: at    *)
(* the threshold when the follower is faster, at the join when the leader   *)
(* is (gap_requirement).                                                    *)
THEOREM GapKeepsInTrail ==
  ASSUME NEW l \in Arriving, NEW f \in Arriving, NEW gap \in Nat, gap >= Gap(l, f)
  PROVE  /\ KeptOnFinal(l, f, gap)
         /\ gap >= Kind[l].occupancy + RunwayBuffer
<1> DEFINE R == Trail(l, f)
           pl == Kind[l].pace
           pf == Kind[f].pace
<1>1. R \in Nat /\ pl \in Nat /\ pf \in Nat /\ pl > 0 /\ pf > 0 /\ Join \in Nat
       /\ Kind[l].occupancy + RunwayBuffer \in Nat
  <2>2. R \in Nat
    BY TrailIsNat
  <2>3. /\ pl \in Nat \ {0} /\ pf \in Nat \ {0} /\ Kind[l].occupancy \in Nat
        /\ Join \in Nat /\ RunwayBuffer \in Nat
    BY ArrivalAssumption
  <2> HIDE DEF R, pl, pf
  <2>4. QED
    BY <2>2, <2>3
<1>2. R * pf \in Int /\ R * pl + Join * (pf - pl) \in Int
  BY <1>1
<1>3. DistanceGap(l, f) = Larger(R * pf, R * pl + Join * (pf - pl))
  BY DEF DistanceGap
<1>4. DistanceGap(l, f) \in Int /\ DistanceGap(l, f) >= R * pf
       /\ DistanceGap(l, f) >= R * pl + Join * (pf - pl)
  <2> HIDE DEF R, pl, pf
  <2>1. QED
    BY <1>2, <1>3, LargerIsBound
<1>5. gap >= DistanceGap(l, f) /\ gap >= Kind[l].occupancy + RunwayBuffer
  <2>1. Gap(l, f) = Larger(DistanceGap(l, f), Kind[l].occupancy + RunwayBuffer)
    BY DEF Gap
  <2>2. /\ Gap(l, f) \in Int
        /\ Gap(l, f) >= DistanceGap(l, f)
        /\ Gap(l, f) >= Kind[l].occupancy + RunwayBuffer
    BY <1>1, <1>4, <2>1 DEF Larger
  <2>3. QED
    BY <1>1, <1>4, <2>2
<1>6. gap >= R * pf /\ gap >= R * pl + Join * (pf - pl)
  <2> HIDE DEF R, pl, pf
  <2>1. QED
    BY <1>2, <1>4, <1>5
<1>7. ASSUME NEW x \in 0 .. Join, x * pf >= gap
      PROVE  (x - R) * pl >= x * pf - gap
  <2> HIDE DEF R, pl, pf
  <2>1. x \in Nat /\ x <= Join /\ Join \in Nat
    BY <1>1
  <2>2. (x - R) * pl = x * pl - R * pl
    BY <1>1, <2>1
  <2>3. CASE pl <= pf
    <3>1. x * (pf - pl) <= Join * (pf - pl)
      BY <1>1, <2>1, <2>3, MoreTimes
    <3>2. x * (pf - pl) = x * pf - x * pl
      BY <1>1, <2>1
    <3>3. QED
      BY <1>1, <1>6, <2>1, <2>2, <3>1, <3>2
  <2>4. CASE pf < pl
    <3>1. x >= R
      <4>1. SUFFICES ASSUME x + 1 <= R PROVE FALSE
        BY <1>1, <2>1
      <4>2. (x + 1) * pf <= R * pf
        BY <1>1, <2>1, <4>1, MoreTimes
      <4>3. (x + 1) * pf = x * pf + pf
        BY <1>1, <2>1
      <4>4. QED
        BY <1>1, <1>2, <1>6, <1>7, <2>1, <4>2, <4>3
    <3>2. (x - R) * pl >= (x - R) * pf
      <4>1. x - R \in Nat /\ pl - pf \in Nat
        BY <1>1, <2>1, <2>4, <3>1
      <4>2. 0 * (pl - pf) <= (x - R) * (pl - pf)
        BY <4>1, MoreTimes
      <4>3. (x - R) * (pl - pf) = (x - R) * pl - (x - R) * pf
        BY <1>1, <2>1
      <4>4. QED
        BY <1>1, <2>1, <4>2, <4>3
    <3>3. (x - R) * pf = x * pf - R * pf
      BY <1>1, <2>1
    <3>4. QED
      BY <1>1, <1>2, <1>6, <2>1, <3>2, <3>3
  <2>5. QED
    BY <1>1, <2>3, <2>4
<1>8. QED
  BY <1>5, <1>7 DEF KeptOnFinal
-----------------------------------------------------------------------------
(* The search carries its schedule along and swaps only those who are in no *)
(* emergency.                                                               *)
SearchInv ==
  /\ \E kind, before, slots, subject :
       schedule = [kind |-> kind, before |-> before, slots |-> slots, subject |-> subject]
  /\ limit \in Nat
  /\ schedule.kind # "priority" =>
       /\ \E n \in Nat : order \in [1 .. n -> Arriving]
       /\ WithinShift(order)
       /\ DOMAIN order = DOMAIN Baseline
       /\ \A j \in DOMAIN order : \E i \in DOMAIN order : Baseline[i] = order[j]
       /\ \A e \in emergency, i \in DOMAIN order : order[i] = e <=> Baseline[i] = e

LEMMA InitSearch == ArrivalInit => SearchInv
<1> SUFFICES ASSUME ArrivalInit PROVE SearchInv
  OBVIOUS
<1>1. /\ Baseline = order /\ limit = 1
      /\ schedule = [kind |-> "fcfs", before |-> order, slots |-> Slots(order, Free), subject |-> None]
  BY DEF ArrivalInit, Baseline
<1>2. Cardinality(Arriving) \in Nat
  BY ArrivalAssumption, FS_CardinalityType
<1>3. /\ order \in [1 .. Cardinality(Arriving) -> Arriving]
      /\ \A i, j \in DOMAIN order : i < j => order[i] # order[j]
  BY DEF ArrivalInit, Ordered
<1>4. ASSUME NEW i \in DOMAIN order
      PROVE  PlaceOf(order, order[i]) = i
  <2>1. \A j \in DOMAIN order : order[j] = order[i] <=> j = i
    <3>1. DOMAIN order = 1 .. Cardinality(Arriving)
      BY <1>3
    <3>2. QED
      BY <1>2, <1>3, <1>4, <3>1
  <2>2. QED
    BY <2>1 DEF PlaceOf
<1>5. WithinShift(order)
  BY <1>1, <1>2, <1>3, <1>4 DEF WithinShift
<1>6. QED
  BY <1>1, <1>2, <1>3, <1>5 DEF SearchInv

LEMMA NextSearch == SearchInv /\ [ArrivalNext]_arrivalVars => SearchInv'
<1> SUFFICES ASSUME SearchInv, [ArrivalNext]_arrivalVars PROVE SearchInv'
  OBVIOUS
<1>1. CASE Improve
  <2>1. PICK i \in Improving : order' = Swapped(order, i)
    BY <1>1 DEF Improve
  <2>2. /\ schedule' = schedule /\ limit' = limit /\ emergency' = emergency
        /\ Baseline' = Baseline /\ schedule.kind # "priority"
    BY <1>1 DEF Improve, InSearch, Baseline
  <2>3. PICK n \in Nat : order \in [1 .. n -> Arriving]
    BY <2>2 DEF SearchInv
  <2>4. /\ i \in 1 .. Len(order) - 1
        /\ order[i] \notin emergency /\ order[i + 1] \notin emergency
        /\ WithinShift(Swapped(order, i))
    BY <2>1 DEF Improving
  <2>5. i \in 1 .. n /\ i + 1 \in 1 .. n
    <3>1. Len(order) = n
      BY <2>3
    <3>2. QED
      BY <2>3, <2>4, <3>1
  <2>6. /\ order' \in [1 .. n -> Arriving]
        /\ \A j \in 1 .. n : order'[j] = IF j = i + 1 THEN order[i]
                                        ELSE IF j = i THEN order[i + 1] ELSE order[j]
    BY <2>1, <2>3, <2>5 DEF Swapped
  <2>7. WithinShift(order)'
    BY <2>1, <2>2, <2>4 DEF WithinShift
  <2>8. DOMAIN order' = DOMAIN Baseline'
    BY <2>2, <2>3, <2>6 DEF SearchInv
  <2>9. \A e \in emergency, j \in DOMAIN order' : order'[j] = e <=> Baseline[j] = e
    <3>1. \A e \in emergency, j \in 1 .. n : order[j] = e <=> Baseline[j] = e
      BY <2>2, <2>3 DEF SearchInv
    <3>2. \A e \in emergency, j \in 1 .. n : order'[j] = e <=> order[j] = e
      BY <2>4, <2>5, <2>6
    <3>3. QED
      BY <2>6, <3>1, <3>2
  <2>10. \A j \in DOMAIN order' : \E k \in DOMAIN order' : Baseline[k] = order'[j]
    <3>1. \A j \in 1 .. n : \E k \in 1 .. n : Baseline[k] = order[j]
      BY <2>2, <2>3 DEF SearchInv
    <3>2. \A j \in 1 .. n : \E m \in 1 .. n : order'[j] = order[m]
      BY <2>5, <2>6
    <3>3. SUFFICES ASSUME NEW j \in 1 .. n
                   PROVE  \E k \in 1 .. n : Baseline[k] = order'[j]
      BY <2>6
    <3>4. PICK q \in 1 .. n : order'[j] = order[q]
      BY <3>2
    <3>5. QED
      BY <3>1, <3>4
  <2>11. QED
    BY <2>2, <2>6, <2>7, <2>8, <2>9, <2>10 DEF SearchInv
<1>2. CASE Widen
  <2>1. /\ limit' = limit + 1 /\ order' = order /\ schedule' = schedule
        /\ emergency' = emergency /\ Baseline' = Baseline
    BY <1>2 DEF Widen, Baseline
  <2>2. limit' \in Nat /\ (schedule.kind # "priority" => WithinShift(order)')
    <3>1. ASSUME schedule.kind # "priority" PROVE WithinShift(order)'
      <4>1. WithinShift(order)
        BY <3>1 DEF SearchInv
      <4>2. limit \in Nat
        BY DEF SearchInv
      <4>3. ASSUME NEW j \in DOMAIN order,
                   j - PlaceOf(Baseline, order[j]) <= limit,
                   -(j - PlaceOf(Baseline, order[j])) <= limit
            PROVE  /\ j - PlaceOf(Baseline, order[j]) <= limit + 1
                   /\ -(j - PlaceOf(Baseline, order[j])) <= limit + 1
        <5>1. PICK n \in Nat : order \in [1 .. n -> Arriving]
          BY <3>1 DEF SearchInv
        <5>2. \E i \in DOMAIN Baseline : Baseline[i] = order[j]
          BY <3>1, <4>3 DEF SearchInv
        <5>3. PlaceOf(Baseline, order[j]) \in DOMAIN Baseline
          BY <5>2 DEF PlaceOf
        <5>4. DOMAIN Baseline = 1 .. n
          BY <3>1, <5>1 DEF SearchInv
        <5>5. j \in Int /\ PlaceOf(Baseline, order[j]) \in Int
          BY <4>3, <5>1, <5>3, <5>4
        <5>6. QED
          BY <4>2, <4>3, <5>5
      <4>4. QED
        BY <2>1, <4>1, <4>3 DEF WithinShift
    <3>2. QED
      BY <2>1, <3>1 DEF SearchInv
  <2>3. QED
    BY <2>1, <2>2 DEF SearchInv
<1>3. CASE Finish
  <2>1. /\ limit' = limit /\ order' = order /\ emergency' = emergency
        /\ schedule' = [schedule EXCEPT !.kind = "optimised", !.slots = Slots(order, Free)]
        /\ schedule.kind = "fcfs"
    BY <1>3 DEF Finish
  <2>2. /\ schedule' = [kind |-> "optimised", before |-> schedule.before,
                        slots |-> Slots(order, Free), subject |-> schedule.subject]
        /\ schedule'.before = schedule.before
    BY <2>1 DEF SearchInv
  <2>3. Baseline' = Baseline
    BY <2>2 DEF Baseline
  <2>4. WithinShift(order)' <=> WithinShift(order)
    BY <2>1, <2>3 DEF WithinShift
  <2>5. QED
    BY <2>1, <2>2, <2>3, <2>4, ZenonT(40) DEF SearchInv
<1>4. ASSUME NEW e \in Arriving, Insert(e) PROVE SearchInv'
  <2>1. /\ limit' = limit /\ schedule'.kind = "priority"
        /\ \E before, slots : schedule' = [kind |-> "priority", before |-> before,
                                         slots |-> slots, subject |-> e]
    <3>1. PICK queue :
            schedule' = [kind |-> "priority", before |-> queue,
                         slots |-> InsertPriority(e, queue), subject |-> e]
      BY <1>4 DEF Insert
    <3>2. limit' = limit
      BY <1>4 DEF Insert
    <3>3. QED
      BY <3>1, <3>2
  <2>2. QED
    BY <2>1 DEF SearchInv
<1>5. CASE UNCHANGED arrivalVars
  <2>1. Baseline' = Baseline
    BY <1>5 DEF arrivalVars, Baseline
  <2>2. WithinShift(order)' <=> WithinShift(order)
    BY <1>5, <2>1 DEF arrivalVars, WithinShift
  <2>3. QED
    BY <1>5, <2>1, <2>2 DEF arrivalVars, SearchInv
<1>6. QED
  BY <1>1, <1>2, <1>3, <1>4, <1>5 DEF ArrivalNext

LEMMA SearchInvariant == ArrivalSpec => []SearchInv
  BY InitSearch, NextSearch, PTL DEF ArrivalSpec

(* Whatever swaps are made, and for any number of turns, nobody is carried  *)
(* further from first come, first served than the limit reached.            *)
THEOREM ShiftLimited == ArrivalSpec => []ShiftIsLimited
<1>1. SearchInv => ShiftIsLimited
  BY DEF SearchInv, ShiftIsLimited
<1>2. QED
  BY SearchInvariant, <1>1, PTL

(* No sequence of swaps moves an arrival in an emergency.                   *)
THEOREM EmergencyUnmoved == ArrivalSpec => []EmergencyKeepsItsPlace
<1>1. SearchInv => EmergencyKeepsItsPlace
  <2> SUFFICES ASSUME SearchInv, schedule.kind # "priority", NEW e \in emergency
               PROVE  PlaceOf(order, e) = PlaceOf(Baseline, e)
    BY DEF EmergencyKeepsItsPlace
  <2>1. DOMAIN order = DOMAIN Baseline
    BY DEF SearchInv
  <2>2. \A i : (i \in DOMAIN order /\ order[i] = e) <=> (i \in DOMAIN Baseline /\ Baseline[i] = e)
    BY <2>1 DEF SearchInv
  <2>3. QED
    BY <2>1, <2>2 DEF PlaceOf
<1>2. QED
  BY SearchInvariant, <1>1, PTL
-----------------------------------------------------------------------------
(* The time of the i-th of a sequence, the times before it being t.         *)
TimeAt(sequence, pinned, t, i) ==
  IF sequence[i] \in DOMAIN pinned THEN pinned[sequence[i]]
  ELSE IF i = 1 THEN Earliest(sequence[1])
  ELSE Larger(Earliest(sequence[i]), t[i - 1] + Gap(sequence[i - 1], sequence[i]))

(* The times of a sequence of n; its schedule with those times.             *)
Times(n, s, pinned, t) == t = [i \in 1 .. n |-> TimeAt(s, pinned, t, i)]
Lists(slots, n, s, t) ==
  slots = [i \in 1 .. n |-> [callsign |-> s[i], time |-> t[i],
                             level |-> AssignedLevel(Ladder, i - 1),
                             holding |-> LadderExhausted(Ladder, i - 1)]]

(* The recursion over a sequence has a solution. *)
LEMMA TimesExist ==
  ASSUME NEW s, NEW pinned, NEW n \in Nat
  PROVE  \E t : t = [i \in 1 .. n |-> TimeAt(s, pinned, t, i)]
<1> DEFINE Solves(t, m) == t = [i \in 1 .. m |-> TimeAt(s, pinned, t, i)]
           S == {m \in Nat : \E t : Solves(t, m)}
<1>1. 0 \in S
  <2>1. Solves([i \in 1 .. 0 |-> 0], 0)
    OBVIOUS
  <2>2. QED
    BY <2>1
<1>2. ASSUME NEW m \in Nat, m \in S
      PROVE  m + 1 \in S
  <2>1. PICK t : Solves(t, m)
    BY <1>2
  <2> DEFINE u == [i \in 1 .. m + 1 |-> IF i = m + 1 THEN TimeAt(s, pinned, t, i) ELSE t[i]]
  <2>2. ASSUME NEW i \in 1 .. m + 1
        PROVE  u[i] = TimeAt(s, pinned, t, i)
    <3>1. CASE i = m + 1
      BY <3>1
    <3>2. CASE i # m + 1
      <4>1. i \in 1 .. m
        BY <3>2
      <4>2. t[i] = TimeAt(s, pinned, t, i)
        <5> HIDE DEF u
        <5>1. t = [j \in 1 .. m |-> TimeAt(s, pinned, t, j)]
          BY <2>1
        <5>2. QED
          BY <4>1, <5>1
      <4>3. QED
        BY <3>2, <4>2
    <3>3. QED
      BY <3>1, <3>2
  <2>3. ASSUME NEW i \in 1 .. m + 1
        PROVE  TimeAt(s, pinned, u, i) = TimeAt(s, pinned, t, i)
    <3>1. i = 1 \/ (i - 1 \in 1 .. m /\ i - 1 # m + 1)
      OBVIOUS
    <3>2. i = 1 \/ u[i - 1] = t[i - 1]
      BY <3>1
    <3>3. QED
      <4> HIDE DEF u
      <4>1. QED
        BY <3>2 DEF TimeAt
  <2>4. u = [i \in 1 .. m + 1 |-> u[i]]
    OBVIOUS
  <2>5. u = [i \in 1 .. m + 1 |-> TimeAt(s, pinned, u, i)]
    <3> HIDE DEF u
    <3>1. QED
      BY <2>2, <2>3, <2>4
  <2>6. \E v : v = [i \in 1 .. m + 1 |-> TimeAt(s, pinned, v, i)]
    <3> HIDE DEF u
    <3>1. QED
      BY <2>5
  <2>7. QED
    BY <2>6
<1>3. n \in S
  <2> HIDE DEF S
  <2>1. \A m \in Nat : m \in S => m + 1 \in S
    BY <1>2
  <2>2. QED
    BY <1>1, <2>1, SetInduction
<1>4. QED
  BY <1>3

LEMMA SlotsAreTimed ==
  ASSUME NEW n \in Nat, NEW s, s \in [1 .. n -> Arriving], NEW pinned
  PROVE  \E t : Times(n, s, pinned, t) /\ Lists(Slots(s, pinned), n, s, t)
<1> DEFINE Recursion(t) ==
             [i \in DOMAIN s |->
                LET a == s[i]
                IN  CASE a \in DOMAIN pinned -> pinned[a]
                      [] a \notin DOMAIN pinned /\ i = 1 -> Earliest(a)
                      [] OTHER -> Larger(Earliest(a), t[i - 1] + Gap(s[i - 1], a))]
           time == CHOOSE t : t = Recursion(t)
<1>1. DOMAIN s = 1 .. n
  OBVIOUS
<1>2. \A t : Recursion(t) = [i \in 1 .. n |-> TimeAt(s, pinned, t, i)]
  BY DEF TimeAt
<1>3. Lists(Slots(s, pinned), n, s, time)
  BY <1>1 DEF Slots, Lists
<1>4. \E t : t = Recursion(t)
  <2>1. PICK t : t = [i \in 1 .. n |-> TimeAt(s, pinned, t, i)]
    BY TimesExist
  <2> HIDE DEF Recursion
  <2>2. t = Recursion(t)
    BY <1>2, <2>1
  <2>3. QED
    BY <2>2
<1>5. time = Recursion(time)
  <2> HIDE DEF Recursion
  <2>1. QED
    BY <1>4
<1>6. Times(n, s, pinned, time)
  <2> HIDE DEF Recursion, time
  <2>1. QED
    BY <1>2, <1>5 DEF Times
<1>7. QED
  <2> HIDE DEF time
  <2>1. QED
    BY <1>3, <1>6

LEMMA ProductIsNatural ==
  ASSUME NEW a \in Nat, NEW b \in Nat
  PROVE  a * b \in Nat
  OBVIOUS

LEMMA EarliestIsNatural ==
  ASSUME distance \in [Arriving -> Distances], NEW a \in Arriving
  PROVE  Earliest(a) \in Nat
<1> DEFINE d == distance[a]
           p == Kind[a].pace
           c == Kind[a].cruise
<1>1. d \in Nat /\ p \in Nat /\ c \in Nat /\ Join \in Nat
  BY ArrivalAssumption
<1>2. Earliest(a) = IF d <= Join THEN d * p ELSE (d - Join) * c + Join * p
  BY DEF Earliest
<1> HIDE DEF d, p, c
<1>3. CASE d <= Join
  BY <1>1, <1>2, <1>3
<1>4. CASE ~ (d <= Join)
  <2>1. d - Join \in Nat
    BY <1>1, <1>4
  <2>2. (d - Join) * c \in Nat /\ Join * p \in Nat
    BY <1>1, <2>1, ProductIsNatural
  <2>3. QED
    BY <1>2, <1>4, <2>2
<1>5. QED
  BY <1>3, <1>4

LEMMA GapParts ==
  ASSUME NEW l \in Arriving, NEW f \in Arriving
  PROVE  LET R == Trail(l, f)
         IN  /\ R \in Nat /\ Gap(l, f) \in Nat
             /\ Gap(l, f) >= R * Kind[f].pace
             /\ Gap(l, f) >= R * Kind[l].pace + Join * (Kind[f].pace - Kind[l].pace)
             /\ Gap(l, f) >= Kind[l].occupancy + RunwayBuffer
             /\ \/ Gap(l, f) = R * Kind[f].pace
                \/ Gap(l, f) = R * Kind[l].pace + Join * (Kind[f].pace - Kind[l].pace)
                \/ Gap(l, f) = Kind[l].occupancy + RunwayBuffer
<1> DEFINE R == Trail(l, f)
           g == R * Kind[f].pace
           j == R * Kind[l].pace + Join * (Kind[f].pace - Kind[l].pace)
           o == Kind[l].occupancy + RunwayBuffer
<1>1. R \in Nat
  BY TrailIsNat
<1>2. Kind[l].pace \in Nat /\ Kind[f].pace \in Nat /\ Join \in Nat /\ o \in Nat
  BY ArrivalAssumption
<1>3. g \in Int /\ j \in Int
  <2> HIDE DEF R
  <2>1. QED
    BY <1>1, <1>2
<1>4. Gap(l, f) = Larger(Larger(g, j), o)
  BY DEF Gap, DistanceGap
<1>5. R \in Nat /\ Larger(Larger(g, j), o) \in Nat
  <2> HIDE DEF R, g, j, o
  <2>1. QED
    BY <1>1, <1>2, <1>3 DEF Larger
<1>6. /\ Gap(l, f) \in Nat /\ Gap(l, f) >= g /\ Gap(l, f) >= j /\ Gap(l, f) >= o
      /\ Gap(l, f) = g \/ Gap(l, f) = j \/ Gap(l, f) = o
  <2> HIDE DEF R, g, j, o
  <2>1. QED
    BY <1>2, <1>3, <1>4 DEF Larger
<1>7. QED
  BY <1>1, <1>6

SpacedUnless(n, s, pinned, t) ==
  \A i \in 1 .. n :
    /\ s[i] \in DOMAIN pinned => t[i] = pinned[s[i]]
    /\ s[i] \notin DOMAIN pinned =>
         /\ t[i] >= Earliest(s[i])
         /\ i = 1 => t[i] = Earliest(s[i])
         /\ i - 1 \in 1 .. n =>
              /\ t[i] >= t[i - 1] + Gap(s[i - 1], s[i])
              /\ t[i] = Larger(Earliest(s[i]), t[i - 1] + Gap(s[i - 1], s[i]))

(* The times of a sequence are numbers, nobody lands before the earliest    *)
(* time, and whoever is not pinned keeps the gap behind the one before.     *)
LEMMA TimesAreSpaced ==
  ASSUME distance \in [Arriving -> Distances],
         NEW n \in Nat, NEW s, s \in [1 .. n -> Arriving], NEW pinned,
         \A a \in DOMAIN pinned : pinned[a] \in Nat,
         NEW t, Times(n, s, pinned, t)
  PROVE  t \in [1 .. n -> Nat] /\ SpacedUnless(n, s, pinned, t)
<1>0. t = [i \in 1 .. n |-> TimeAt(s, pinned, t, i)]
  BY DEF Times
<1>1. \A i \in 1 .. n : t[i] = TimeAt(s, pinned, t, i)
  BY <1>0
<1>2. DOMAIN t = 1 .. n
  BY <1>0
<1>3. \A i \in 1 .. n : s[i] \in Arriving /\ Earliest(s[i]) \in Nat
  BY EarliestIsNatural
<1>4. \A i \in 1 .. n : i - 1 \in 1 .. n => Gap(s[i - 1], s[i]) \in Nat
  BY GapParts
<1>5. \A i \in 1 .. n : i = 1 \/ i - 1 \in 1 .. n
  OBVIOUS
<1> DEFINE S == {i \in 1 .. n : t[i] \in Nat}
<1>6. 1 \in S \/ n = 0
  <2> SUFFICES ASSUME n # 0 PROVE t[1] \in Nat
    OBVIOUS
  <2>1. 1 \in 1 .. n
    OBVIOUS
  <2>2. QED
    BY <1>1, <1>3, <2>1 DEF TimeAt
<1>7. \A i \in 1 .. n : i \in S /\ i + 1 \in 1 .. n => i + 1 \in S
  <2> SUFFICES ASSUME NEW i \in 1 .. n, t[i] \in Nat, i + 1 \in 1 .. n PROVE t[i + 1] \in Nat
    OBVIOUS
  <2>1. i + 1 # 1 /\ (i + 1) - 1 = i
    OBVIOUS
  <2>2. Gap(s[i], s[i + 1]) \in Nat /\ Earliest(s[i + 1]) \in Nat
    BY <1>3, <1>4, <2>1
  <2>3. t[i + 1] = IF s[i + 1] \in DOMAIN pinned THEN pinned[s[i + 1]]
                   ELSE Larger(Earliest(s[i + 1]), t[i] + Gap(s[i], s[i + 1]))
    BY <1>1, <2>1 DEF TimeAt
  <2>4. QED
    BY <2>2, <2>3 DEF Larger
<1>8. \A i \in 1 .. n : t[i] \in Nat
  <2>1. \A i \in 1 .. n : i \in S
    <3> HIDE DEF S
    <3>1. QED
      BY <1>6, <1>7, PlaceInduction
  <2>2. QED
    BY <2>1
<1>9. t \in [1 .. n -> Nat]
  <2>1. t = [i \in 1 .. n |-> t[i]]
    BY <1>0
  <2>2. QED
    BY <1>8, <2>1
<1>10. ASSUME NEW i \in 1 .. n
       PROVE  /\ s[i] \in DOMAIN pinned => t[i] = pinned[s[i]]
              /\ s[i] \notin DOMAIN pinned =>
                   /\ t[i] >= Earliest(s[i])
                   /\ i = 1 => t[i] = Earliest(s[i])
                   /\ i - 1 \in 1 .. n => /\ t[i] >= t[i - 1] + Gap(s[i - 1], s[i])
                              /\ t[i] = Larger(Earliest(s[i]), t[i - 1] + Gap(s[i - 1], s[i]))
  <2>1. t[i] = TimeAt(s, pinned, t, i)
    BY <1>1
  <2>2. CASE s[i] \in DOMAIN pinned
    BY <2>1, <2>2 DEF TimeAt
  <2>3. CASE s[i] \notin DOMAIN pinned /\ i = 1
    <3>1. t[i] = Earliest(s[i])
      BY <2>1, <2>3 DEF TimeAt
    <3>2. ~ (i - 1 \in 1 .. n)
      BY <2>3
    <3>3. QED
      BY <1>3, <2>3, <3>1, <3>2
  <2>4. CASE s[i] \notin DOMAIN pinned /\ i # 1
    <3>1. i - 1 \in 1 .. n
      BY <1>5, <2>4
    <3>2. t[i] = Larger(Earliest(s[i]), t[i - 1] + Gap(s[i - 1], s[i]))
      BY <2>1, <2>4 DEF TimeAt
    <3>3. Earliest(s[i]) \in Nat /\ Gap(s[i - 1], s[i]) \in Nat /\ t[i - 1] \in Nat
      BY <1>3, <1>4, <1>8, <3>1
    <3>4. t[i] >= Earliest(s[i]) /\ t[i] >= t[i - 1] + Gap(s[i - 1], s[i])
      BY <3>2, <3>3 DEF Larger
    <3>5. QED
      BY <2>4, <3>2, <3>4
  <2>5. QED
    BY <2>2, <2>3, <2>4
<1>11. QED
  BY <1>9, <1>10 DEF SpacedUnless
-----------------------------------------------------------------------------
(* The place of an emergency among N others: behind everyone who lands by   *)
(* the time it can be there or is committed, in front when there is none.   *)
BehindTheCommitted(n, N, q, b, e) ==
  LET kept(i) == b[i] <= Earliest(e) \/ distance[q[i]] <= FreezeAt
  IN  /\ n \in 0 .. N
      /\ \A i \in 1 .. N : kept(i) => i <= n
      /\ (\A i \in 1 .. N : ~ kept(i)) => n = 0

LEMMA InsertIndexFacts ==
  ASSUME NEW N \in Nat, NEW q, q \in [1 .. N -> Arriving],
         NEW b, b \in [1 .. N -> Nat], \A i \in 1 .. N : i - 1 \in 1 .. N => b[i - 1] <= b[i],
         NEW e, Earliest(e) \in Nat,
         NEW base, Lists(base, N, q, b)
  PROVE  BehindTheCommitted(InsertIndex(base, e), N, q, b, e)
<1>0. /\ DOMAIN base = 1 .. N
      /\ \A i \in 1 .. N : base[i].callsign = q[i] /\ base[i].time = b[i]
  BY DEF Lists
<1>00. PICK n : n = InsertIndex(base, e)
  OBVIOUS
<1> DEFINE ahead == {i \in 1 .. N : b[i] <= Earliest(e)}
           frozen == {i \in 1 .. N : distance[q[i]] <= FreezeAt}
           last == CHOOSE m \in {0} \cup frozen : \A k \in frozen : k <= m
<1>1. n = Larger(Cardinality(ahead), last)
  <2>1. {i \in DOMAIN base : base[i].time <= Earliest(e)} = ahead
    BY <1>0
  <2>2. {i \in DOMAIN base : distance[base[i].callsign] <= FreezeAt} = frozen
    BY <1>0
  <2> HIDE DEF ahead, frozen
  <2>3. QED
    BY <1>00, <2>1, <2>2 DEF InsertIndex
<1>2. last \in {0} \cup frozen /\ \A k \in frozen : k <= last
  <2>1. {0} \cup frozen \subseteq 0 .. N
    OBVIOUS
  <2>2. \E m \in {0} \cup frozen : \A k \in {0} \cup frozen : k <= m
    <3> HIDE DEF frozen
    <3>1. QED
      BY <2>1, GreatestExists
  <2>3. \E m \in {0} \cup frozen : \A k \in frozen : k <= m
    BY <2>2
  <2> HIDE DEF frozen
  <2>4. QED
    BY <2>3
<1>3. last \in 0 .. N
  <2>1. {0} \cup frozen \subseteq 0 .. N
    OBVIOUS
  <2> HIDE DEF frozen, last
  <2>2. QED
    BY <1>2, <2>1
<1>4. /\ IsFiniteSet(1 .. N) /\ Cardinality(1 .. N) = N
  BY FS_Interval
<1>5. /\ IsFiniteSet(ahead) /\ Cardinality(ahead) \in Nat /\ Cardinality(ahead) <= N
  <2>1. ahead \in SUBSET (1 .. N)
    OBVIOUS
  <2> HIDE DEF ahead
  <2>2. IsFiniteSet(ahead) /\ Cardinality(ahead) <= Cardinality(1 .. N)
    BY <1>4, <2>1, FS_Subset
  <2>3. QED
    BY <1>4, <2>2, FS_CardinalityType
<1>6. ASSUME NEW i \in ahead PROVE i <= Cardinality(ahead)
  <2>1. \A k \in 1 .. N : k <= i => b[k] <= b[i]
    <3> DEFINE S == {m \in 1 .. N : \A k \in 1 .. m : b[k] <= b[m]}
    <3>1. 1 \in S \/ N = 0
      <4> SUFFICES ASSUME N # 0 PROVE 1 \in S
        OBVIOUS
      <4>1. 1 \in 1 .. N /\ b[1] \in Nat
        OBVIOUS
      <4>2. QED
        BY <4>1
    <3>2. \A m \in 1 .. N : m \in S /\ m + 1 \in 1 .. N => m + 1 \in S
      <4> SUFFICES ASSUME NEW m \in 1 .. N, m \in S, m + 1 \in 1 .. N,
                          NEW k \in 1 .. m + 1
                   PROVE  b[k] <= b[m + 1]
        OBVIOUS
      <4>1. b[m] <= b[m + 1]
        <5>1. (m + 1) - 1 = m
          OBVIOUS
        <5>2. QED
          BY <5>1
      <4>2. b[k] \in Nat /\ b[m] \in Nat /\ b[m + 1] \in Nat
        OBVIOUS
      <4>3. QED
        BY <4>1, <4>2, SMTT(20)
    <3>3. \A m \in 1 .. N : m \in S
      <4> HIDE DEF S
      <4>1. QED
        BY <3>1, <3>2, PlaceInduction
    <3>4. QED
      BY <3>3
  <2>2. 1 .. i \subseteq ahead
    <3> SUFFICES ASSUME NEW k \in 1 .. i PROVE k \in ahead
      OBVIOUS
    <3>1. k \in 1 .. N /\ b[k] <= b[i] /\ b[i] <= Earliest(e)
      BY <2>1
    <3>2. b[k] \in Nat /\ b[i] \in Nat
      BY <3>1
    <3>3. QED
      BY <3>1, <3>2
  <2>3. i \in Nat /\ Cardinality(1 .. i) = i
    <3>1. i \in 1 .. N
      OBVIOUS
    <3>2. QED
      BY <3>1, FS_Interval
  <2>4. Cardinality(1 .. i) <= Cardinality(ahead)
    <3> HIDE DEF ahead
    <3>1. QED
      BY <1>5, <2>2, FS_Subset
  <2>5. QED
    BY <2>3, <2>4
<1>7. Larger(Cardinality(ahead), last) \in {Cardinality(ahead), last}
      /\ Larger(Cardinality(ahead), last) >= Cardinality(ahead)
      /\ Larger(Cardinality(ahead), last) >= last
  <2> HIDE DEF ahead, last
  <2>1. QED
    BY <1>3, <1>5 DEF Larger
<1>8. n \in 0 .. N
  <2> HIDE DEF ahead, last
  <2>1. QED
    BY <1>1, <1>3, <1>5, <1>7
<1>9. ASSUME NEW i \in 1 .. N, b[i] <= Earliest(e) \/ distance[q[i]] <= FreezeAt
      PROVE  i <= n
  <2>1. i <= Cardinality(ahead) \/ i <= last
    BY <1>2, <1>6, <1>9
  <2> HIDE DEF ahead, last
  <2>2. QED
    BY <1>1, <1>3, <1>5, <1>7, <2>1
<1>10. ASSUME \A i \in 1 .. N : ~ (b[i] <= Earliest(e) \/ distance[q[i]] <= FreezeAt)
       PROVE  n = 0
  <2>1. ahead = {} /\ frozen = {}
    BY <1>10
  <2>2. Cardinality(ahead) = 0
    BY <2>1, FS_EmptySet
  <2>3. last = 0
    BY <1>2, <2>1
  <2> HIDE DEF ahead, last
  <2>4. QED
    BY <1>1, <1>7, <2>2, <2>3
<1>11. QED
  BY <1>00, <1>8, <1>9, <1>10 DEF BehindTheCommitted
-----------------------------------------------------------------------------
(* What the sequence of s with times t looks like as a schedule. *)
Shows(slots, n, s, t) ==
  /\ Lists(slots, n, s, t)
  /\ s \in [1 .. n -> Arriving] /\ t \in [1 .. n -> Nat]

(* Everyone behind the one before, none before the earliest time; the first *)
(* one at it.                                                               *)
Spaced(n, s, t) ==
  \A i \in 1 .. n :
    /\ t[i] >= Earliest(s[i])
    /\ i - 1 \in 1 .. n => t[i] >= t[i - 1] + Gap(s[i - 1], s[i])

LEMMA FreeSlots ==
  ASSUME distance \in [Arriving -> Distances],
         NEW n \in Nat, NEW s, s \in [1 .. n -> Arriving]
  PROVE  \E t : /\ Shows(Slots(s, Free), n, s, t) /\ Spaced(n, s, t)
                /\ n > 0 => t[1] = Earliest(s[1])
                /\ \A i \in 1 .. n : i - 1 \in 1 .. n =>
                     t[i] = Larger(Earliest(s[i]), t[i - 1] + Gap(s[i - 1], s[i]))
<1>1. PICK none : none = Free
  OBVIOUS
<1>2. PICK t : Times(n, s, none, t) /\ Lists(Slots(s, none), n, s, t)
  BY SlotsAreTimed
<1>3. DOMAIN none = {}
  BY <1>1 DEF Free
<1>4. t \in [1 .. n -> Nat] /\ SpacedUnless(n, s, none, t)
  <2>1. \A a \in DOMAIN none : none[a] \in Nat
    BY <1>3
  <2>2. QED
    BY <1>2, <2>1, TimesAreSpaced
<1>6. \A i \in 1 .. n :
           /\ t[i] >= Earliest(s[i])
           /\ i = 1 => t[i] = Earliest(s[i])
           /\ i - 1 \in 1 .. n => /\ t[i] >= t[i - 1] + Gap(s[i - 1], s[i])
                      /\ t[i] = Larger(Earliest(s[i]), t[i - 1] + Gap(s[i - 1], s[i]))
  BY <1>3, <1>4 DEF SpacedUnless
<1>7. Shows(Slots(s, Free), n, s, t)
  BY <1>1, <1>2, <1>4 DEF Shows
<1>8. Spaced(n, s, t)
  BY <1>6 DEF Spaced
<1>9. n > 0 => t[1] = Earliest(s[1])
  BY <1>6
<1>10. QED
  BY <1>6, <1>7, <1>8, <1>9

LEMMA ShownFields ==
  ASSUME NEW slots, NEW n \in Nat, NEW s, NEW t, Shows(slots, n, s, t)
  PROVE  /\ DOMAIN slots = 1 .. n /\ Len(slots) = n
         /\ \A i \in 1 .. n : slots[i].callsign = s[i] /\ slots[i].time = t[i]
  BY DEF Shows, Lists

(* insert_priority: the first n of the others keep their times, the         *)
(* emergency and the rest follow one another.                               *)
LEMMA PrioritySlots ==
  ASSUME distance \in [Arriving -> Distances], NEW e \in Arriving,
         NEW N \in Nat, NEW q, q \in [1 .. N -> Arriving \ {e}],
         \A i, j \in 1 .. N : i < j => q[i] # q[j]
  PROVE  \E n, b, s, t :
           /\ Shows(Slots(q, Free), N, q, b) /\ Spaced(N, q, b)
           /\ \A i \in 1 .. N : i - 1 \in 1 .. N =>
                b[i] = Larger(Earliest(q[i]), b[i - 1] + Gap(q[i - 1], q[i]))
           /\ N > 0 => b[1] = Earliest(q[1])
           /\ BehindTheCommitted(n, N, q, b, e)
           /\ Shows(InsertPriority(e, q), N + 1, s, t) /\ Spaced(N + 1, s, t)
           /\ PutBehind(s, N, q, e, n)
           /\ \A i \in 1 .. n : t[i] = b[i]
           /\ n = 0 => t[1] = Earliest(e)
<1>1. q \in [1 .. N -> Arriving]
  OBVIOUS
<1>2. PICK b : /\ Shows(Slots(q, Free), N, q, b) /\ Spaced(N, q, b)
               /\ N > 0 => b[1] = Earliest(q[1])
               /\ \A i \in 1 .. N : i - 1 \in 1 .. N =>
                    b[i] = Larger(Earliest(q[i]), b[i - 1] + Gap(q[i - 1], q[i]))
  BY <1>1, FreeSlots
<1>3. PICK base : base = Slots(q, Free)
  OBVIOUS
<1>4. /\ DOMAIN base = 1 .. N
      /\ \A i \in 1 .. N : base[i].callsign = q[i] /\ base[i].time = b[i]
  BY <1>2, <1>3, ShownFields
<1>5. b \in [1 .. N -> Nat]
  BY <1>2 DEF Shows
<1>6. \A i \in 1 .. N : i - 1 \in 1 .. N => b[i - 1] <= b[i]
  <2> SUFFICES ASSUME NEW i \in 1 .. N, i - 1 \in 1 .. N PROVE b[i - 1] <= b[i]
    OBVIOUS
  <2>1. b[i - 1] \in Nat /\ b[i] \in Nat /\ Gap(q[i - 1], q[i]) \in Nat
    BY <1>1, <1>5, GapParts
  <2>2. b[i] >= b[i - 1] + Gap(q[i - 1], q[i])
    BY <1>2 DEF Spaced
  <2>3. QED
    BY <2>1, <2>2
<1>7. Earliest(e) \in Nat
  BY EarliestIsNatural
<1>8. PICK n : n = InsertIndex(base, e)
  OBVIOUS
<1>9. BehindTheCommitted(n, N, q, b, e)
  <2>1. Lists(base, N, q, b)
    BY <1>2, <1>3 DEF Shows
  <2>2. QED
    BY <1>1, <1>5, <1>6, <1>7, <1>8, <2>1, InsertIndexFacts
<1>24. n \in 0 .. N
  BY <1>9 DEF BehindTheCommitted
<1>10. PICK s \in [1 .. N + 1 -> Arriving] :
         /\ s = SubSeq(q, 1, n) \o <<e>> \o SubSeq(q, n + 1, Len(q))
         /\ PutBehind(s, N, q, e, n)
  BY <1>1, <1>24, PutIntoSequence
<1>25. \A i \in 1 .. N + 1 :
         s[i] = IF i <= n THEN q[i] ELSE IF i = n + 1 THEN e ELSE q[i - 1]
  BY <1>10 DEF PutBehind
<1>11. PICK pinned : pinned = [a \in {q[i] : i \in 1 .. n} |->
                                 base[CHOOSE i \in 1 .. n : q[i] = a].time]
  OBVIOUS
<1>12. InsertPriority(e, q) = Slots(s, pinned)
  BY <1>3, <1>8, <1>10, <1>11 DEF InsertPriority
<1>13. DOMAIN pinned = {q[i] : i \in 1 .. n}
  BY <1>11
<1>14. \A i \in 1 .. n : pinned[q[i]] = b[i]
  <2> SUFFICES ASSUME NEW i \in 1 .. n PROVE pinned[q[i]] = b[i]
    OBVIOUS
  <2>1. i \in 1 .. N /\ \A j \in 1 .. n : j \in 1 .. N
    BY <1>24
  <2>2. \A j \in 1 .. n : q[j] = q[i] <=> j = i
    BY <2>1
  <2>3. (CHOOSE j \in 1 .. n : q[j] = q[i]) = i
    BY <2>2
  <2>4. pinned[q[i]] = base[CHOOSE j \in 1 .. n : q[j] = q[i]].time
    BY <1>11
  <2>5. QED
    BY <1>4, <2>1, <2>3, <2>4
<1>15. \A a \in DOMAIN pinned : pinned[a] \in Nat
  <2> SUFFICES ASSUME NEW i \in 1 .. n PROVE pinned[q[i]] \in Nat
    BY <1>13
  <2>1. i \in 1 .. N
    BY <1>24
  <2>2. QED
    BY <1>5, <1>14, <2>1
<1>16. PICK t : Times(N + 1, s, pinned, t) /\ Lists(Slots(s, pinned), N + 1, s, t)
  <2>1. N + 1 \in Nat
    OBVIOUS
  <2>2. QED
    BY <2>1, SlotsAreTimed
<1>17. t \in [1 .. N + 1 -> Nat] /\ SpacedUnless(N + 1, s, pinned, t)
  <2>1. N + 1 \in Nat
    OBVIOUS
  <2>2. QED
    BY <1>15, <1>16, <2>1, TimesAreSpaced
<1>26. \A i \in 1 .. N + 1 :
         /\ s[i] \in DOMAIN pinned => t[i] = pinned[s[i]]
         /\ s[i] \notin DOMAIN pinned =>
              /\ t[i] >= Earliest(s[i])
              /\ i = 1 => t[i] = Earliest(s[i])
              /\ i - 1 \in 1 .. N + 1 => t[i] >= t[i - 1] + Gap(s[i - 1], s[i])
  BY <1>17 DEF SpacedUnless
<1>18. \A i \in 1 .. n : s[i] = q[i] /\ t[i] = b[i]
  <2> SUFFICES ASSUME NEW i \in 1 .. n PROVE s[i] = q[i] /\ t[i] = b[i]
    OBVIOUS
  <2>1. i \in 1 .. N + 1 /\ i <= n
    BY <1>24
  <2>2. s[i] = q[i]
    BY <1>25, <2>1
  <2>3. QED
    BY <1>13, <1>14, <1>26, <2>1, <2>2
<1>19. \A i \in 1 .. N + 1 : i > n => s[i] \notin DOMAIN pinned
  <2> SUFFICES ASSUME NEW i \in 1 .. N + 1, i > n, NEW j \in 1 .. n, s[i] = q[j] PROVE FALSE
    BY <1>13
  <2>1. j \in 1 .. N /\ n \in Nat
    BY <1>24
  <2>2. q[j] \in Arriving \ {e}
    BY <2>1
  <2>3. i # n + 1
    BY <1>24, <1>25, <2>2
  <2>4. s[i] = q[i - 1] /\ i - 1 \in 1 .. N /\ j < i - 1
    BY <1>24, <1>25, <2>1, <2>3
  <2>5. q[j] # q[i - 1]
    BY <2>1, <2>4
  <2>6. QED
    BY <2>4, <2>5
<1>20. Spaced(N + 1, s, t)
  <2> SUFFICES ASSUME NEW i \in 1 .. N + 1
               PROVE  /\ t[i] >= Earliest(s[i])
                      /\ i - 1 \in 1 .. N + 1 => t[i] >= t[i - 1] + Gap(s[i - 1], s[i])
    BY DEF Spaced
  <2>1. CASE i <= n
    <3>1. i \in 1 .. n /\ i \in 1 .. N /\ (i - 1 \in 1 .. N + 1 => i - 1 \in 1 .. n /\ i - 1 \in 1 .. N)
      BY <1>24, <2>1
    <3>2. b[i] >= Earliest(q[i]) /\ (i - 1 \in 1 .. N => b[i] >= b[i - 1] + Gap(q[i - 1], q[i]))
      BY <1>2, <3>1 DEF Spaced
    <3>3. QED
      BY <1>18, <3>1, <3>2
  <2>2. CASE ~ (i <= n)
    <3>1. i > n
      BY <1>24, <2>2
    <3>2. QED
      BY <1>26, <1>19, <3>1
  <2>3. QED
    BY <2>1, <2>2
<1>21. Shows(InsertPriority(e, q), N + 1, s, t)
  BY <1>12, <1>16, <1>17 DEF Shows
<1>22. n = 0 => t[1] = Earliest(e)
  <2> SUFFICES ASSUME n = 0 PROVE t[1] = Earliest(e)
    OBVIOUS
  <2>1. 1 \in 1 .. N + 1 /\ 1 > n /\ 1 = n + 1
    OBVIOUS
  <2>2. s[1] = e
    BY <1>25, <2>1
  <2>3. s[1] \notin DOMAIN pinned
    BY <1>19, <2>1
  <2>4. QED
    BY <1>26, <2>1, <2>2, <2>3
<1>23. QED
  BY <1>2, <1>9, <1>10, <1>18, <1>20, <1>21, <1>22
-----------------------------------------------------------------------------
(* Whose sequence a schedule shows. *)
SequencesInv ==
  /\ distance \in [Arriving -> Distances]
  /\ schedule.kind # "priority" =>
       /\ \E n \in Nat : \E s \in [1 .. n -> Arriving] : schedule.slots = Slots(s, Free)
       /\ \E n \in Nat : Baseline \in [1 .. n -> Arriving]
       /\ Completion(order) <= Completion(Baseline)
  /\ schedule.kind = "priority" =>
       \E e \in Arriving : \E N \in Nat : \E q \in [1 .. N -> Arriving \ {e}] :
         /\ \A i, j \in 1 .. N : i < j => q[i] # q[j]
         /\ schedule = [kind |-> "priority", before |-> q,
                        slots |-> InsertPriority(e, q), subject |-> e]

LEMMA TimesStand ==
  ASSUME distance' = distance
  PROVE  /\ \A s, p : Slots(s, p)' = Slots(s, p)
         /\ \A e, q : InsertPriority(e, q)' = InsertPriority(e, q)
         /\ \A s : Completion(s)' = Completion(s)
<1>1. \A a : Earliest(a)' = Earliest(a)
  BY DEF Earliest
<1>2. ASSUME NEW s, NEW p PROVE Slots(s, p)' = Slots(s, p)
  BY <1>1 DEF Slots
<1>3. ASSUME NEW b, NEW e PROVE InsertIndex(b, e)' = InsertIndex(b, e)
  BY <1>1 DEF InsertIndex
<1>4. ASSUME NEW e, NEW q PROVE InsertPriority(e, q)' = InsertPriority(e, q)
  <2> DEFINE Pinned(base, n) == [a \in {q[i] : i \in 1 .. n} |->
                                   base[CHOOSE i \in 1 .. n : q[i] = a].time]
             With(n) == SubSeq(q, 1, n) \o <<e>> \o SubSeq(q, n + 1, Len(q))
  <2>1. PICK base : base = Slots(q, Free)
    OBVIOUS
  <2>2. Slots(q, Free)' = base
    BY <1>2, <2>1
  <2>3. PICK n : n = InsertIndex(base, e)
    OBVIOUS
  <2>4. InsertIndex(base, e)' = n
    BY <1>3, <2>3
  <2>5. InsertPriority(e, q) = Slots(With(n), Pinned(base, n))
    BY <2>1, <2>3 DEF InsertPriority
  <2>6. InsertPriority(e, q)' = Slots(With(n), Pinned(base, n))'
    BY <2>2, <2>4 DEF InsertPriority
  <2>7. QED
    BY <1>2, <2>5, <2>6
<1>5. ASSUME NEW s PROVE Completion(s)' = Completion(s)
  BY <1>2 DEF Completion
<1>6. QED
  BY <1>2, <1>4, <1>5

LEMMA CompletionIsNatural ==
  ASSUME distance \in [Arriving -> Distances],
         NEW n \in Nat, NEW s \in [1 .. n -> Arriving]
  PROVE  Completion(s) \in Nat
<1>1. PICK t : Shows(Slots(s, Free), n, s, t)
  BY FreeSlots
<1>2. CASE s = <<>>
  BY <1>2 DEF Completion
<1>3. CASE s # <<>>
  <2>1. Len(s) = n /\ n \in 1 .. n
    BY <1>3
  <2>2. Slots(s, Free)[n].time = t[n] /\ t[n] \in Nat
    <3>1. t \in [1 .. n -> Nat]
      BY <1>1 DEF Shows
    <3>2. QED
      BY <1>1, <2>1, <3>1, ShownFields
  <2>3. QED
    BY <1>3, <2>1, <2>2 DEF Completion
<1>4. QED
  BY <1>2, <1>3

LEMMA InitSequences == ArrivalInit => SequencesInv
<1> SUFFICES ASSUME ArrivalInit PROVE SequencesInv
  OBVIOUS
<1>1. /\ distance \in [Arriving -> Distances]
      /\ schedule = [kind |-> "fcfs", before |-> order, slots |-> Slots(order, Free), subject |-> None]
  BY DEF ArrivalInit
<1>2. Baseline = order /\ schedule.kind = "fcfs" /\ schedule.slots = Slots(order, Free)
  BY <1>1 DEF Baseline
<1>3. PICK n \in Nat : order \in [1 .. n -> Arriving]
  <2>1. Cardinality(Arriving) \in Nat
    BY ArrivalAssumption, FS_CardinalityType
  <2>2. order \in [1 .. Cardinality(Arriving) -> Arriving]
    BY DEF ArrivalInit, Ordered
  <2>3. QED
    BY <2>1, <2>2
<1>4. Completion(order) \in Nat
  BY <1>1, <1>3, CompletionIsNatural
<1>5. Completion(order) <= Completion(Baseline)
  BY <1>2, <1>4
<1>6. QED
  BY <1>1, <1>2, <1>3, <1>5 DEF SequencesInv

LEMMA NextSequences == SearchInv /\ SequencesInv /\ [ArrivalNext]_arrivalVars => SequencesInv'
<1> SUFFICES ASSUME SearchInv, SequencesInv, [ArrivalNext]_arrivalVars PROVE SequencesInv'
  OBVIOUS
<1>1. distance' = distance
  BY DEF ArrivalNext, Improve, Widen, Finish, Insert, arrivalVars
<1>2. /\ \A s, p : Slots(s, p)' = Slots(s, p)
      /\ \A e, q : InsertPriority(e, q)' = InsertPriority(e, q)
      /\ \A s : Completion(s)' = Completion(s)
  BY <1>1, TimesStand
<1>3. distance' \in [Arriving -> Distances]
  BY <1>1 DEF SequencesInv
<1>4. PICK o, b, k : o = order /\ b = Baseline /\ k = schedule
  OBVIOUS
<1>5. ASSUME schedule' = schedule, NEW o1, o1 = order',
             schedule.kind # "priority" => Completion(o1) <= Completion(Baseline)
      PROVE  SequencesInv'
  <2>1. Baseline' = b
    BY <1>4, <1>5 DEF Baseline
  <2>2. Completion(order)' = Completion(o1) /\ Completion(Baseline)' = Completion(b)
    <3>1. Completion(order)' = Completion(o1)'
      BY <1>5 DEF Completion
    <3>2. Completion(Baseline)' = Completion(b)'
      BY <2>1 DEF Completion
    <3>3. QED
      BY <1>2, <3>1, <3>2
  <2>3. ASSUME schedule'.kind # "priority"
        PROVE  /\ \E n \in Nat : \E s \in [1 .. n -> Arriving] : schedule'.slots = Slots(s, Free)'
               /\ \E n \in Nat : Baseline' \in [1 .. n -> Arriving]
               /\ Completion(order)' <= Completion(Baseline)'
    BY <1>2, <1>4, <1>5, <2>1, <2>2, <2>3 DEF SequencesInv
  <2>4. ASSUME schedule'.kind = "priority"
        PROVE  \E e \in Arriving : \E N \in Nat : \E q \in [1 .. N -> Arriving \ {e}] :
                 /\ \A i, j \in 1 .. N : i < j => q[i] # q[j]
                 /\ schedule' = [kind |-> "priority", before |-> q,
                                slots |-> InsertPriority(e, q)', subject |-> e]
    BY <1>2, <1>5, <2>4 DEF SequencesInv
  <2>5. QED
    BY <1>3, <2>3, <2>4 DEF SequencesInv
<1>6. CASE Improve
  <2>1. schedule' = schedule /\ schedule.kind # "priority"
    BY <1>6 DEF Improve, InSearch
  <2>2. PICK i \in Improving : order' = Swapped(order, i)
    BY <1>6 DEF Improve
  <2>3. Completion(order') < Completion(order)
    BY <2>2 DEF Improving
  <2>4. PICK o1 : o1 = order'
    OBVIOUS
  <2>5. Completion(o1) \in Nat /\ Completion(order) \in Nat /\ Completion(Baseline) \in Nat
    <3>1. PICK n \in Nat : order \in [1 .. n -> Arriving]
      BY <2>1 DEF SearchInv
    <3>2. i \in 1 .. n /\ i + 1 \in 1 .. n
      <4>1. i \in 1 .. Len(order) - 1 /\ Len(order) = n
        BY <2>2, <3>1 DEF Improving
      <4>2. QED
        BY <4>1
    <3>3. o1 \in [1 .. n -> Arriving]
      BY <2>2, <2>4, <3>1, <3>2 DEF Swapped
    <3>4. PICK m \in Nat : Baseline \in [1 .. m -> Arriving]
      BY <2>1 DEF SequencesInv
    <3>5. distance \in [Arriving -> Distances]
      BY DEF SequencesInv
    <3>6. QED
      BY <3>1, <3>3, <3>4, <3>5, CompletionIsNatural
  <2>6. Completion(o1) < Completion(order) /\ Completion(order) <= Completion(Baseline)
    BY <2>1, <2>3, <2>4 DEF SequencesInv
  <2>7. Completion(o1) <= Completion(Baseline)
    BY <2>5, <2>6
  <2>8. QED
    BY <1>5, <2>1, <2>4, <2>7
<1>7. CASE Widen \/ UNCHANGED arrivalVars
  <2>1. schedule' = schedule /\ order' = order
    BY <1>7 DEF Widen, arrivalVars
  <2>2. PICK o1 : o1 = order'
    OBVIOUS
  <2>3. schedule.kind # "priority" => Completion(o1) <= Completion(Baseline)
    BY <2>1, <2>2 DEF SequencesInv
  <2>4. QED
    BY <1>5, <2>1, <2>2, <2>3
<1>8. CASE Finish
  <2>1. /\ order' = order /\ schedule.kind # "priority"
        /\ schedule' = [schedule EXCEPT !.kind = "optimised", !.slots = Slots(order, Free)]
    BY <1>8 DEF Finish
  <2>2. /\ schedule'.before = schedule.before
        /\ schedule'.kind = "optimised" /\ schedule'.slots = Slots(order, Free)
    <3>1. PICK kind, before, slots, subject :
            schedule = [kind |-> kind, before |-> before, slots |-> slots, subject |-> subject]
      BY DEF SearchInv
    <3>2. schedule' = [kind |-> "optimised", before |-> before,
                       slots |-> Slots(order, Free), subject |-> subject]
      BY <2>1, <3>1
    <3>3. QED
      BY <3>1, <3>2
  <2>3. Baseline' = b
    BY <1>4, <2>2 DEF Baseline
  <2>4. Completion(order)' = Completion(o) /\ Completion(Baseline)' = Completion(b)
    <3>1. Completion(order)' = Completion(o)'
      BY <1>4, <2>1 DEF Completion
    <3>2. Completion(Baseline)' = Completion(b)'
      BY <2>3 DEF Completion
    <3>3. QED
      BY <1>2, <3>1, <3>2
  <2>5. Completion(order)' <= Completion(Baseline)'
    BY <1>4, <2>1, <2>4 DEF SequencesInv
  <2>6. \E n \in Nat : Baseline' \in [1 .. n -> Arriving]
    BY <1>4, <2>1, <2>3 DEF SequencesInv
  <2>7. \E n \in Nat : \E s \in [1 .. n -> Arriving] : schedule'.slots = Slots(s, Free)'
    <3>1. PICK n \in Nat : o \in [1 .. n -> Arriving]
      BY <1>4, <2>1 DEF SearchInv
    <3>2. schedule'.slots = Slots(o, Free)'
      BY <1>2, <1>4, <2>2
    <3>3. QED
      BY <3>1, <3>2
  <2>8. schedule'.kind # "priority"
    BY <2>2
  <2>9. QED
    BY <1>3, <2>5, <2>6, <2>7, <2>8 DEF SequencesInv
<1>9. ASSUME NEW e \in Arriving, Insert(e) PROVE SequencesInv'
  <2>1. PICK q \in Ordered(Arriving \ {e}, emergency \ {e}) :
          schedule' = [kind |-> "priority", before |-> q,
                       slots |-> InsertPriority(e, q), subject |-> e]
    BY <1>9 DEF Insert
  <2>2. PICK N : N = Cardinality(Arriving \ {e})
    OBVIOUS
  <2>3. N \in Nat
    BY <2>2, ArrivalAssumption, FS_CardinalityType, FS_RemoveElement
  <2>4. q \in [1 .. N -> Arriving \ {e}] /\ \A i, j \in 1 .. N : i < j => q[i] # q[j]
    BY <2>2 DEF Ordered
  <2>5. schedule' = [kind |-> "priority", before |-> q,
                     slots |-> InsertPriority(e, q)', subject |-> e]
    BY <1>2, <2>1
  <2>6. schedule'.kind = "priority"
    BY <2>1
  <2>7. QED
    BY <1>3, <2>3, <2>4, <2>5, <2>6 DEF SequencesInv
<1>10. QED
  BY <1>6, <1>7, <1>8, <1>9 DEF ArrivalNext

LEMMA SequencesInvariant == ArrivalSpec => [](SearchInv /\ SequencesInv)
  BY InitSearch, NextSearch, InitSequences, NextSequences, PTL DEF ArrivalSpec

LEMMA SpacedIsSeparated ==
  ASSUME distance \in [Arriving -> Distances],
         NEW slots, NEW n \in Nat, NEW s, NEW t, Shows(slots, n, s, t), Spaced(n, s, t)
  PROVE  \A i \in 1 .. Len(slots) - 1 :
           LET a == slots[i]
               b == slots[i + 1]
           IN  /\ KeptOnFinal(a.callsign, b.callsign, b.time - a.time)
               /\ b.time - a.time >= Kind[a.callsign].occupancy + RunwayBuffer
               /\ b.time >= Earliest(b.callsign)
<1> SUFFICES ASSUME NEW i \in 1 .. Len(slots) - 1
             PROVE  /\ KeptOnFinal(slots[i].callsign, slots[i + 1].callsign,
                                   slots[i + 1].time - slots[i].time)
                    /\ slots[i + 1].time - slots[i].time
                         >= Kind[slots[i].callsign].occupancy + RunwayBuffer
                    /\ slots[i + 1].time >= Earliest(slots[i + 1].callsign)
  OBVIOUS
<1>1. Len(slots) = n
  BY ShownFields
<1>2. i \in 1 .. n /\ i + 1 \in 1 .. n /\ (i + 1) - 1 = i
  BY <1>1
<1>3. /\ slots[i].callsign = s[i] /\ slots[i].time = t[i]
      /\ slots[i + 1].callsign = s[i + 1] /\ slots[i + 1].time = t[i + 1]
  BY <1>2, ShownFields
<1>4. s \in [1 .. n -> Arriving] /\ t \in [1 .. n -> Nat]
  BY DEF Shows
<1>5. s[i] \in Arriving /\ s[i + 1] \in Arriving /\ t[i] \in Nat /\ t[i + 1] \in Nat
  BY <1>2, <1>4
<1>6. t[i + 1] >= t[i] + Gap(s[i], s[i + 1]) /\ t[i + 1] >= Earliest(s[i + 1])
  BY <1>2 DEF Spaced
<1>7. Gap(s[i], s[i + 1]) \in Nat
  BY <1>5, GapParts
<1>8. PICK gap \in Nat : gap = t[i + 1] - t[i] /\ gap >= Gap(s[i], s[i + 1])
  <2>1. t[i + 1] - t[i] \in Nat /\ t[i + 1] - t[i] >= Gap(s[i], s[i + 1])
    BY <1>5, <1>6, <1>7
  <2>2. QED
    BY <2>1
<1>9. KeptOnFinal(s[i], s[i + 1], gap) /\ gap >= Kind[s[i]].occupancy + RunwayBuffer
  BY <1>5, <1>8, GapKeepsInTrail
<1>10. QED
  BY <1>3, <1>6, <1>8, <1>9

(* No schedule the sequencer makes, of any number of arrivals at any        *)
(* distances and paces, swapped in any way or with an emergency put in,     *)
(* brings two of them closer than the rules allow anywhere on final or on   *)
(* the runway (build, insert_priority).                                     *)
THEOREM SlotsSeparated == ArrivalSpec => []SlotsAreSeparated
<1>1. SequencesInv => SlotsAreSeparated
  <2> SUFFICES ASSUME SequencesInv PROVE SlotsAreSeparated
    OBVIOUS
  <2>1. distance \in [Arriving -> Distances]
    BY DEF SequencesInv
  <2>2. \E n \in Nat : \E s, t : Shows(schedule.slots, n, s, t) /\ Spaced(n, s, t)
    <3>1. CASE schedule.kind # "priority"
      <4>1. PICK n \in Nat : \E s \in [1 .. n -> Arriving] : schedule.slots = Slots(s, Free)
        BY <3>1 DEF SequencesInv
      <4>2. PICK s \in [1 .. n -> Arriving] : schedule.slots = Slots(s, Free)
        BY <4>1
      <4>3. PICK t : Shows(Slots(s, Free), n, s, t) /\ Spaced(n, s, t)
        BY <2>1, FreeSlots
      <4>4. QED
        BY <4>2, <4>3
    <3>2. CASE schedule.kind = "priority"
      <4>1. PICK e \in Arriving, N \in Nat : \E q \in [1 .. N -> Arriving \ {e}] :
              /\ \A i, j \in 1 .. N : i < j => q[i] # q[j]
              /\ schedule = [kind |-> "priority", before |-> q,
                             slots |-> InsertPriority(e, q), subject |-> e]
        BY <3>2 DEF SequencesInv
      <4>2. PICK q \in [1 .. N -> Arriving \ {e}] :
              /\ \A i, j \in 1 .. N : i < j => q[i] # q[j]
              /\ schedule = [kind |-> "priority", before |-> q,
                             slots |-> InsertPriority(e, q), subject |-> e]
        BY <4>1
      <4>3. schedule.slots = InsertPriority(e, q)
        BY <4>2
      <4>4. PICK s, t : Shows(InsertPriority(e, q), N + 1, s, t) /\ Spaced(N + 1, s, t)
        BY <2>1, <4>2, PrioritySlots
      <4>5. N + 1 \in Nat
        OBVIOUS
      <4>6. QED
        BY <4>3, <4>4, <4>5
    <3>3. QED
      BY <3>1, <3>2
  <2>3. PICK n \in Nat : \E s, t : Shows(schedule.slots, n, s, t) /\ Spaced(n, s, t)
    BY <2>2
  <2>4. PICK s, t : Shows(schedule.slots, n, s, t) /\ Spaced(n, s, t)
    BY <2>3
  <2>5. QED
    BY <2>1, <2>4, SpacedIsSeparated DEF SlotsAreSeparated
<1>2. QED
  BY SequencesInvariant, <1>1, PTL

(* However often and however far the search widens its limit, it ends no    *)
(* later than first come, first served, within the limit reached, and with  *)
(* every emergency in its place (optimize_order).                           *)
THEOREM SearchKeepsPromises == ArrivalSpec => []SearchKeepsItsPromises
<1>1. SearchInv /\ SequencesInv /\ EmergencyKeepsItsPlace => SearchKeepsItsPromises
  BY DEF SearchInv, SequencesInv, ShiftIsLimited, SearchKeepsItsPromises
<1>2. QED
  BY SequencesInvariant, EmergencyUnmoved, <1>1, PTL
-----------------------------------------------------------------------------
(* The final is no shorter than any distance required on it.  The published *)
(* one is: from its intermediate fix TURTU, where arrivals join, there are  *)
(* more than twelve miles to the threshold, and no pair needs more than     *)
(* eight.                                                                   *)
FinalIsLong ==
  \A l, f \in Arriving : Trail(l, f) <= Join

LEMMA LargerGrows ==
  ASSUME NEW x \in Nat, NEW u \in Nat
  PROVE  /\ Larger(3, u) \in Nat /\ Larger(3 + x, u) \in Nat
         /\ Larger(3 + x, u) >= 3 + x /\ Larger(3 + x, u) >= Larger(3, u)
  BY DEF Larger

LEMMA RequiredThroughAThird ==
  ASSUME NEW a \in Categories, NEW e \in Categories, NEW b \in Categories,
         NEW fa \in BOOLEAN, NEW fe \in BOOLEAN, NEW fb \in BOOLEAN
  PROVE  RequiredInTrail(a, b, fa, fb)
           <= RequiredInTrail(a, e, fa, fe) + RequiredInTrail(e, b, fe, fb)
<1>1. /\ FormationExtra(fa, fb) \in {0, 1, 2}
      /\ FormationExtra(fa, fe) \in {0, 1, 2} /\ FormationExtra(fe, fb) \in {0, 1, 2}
      /\ FormationExtra(fa, fb) <= FormationExtra(fa, fe) + FormationExtra(fe, fb)
  BY DEF FormationExtra
<1>2. PICK x \in Nat, y \in Nat, z \in Nat :
        /\ x = FormationExtra(fa, fb) /\ y = FormationExtra(fa, fe) /\ z = FormationExtra(fe, fb)
        /\ x <= y + z
  BY <1>1
<1>3. PICK u \in Nat, v \in Nat, w \in Nat :
        /\ u = WakeByCategory(a, b, TRUE) /\ v = WakeByCategory(a, e, TRUE)
        /\ w = WakeByCategory(e, b, TRUE) /\ u <= Larger(3, v) + Larger(3, w)
  BY DEF Categories, WakeByCategory, Larger, InFlight, Landing
<1>4. /\ RequiredInTrail(a, b, fa, fb) = Larger(3 + x, u)
      /\ RequiredInTrail(a, e, fa, fe) = Larger(3 + y, v)
      /\ RequiredInTrail(e, b, fe, fb) = Larger(3 + z, w)
  BY <1>2, <1>3 DEF RequiredInTrail, RadarMinimum
<1>5. PICK j \in Nat : j = Larger(3 + y, v) /\ j >= 3 + y /\ j >= Larger(3, v)
  BY LargerGrows
<1>6. PICK k \in Nat : k = Larger(3 + z, w) /\ k >= 3 + z /\ k >= Larger(3, w)
  BY LargerGrows
<1>7. u <= j + k
  <2>1. PICK p \in Nat, q \in Nat : p = Larger(3, v) /\ q = Larger(3, w)
    BY LargerGrows
  <2>2. u <= p + q
    BY <1>3, <2>1
  <2>3. p <= j /\ q <= k
    BY <1>5, <1>6, <2>1
  <2>4. QED
    BY <2>2, <2>3
<1>8. 3 + x <= j + k
  BY <1>2, <1>5, <1>6
<1>9. Larger(3 + x, u) <= j + k
  BY <1>7, <1>8 DEF Larger
<1>10. QED
  BY <1>4, <1>5, <1>6, <1>9

LEMMA MoreOfMore ==
  ASSUME NEW a \in Nat, NEW b \in Nat, NEW c \in Nat, NEW d \in Nat, a <= b, c <= d
  PROVE  a * c <= b * d
<1>1. a * c <= b * c
  BY MoreTimes
<1>2. c * b <= d * b
  BY MoreTimes
<1>3. c * b = b * c /\ d * b = b * d /\ a * c \in Nat /\ b * c \in Nat /\ b * d \in Nat
  OBVIOUS
<1>4. QED
  BY <1>1, <1>2, <1>3

(* An arrival put in between two others never lets the second one come      *)
(* closer behind the first.                                                 *)
LEMMA GapThroughAThird ==
  ASSUME FinalIsLong, NEW a \in Arriving, NEW e \in Arriving, NEW b \in Arriving
  PROVE  Gap(a, b) <= Gap(a, e) + Gap(e, b)
<1>1. PICK pa \in Nat, pe \in Nat, pb \in Nat, J \in Nat, o \in Nat :
        /\ pa = Kind[a].pace /\ pe = Kind[e].pace /\ pb = Kind[b].pace
        /\ J = Join /\ o = Kind[a].occupancy + RunwayBuffer
  <2>1. /\ Kind[a].pace \in Nat /\ Kind[e].pace \in Nat /\ Kind[b].pace \in Nat
        /\ Kind[a].occupancy + RunwayBuffer \in Nat
    BY KindIsTyped
  <2>2. Join \in Nat
    BY ArrivalAssumption
  <2>3. QED
    BY <2>1, <2>2
<1>2. PICK R, R1, R2 :
        R = Trail(a, b) /\ R1 = Trail(a, e) /\ R2 = Trail(e, b)
  OBVIOUS
<1>3. R \in Nat /\ R1 \in Nat /\ R2 \in Nat /\ R <= R1 + R2 /\ R <= J
  <2>1. \A c \in {a, e, b} : Kind[c].wake \in Categories /\ Kind[c].formation \in BOOLEAN
    BY KindIsTyped
  <2>2. R \in Nat /\ R1 \in Nat /\ R2 \in Nat
    BY <1>2, TrailIsNat
  <2>3. R <= R1 + R2
    BY <1>2, <2>1, RequiredThroughAThird DEF Trail
  <2>4. R <= J
    BY <1>1, <1>2 DEF FinalIsLong
  <2>5. QED
    BY <2>2, <2>3, <2>4
<1>4. PICK ga \in Nat, gb \in Nat, gc \in Nat :
        /\ ga = Gap(a, e) /\ gb = Gap(e, b) /\ gc = Gap(a, b)
        /\ ga >= R1 * pe /\ ga >= R1 * pa + J * (pe - pa) /\ ga >= o
        /\ gb >= R2 * pb /\ gb >= R2 * pe + J * (pb - pe)
        /\ gc = R * pb \/ gc = R * pa + J * (pb - pa) \/ gc = o
  <2>1. /\ Gap(a, e) \in Nat /\ Gap(a, e) >= R1 * pe
        /\ Gap(a, e) >= R1 * pa + J * (pe - pa) /\ Gap(a, e) >= o
    BY <1>1, <1>2, GapParts
  <2>2. /\ Gap(e, b) \in Nat /\ Gap(e, b) >= R2 * pb
        /\ Gap(e, b) >= R2 * pe + J * (pb - pe)
    BY <1>1, <1>2, GapParts
  <2>3. /\ Gap(a, b) \in Nat
        /\ Gap(a, b) = R * pb \/ Gap(a, b) = R * pa + J * (pb - pa) \/ Gap(a, b) = o
    BY <1>1, <1>2, GapParts
  <2>4. QED
    BY <2>1, <2>2, <2>3
<1>5. /\ R1 * pe \in Nat /\ R2 * pe \in Nat /\ R * pe \in Nat /\ R1 * pa \in Nat
      /\ R2 * pb \in Nat /\ R * pb \in Nat /\ R * pa \in Nat
      /\ J * pa \in Nat /\ J * pb \in Nat /\ J * pe \in Nat
      /\ R1 * pb \in Nat /\ R2 * pa \in Nat
  BY <1>3, ProductIsNatural
<1>6. /\ J * (pe - pa) = J * pe - J * pa /\ J * (pb - pe) = J * pb - J * pe
      /\ J * (pb - pa) = J * pb - J * pa
  OBVIOUS
<1>7. ASSUME NEW p \in Nat PROVE R * p <= R1 * p + R2 * p
  <2>1. R * p <= (R1 + R2) * p
    BY <1>3, MoreTimes
  <2>2. (R1 + R2) * p = R1 * p + R2 * p
    BY <1>3
  <2>3. QED
    BY <2>1, <2>2
(* Between a slower and a faster pace, the length of the final outweighs    *)
(* the distance required.                                                   *)
<1>8. ASSUME NEW p \in Nat, NEW q \in Nat, p <= q
      PROVE  J * p + R * q <= J * q + R * p
  <2>1. q - p \in Nat /\ R * (q - p) <= J * (q - p)
    BY <1>3, <1>8, MoreTimes
  <2>2. R * (q - p) = R * q - R * p /\ J * (q - p) = J * q - J * p
    BY <1>3
  <2>3. R * q \in Nat /\ R * p \in Nat /\ J * q \in Nat /\ J * p \in Nat
    BY <1>3, ProductIsNatural
  <2>4. QED
    BY <2>1, <2>2, <2>3
<1>9. CASE gc = o
  BY <1>4, <1>9
<1>10. CASE gc = R * pb
  <2>1. CASE pb <= pe
    <3>1. R1 * pb <= R1 * pe
      BY <1>3, <2>1, MoreOfMore
    <3>2. R * pb <= R1 * pb + R2 * pb
      BY <1>7
    <3>3. QED
      BY <1>4, <1>5, <1>10, <3>1, <3>2
  <2>2. CASE pe <= pb
    <3>1. J * pe + R * pb <= J * pb + R * pe
      BY <1>8, <2>2
    <3>2. R * pe <= R1 * pe + R2 * pe
      BY <1>7
    <3>3. QED
      BY <1>4, <1>5, <1>6, <1>10, <3>1, <3>2
  <2>3. QED
    BY <2>1, <2>2
<1>11. CASE gc = R * pa + J * (pb - pa)
  <2>1. CASE pa <= pe
    <3>1. R2 * pa <= R2 * pe
      BY <1>3, <2>1, MoreOfMore
    <3>2. R * pa <= R1 * pa + R2 * pa
      BY <1>7
    <3>3. QED
      BY <1>4, <1>5, <1>6, <1>11, <3>1, <3>2
  <2>2. CASE pe <= pa
    <3>1. J * pe + R * pa <= J * pa + R * pe
      BY <1>8, <2>2
    <3>2. R * pe <= R1 * pe + R2 * pe
      BY <1>7
    <3>3. QED
      BY <1>4, <1>5, <1>6, <1>11, <3>1, <3>2
  <2>3. QED
    BY <2>1, <2>2
<1>12. QED
  BY <1>4, <1>9, <1>10, <1>11

(* Where the i-th of the others stands once the emergency is behind n.      *)
Moved(i, n) == IF i <= n THEN i ELSE i + 1

LEMMA NobodyGains ==
  ASSUME distance \in [Arriving -> Distances], FinalIsLong,
         NEW e \in Arriving, NEW N \in Nat, NEW q, q \in [1 .. N -> Arriving],
         NEW n \in 0 .. N, NEW b, b \in [1 .. N -> Nat],
         \A i \in 1 .. N : i - 1 \in 1 .. N =>
           b[i] = Larger(Earliest(q[i]), b[i - 1] + Gap(q[i - 1], q[i])),
         N > 0 => b[1] = Earliest(q[1]),
         NEW s, PutBehind(s, N, q, e, n),
         NEW t, t \in [1 .. N + 1 -> Nat], Spaced(N + 1, s, t),
         \A i \in 1 .. n : t[i] = b[i]
  PROVE  \A i \in 1 .. N : t[Moved(i, n)] >= b[i]
<1> DEFINE S == {i \in 1 .. N : t[Moved(i, n)] >= b[i]}
<1>1. \A i \in 1 .. N + 1 :
        s[i] = IF i <= n THEN q[i] ELSE IF i = n + 1 THEN e ELSE q[i - 1]
  BY DEF PutBehind
<1>2. \A i \in 1 .. N + 1 :
        /\ t[i] >= Earliest(s[i])
        /\ i - 1 \in 1 .. N + 1 => t[i] >= t[i - 1] + Gap(s[i - 1], s[i])
  BY DEF Spaced
<1>3. ASSUME NEW i \in 1 .. N, i > n
      PROVE  /\ Moved(i, n) = i + 1 /\ i + 1 \in 1 .. N + 1 /\ s[i + 1] = q[i]
             /\ t[i + 1] \in Nat /\ Earliest(q[i]) \in Nat /\ t[i + 1] >= Earliest(q[i])
             /\ t[i + 1] >= t[i] + Gap(s[i], q[i])
  <2>1. i + 1 \in 1 .. N + 1 /\ i \in 1 .. N + 1 /\ ~ (i + 1 <= n) /\ i + 1 # n + 1
         /\ (i + 1) - 1 = i /\ ~ (i <= n)
    BY <1>3
  <2>2. Moved(i, n) = i + 1
    BY <2>1 DEF Moved
  <2>3. s[i + 1] = q[i]
    BY <1>1, <2>1
  <2>4. t[i + 1] \in Nat /\ Earliest(q[i]) \in Nat
    BY <2>1, EarliestIsNatural
  <2>5. t[i + 1] >= Earliest(q[i]) /\ t[i + 1] >= t[i] + Gap(s[i], q[i])
    BY <1>2, <2>1, <2>3
  <2>6. QED
    BY <2>1, <2>2, <2>3, <2>4, <2>5
<1>4. 1 \in S \/ N = 0
  <2> SUFFICES ASSUME N # 0 PROVE t[Moved(1, n)] >= b[1]
    OBVIOUS
  <2>1. 1 \in 1 .. N /\ b[1] = Earliest(q[1]) /\ b[1] \in Nat
    OBVIOUS
  <2>2. CASE 1 <= n
    <3>1. 1 \in 1 .. n /\ Moved(1, n) = 1
      BY <2>2 DEF Moved
    <3>2. QED
      BY <2>1, <3>1
  <2>3. CASE ~ (1 <= n)
    <3>1. 1 > n
      BY <2>3
    <3>2. Moved(1, n) = 2 /\ t[2] >= Earliest(q[1])
      BY <1>3, <2>1, <3>1
    <3>3. QED
      BY <2>1, <3>2
  <2>4. QED
    BY <2>2, <2>3
<1>5. ASSUME NEW i \in 1 .. N, i \in S, i + 1 \in 1 .. N
      PROVE  i + 1 \in S
  <2>1. t[Moved(i, n)] >= b[i]
    BY <1>5
  <2>2. (i + 1) - 1 = i /\ i \in Nat /\ n \in Nat
    OBVIOUS
  <2>3. b[i + 1] = Larger(Earliest(q[i + 1]), b[i] + Gap(q[i], q[i + 1]))
    BY <1>5, <2>2
  <2>4. b[i] \in Nat /\ b[i + 1] \in Nat /\ q[i] \in Arriving /\ q[i + 1] \in Arriving
    BY <1>5
  <2>5. Gap(q[i], q[i + 1]) \in Nat
    BY <2>4, GapParts
  <2>6. CASE i + 1 <= n
    <3>1. i + 1 \in 1 .. n /\ Moved(i + 1, n) = i + 1
      BY <2>6, <2>2 DEF Moved
    <3>2. t[Moved(i + 1, n)] >= b[i + 1]
      BY <2>4, <3>1, SMTT(20)
    <3>3. QED
      BY <1>5, <3>2
  <2>7. CASE i + 1 > n
    <3>1. /\ Moved(i + 1, n) = (i + 1) + 1 /\ s[(i + 1) + 1] = q[i + 1]
          /\ t[(i + 1) + 1] \in Nat /\ Earliest(q[i + 1]) \in Nat
          /\ t[(i + 1) + 1] >= Earliest(q[i + 1])
          /\ t[(i + 1) + 1] >= t[i + 1] + Gap(s[i + 1], q[i + 1])
      BY <1>3, <1>5, <2>7
    <3>2. i + 1 \in 1 .. N + 1 /\ i \in 1 .. N + 1
      BY <1>5
    <3>3. t[i + 1] + Gap(s[i + 1], q[i + 1]) >= b[i] + Gap(q[i], q[i + 1])
      <4>1. CASE i > n
        <5>1. s[i + 1] = q[i] /\ Moved(i, n) = i + 1 /\ t[i + 1] \in Nat
          BY <1>3, <4>1
        <5>2. t[i + 1] >= b[i]
          BY <2>1, <5>1
        <5>3. PICK x \in Nat, y \in Nat, g \in Nat :
                x = t[i + 1] /\ y = b[i] /\ g = Gap(q[i], q[i + 1])
          BY <2>4, <2>5, <5>1
        <5>4. t[i + 1] + Gap(s[i + 1], q[i + 1]) = x + g
          BY <5>1, <5>3
        <5>5. QED
          BY <5>2, <5>3, <5>4
      <4>2. CASE ~ (i > n)
        <5>1. i = n /\ i \in 1 .. n /\ i <= n
          BY <2>2, <2>7, <4>2
        <5>2. s[i + 1] = e /\ s[i] = q[i] /\ t[i] = b[i]
          BY <1>1, <3>2, <5>1
        <5>3. t[i + 1] >= t[i] + Gap(s[i], s[i + 1])
          BY <1>2, <2>2, <3>2
        <5>4. t[i + 1] \in Nat /\ t[i] \in Nat
          BY <3>2
        <5>5. Gap(q[i], q[i + 1]) <= Gap(q[i], e) + Gap(e, q[i + 1])
          BY <2>4, GapThroughAThird
        <5>6. Gap(q[i], e) \in Nat /\ Gap(e, q[i + 1]) \in Nat
          BY <2>4, GapParts
        <5>7. QED
          BY <2>4, <2>5, <5>2, <5>3, <5>4, <5>5, <5>6, SMTT(20)
      <4>3. QED
        BY <4>1, <4>2
    <3>4. t[i + 1] + Gap(s[i + 1], q[i + 1]) \in Nat
      <4>1. s[i + 1] \in Arriving
        <5>1. s[i + 1] = IF i + 1 <= n THEN q[i + 1]
                         ELSE IF i + 1 = n + 1 THEN e ELSE q[(i + 1) - 1]
          BY <1>1, <3>2
        <5>2. (i + 1) - 1 = i
          BY <2>2
        <5>3. s[i + 1] \in {q[i + 1], e, q[i]}
          BY <5>1, <5>2
        <5>4. QED
          BY <2>4, <5>3
      <4>2. Gap(s[i + 1], q[i + 1]) \in Nat /\ t[i + 1] \in Nat
        BY <2>4, <3>2, <4>1, GapParts
      <4>3. QED
        BY <4>2
    <3>5. t[(i + 1) + 1] >= b[i + 1]
      <4>1. PICK x \in Nat, y \in Nat, z \in Nat, w \in Nat :
              /\ x = t[(i + 1) + 1] /\ y = Earliest(q[i + 1])
              /\ z = b[i] + Gap(q[i], q[i + 1]) /\ w = t[i + 1] + Gap(s[i + 1], q[i + 1])
        <5>1. b[i] + Gap(q[i], q[i + 1]) \in Nat
          <6>1. PICK x \in Nat, y \in Nat : x = b[i] /\ y = Gap(q[i], q[i + 1])
            BY <2>4, <2>5
          <6>2. x + y \in Nat
            OBVIOUS
          <6>3. QED
            BY <6>1, <6>2
        <5>2. QED
          BY <3>1, <3>4, <5>1
      <4>2. x >= y /\ x >= w /\ w >= z
        BY <3>1, <3>3, <4>1
      <4>3. x >= Larger(y, z)
        BY <4>2 DEF Larger
      <4>4. QED
        BY <2>3, <4>1, <4>3
    <3>6. QED
      BY <1>5, <3>1, <3>5
  <2>8. QED
    BY <2>2, <2>6, <2>7
<1>6. \A i \in 1 .. N : i \in S
  <2> HIDE DEF S
  <2>1. QED
    BY <1>4, <1>5, PlaceInduction
<1>7. QED
  BY <1>6

(* Where the final is as long as the published one, an emergency put in     *)
(* costs only those behind it: the committed and those who land before it   *)
(* can be there keep slot, level and time, nobody lands earlier than        *)
(* before, and with nobody of those it lands as early as it can             *)
(* (insert_priority).                                                       *)
THEOREM PriorityMeasured ==
  ASSUME FinalIsLong
  PROVE  ArrivalSpec => []PriorityIsMeasured
<1>1. SequencesInv => PriorityIsMeasured
  <2> SUFFICES ASSUME SequencesInv, schedule.kind = "priority" PROVE PriorityIsMeasured
    BY DEF PriorityIsMeasured
  <2>1. distance \in [Arriving -> Distances]
    BY DEF SequencesInv
  <2>2. PICK e \in Arriving, N \in Nat : \E q \in [1 .. N -> Arriving \ {e}] :
          /\ \A i, j \in 1 .. N : i < j => q[i] # q[j]
          /\ schedule = [kind |-> "priority", before |-> q,
                         slots |-> InsertPriority(e, q), subject |-> e]
    BY DEF SequencesInv
  <2>3. PICK q \in [1 .. N -> Arriving \ {e}] :
          /\ \A i, j \in 1 .. N : i < j => q[i] # q[j]
          /\ schedule = [kind |-> "priority", before |-> q,
                         slots |-> InsertPriority(e, q), subject |-> e]
    BY <2>2
  <2>4. /\ schedule.subject = e /\ Baseline = q /\ schedule.slots = InsertPriority(e, q)
        /\ q \in [1 .. N -> Arriving]
    BY <2>3 DEF Baseline
  <2>5. PICK n, b, s, t :
          /\ Shows(Slots(q, Free), N, q, b) /\ Spaced(N, q, b)
          /\ \A i \in 1 .. N : i - 1 \in 1 .. N =>
               b[i] = Larger(Earliest(q[i]), b[i - 1] + Gap(q[i - 1], q[i]))
          /\ N > 0 => b[1] = Earliest(q[1])
          /\ BehindTheCommitted(n, N, q, b, e)
          /\ Shows(InsertPriority(e, q), N + 1, s, t) /\ Spaced(N + 1, s, t)
          /\ PutBehind(s, N, q, e, n)
          /\ \A i \in 1 .. n : t[i] = b[i]
          /\ n = 0 => t[1] = Earliest(e)
    BY <2>1, <2>3, PrioritySlots, ZenonT(40)
  <2>6. PICK old, new : old = Slots(q, Free) /\ new = schedule.slots
    OBVIOUS
  <2>7. /\ n \in 0 .. N
        /\ \A i \in 1 .. N : b[i] <= Earliest(e) \/ distance[q[i]] <= FreezeAt => i <= n
        /\ (\A i \in 1 .. N : ~ (b[i] <= Earliest(e) \/ distance[q[i]] <= FreezeAt)) => n = 0
    BY <2>5 DEF BehindTheCommitted
  <2>8. /\ b \in [1 .. N -> Nat] /\ s \in [1 .. N + 1 -> Arriving]
        /\ t \in [1 .. N + 1 -> Nat]
    BY <2>5 DEF Shows
  <2>9. /\ DOMAIN old = 1 .. N
        /\ \A i \in 1 .. N :
             old[i] = [callsign |-> q[i], time |-> b[i],
                       level |-> AssignedLevel(Ladder, i - 1),
                       holding |-> LadderExhausted(Ladder, i - 1)]
    BY <2>5, <2>6 DEF Shows, Lists
  <2>10. /\ DOMAIN new = 1 .. N + 1
         /\ \A i \in 1 .. N + 1 :
              new[i] = [callsign |-> s[i], time |-> t[i],
                        level |-> AssignedLevel(Ladder, i - 1),
                        holding |-> LadderExhausted(Ladder, i - 1)]
    BY <2>4, <2>5, <2>6 DEF Shows, Lists
  <2>11. \A i \in 1 .. N + 1 :
           s[i] = IF i <= n THEN q[i] ELSE IF i = n + 1 THEN e ELSE q[i - 1]
    BY <2>5 DEF PutBehind
  <2>12. \A i \in 1 .. N : t[Moved(i, n)] >= b[i]
    BY <2>1, <2>4, <2>5, <2>7, <2>8, NobodyGains
  <2> DEFINE Place(a) == CHOOSE i \in DOMAIN new : new[i].callsign = a
             kept == {i \in DOMAIN old : \/ old[i].time <= Earliest(e)
                                         \/ distance[old[i].callsign] <= FreezeAt}
  <2>13. ASSUME NEW i \in 1 .. N + 1 PROVE Place(s[i]) = i
    <3>1. \A j \in 1 .. N + 1 : s[j] = s[i] => j = i
      <4> SUFFICES ASSUME NEW j \in 1 .. N + 1, NEW k \in 1 .. N + 1, j < k, s[j] = s[k]
                   PROVE  FALSE
        BY <2>13
      <4> DEFINE from(m) == IF m <= n THEN m ELSE m - 1
      <4>1. n \in Nat /\ n <= N
        BY <2>7
      <4>2. ASSUME NEW m \in 1 .. N + 1, m # n + 1
            PROVE  from(m) \in 1 .. N /\ s[m] = q[from(m)] /\ s[m] # e
        <5>1. from(m) \in 1 .. N
          BY <4>1, <4>2
        <5>2. s[m] = q[from(m)]
          BY <2>11, <4>2
        <5>3. q[from(m)] \in Arriving \ {e}
          <6> HIDE DEF from
          <6>1. QED
            BY <5>1
        <5>4. QED
          BY <5>1, <5>2, <5>3
      <4>3. s[n + 1] = e
        BY <2>11, <4>1
      <4>4. j # n + 1 /\ k # n + 1
        <5> HIDE DEF from
        <5>1. QED
          BY <4>2, <4>3
      <4>5. from(j) < from(k)
        BY <4>1, <4>4
      <4>6. q[from(j)] = q[from(k)] /\ from(j) \in 1 .. N /\ from(k) \in 1 .. N
        <5> HIDE DEF from
        <5>1. QED
          BY <4>2, <4>4
      <4>7. QED
        <5> HIDE DEF from
        <5>1. QED
          BY <2>3, <4>5, <4>6
    <3>2. \A j \in DOMAIN new : new[j].callsign = s[j]
      BY <2>10
    <3>3. \A j \in DOMAIN new : new[j].callsign = s[i] <=> j = i
      BY <2>10, <3>1, <3>2
    <3>4. QED
      BY <2>10, <3>3
  <2>14. ASSUME NEW i \in 1 .. N
         PROVE  /\ new[Place(old[i].callsign)].time >= old[i].time
                /\ i \in kept => new[Place(old[i].callsign)] = old[i]
    <3>1. n \in Nat /\ n <= N /\ old[i].callsign = q[i] /\ old[i].time = b[i]
      BY <2>7, <2>9
    <3>2. PICK m : m = Moved(i, n)
      OBVIOUS
    <3>3. m \in 1 .. N + 1 /\ s[m] = q[i]
      <4>1. CASE i <= n
        <5>1. m = i /\ i \in 1 .. N + 1
          BY <3>2, <4>1 DEF Moved
        <5>2. QED
          BY <2>11, <4>1, <5>1
      <4>2. CASE ~ (i <= n)
        <5>1. m = i + 1 /\ m \in 1 .. N + 1 /\ ~ (m <= n) /\ m # n + 1 /\ m - 1 = i
          BY <3>1, <3>2, <4>2 DEF Moved
        <5>2. QED
          BY <2>11, <5>1
      <4>3. QED
        BY <4>1, <4>2
    <3>4. Place(old[i].callsign) = m
      <4>1. Place(s[m]) = m
        <5> HIDE DEF Place
        <5>1. QED
          BY <2>13, <3>3
      <4> HIDE DEF Place
      <4>2. QED
        BY <3>1, <3>3, <4>1
    <3>5. new[m].time = t[m] /\ t[m] >= b[i]
      BY <2>10, <2>12, <3>2, <3>3
    <3>6. ASSUME i \in kept PROVE new[m] = old[i]
      <4>1. b[i] <= Earliest(e) \/ distance[q[i]] <= FreezeAt
        BY <3>1, <3>6
      <4>2. i <= n
        BY <2>7, <4>1
      <4>3. i \in 1 .. n /\ m = i /\ t[i] = b[i] /\ s[i] = q[i]
        BY <2>5, <3>1, <3>2, <3>3, <4>2 DEF Moved
      <4>4. QED
        BY <2>9, <2>10, <3>3, <4>3
    <3>7. QED
      <4> HIDE DEF Place, kept
      <4>1. QED
        BY <3>1, <3>4, <3>5, <3>6
  <2>15. ASSUME kept = {} PROVE new[Place(e)].time = Earliest(e)
    <3>1. \A i \in 1 .. N : ~ (b[i] <= Earliest(e) \/ distance[q[i]] <= FreezeAt)
      <4> SUFFICES ASSUME NEW i \in 1 .. N, b[i] <= Earliest(e) \/ distance[q[i]] <= FreezeAt
                   PROVE  FALSE
        OBVIOUS
      <4>1. old[i].callsign = q[i] /\ old[i].time = b[i]
        BY <2>9
      <4>2. i \in kept
        BY <2>9, <4>1
      <4>3. QED
        BY <2>15, <4>2
    <3>2. n = 0 /\ t[1] = Earliest(e) /\ 1 \in 1 .. N + 1
      BY <2>5, <2>7, <3>1
    <3>3. s[1] = e
      BY <2>11, <3>2
    <3>4. Place(e) = 1
      <4>1. Place(s[1]) = 1
        <5> HIDE DEF Place
        <5>1. QED
          BY <2>13, <3>2
      <4> HIDE DEF Place
      <4>2. QED
        BY <3>3, <4>1
    <3>5. new[1].time = t[1]
      BY <2>10, <3>2
    <3> HIDE DEF Place
    <3>6. QED
      BY <3>2, <3>4, <3>5
  <2>16. \A i \in DOMAIN old :
           /\ new[Place(old[i].callsign)].time >= old[i].time
           /\ i \in kept => new[Place(old[i].callsign)] = old[i]
    <3> HIDE DEF Place, kept
    <3>1. QED
      BY <2>9, <2>14
  <2>17. QED
    BY <2>4, <2>6, <2>15, <2>16 DEF PriorityIsMeasured
<1>2. QED
  BY SequencesInvariant, <1>1, PTL

-----------------------------------------------------------------------------
(* The way home.                                                            *)

LEMMA MilesAreDistances ==
  /\ \A a, b \in Places : Miles(a, b) \in Nat
  /\ \A a \in Places : Miles(a, a) = 0
  /\ \A a, b, c \in Places : Miles(a, c) <= Miles(a, b) + Miles(b, c)
<1>1. Dist \in [Places \X Places -> Nat]
  BY RouteAssumption
<1>2. \A a, b \in Places : Miles(a, b) \in Nat
  <2> TAKE a, b \in Places
  <2>1. <<a, b>> \in Places \X Places
    OBVIOUS
  <2>2. QED
    BY <1>1, <2>1 DEF Miles
<1>3. QED
  BY <1>2, RouteAssumption

LEMMA PlacesAreFinite ==
  /\ IsFiniteSet(Fixes) /\ IsFiniteSet(Places)
  /\ Cardinality(Fixes) \in Nat /\ Cardinality(Places) = Cardinality(Fixes) + 1
<1>1. IsFiniteSet(Fixes) /\ Start \notin Fixes
  BY RouteAssumption
<1>2. IsFiniteSet(Fixes \cup {Start}) /\ Cardinality(Fixes \cup {Start}) = Cardinality(Fixes) + 1
  BY <1>1, FS_AddElement
<1>3. QED
  BY <1>1, <1>2, FS_CardinalityType DEF Places

(* w is what Lengths computes: w[n][p] has the lengths of the ways to p of  *)
(* up to n legs.                                                            *)
FromBefore(v, p) ==
  v[p] \cup UNION {{d + Miles(a, p) : d \in v[a]} : a \in {q \in Places : p \in Neighbours(q)}}

Ways(w) ==
  /\ w \in [0 .. Cardinality(Fixes) -> [Places -> SUBSET Nat]]
  /\ \A p \in Places : w[0][p] = IF p = Start THEN {0} ELSE {}
  /\ \A n \in 1 .. Cardinality(Fixes) : \A p \in Places : w[n][p] = FromBefore(w[n - 1], p)
  /\ w[Cardinality(Fixes)] = Lengths

LEMMA WaysGrow ==
  ASSUME NEW v \in [Places -> SUBSET Nat], NEW p \in Places
  PROVE  FromBefore(v, p) \in SUBSET Nat
<1> SUFFICES ASSUME NEW x \in FromBefore(v, p) PROVE x \in Nat
  OBVIOUS
<1>1. CASE x \in v[p]
  BY <1>1
<1>2. ASSUME NEW a \in Places, NEW d \in v[a], x = d + Miles(a, p) PROVE x \in Nat
  BY <1>2, MilesAreDistances
<1>3. QED
  BY <1>1, <1>2 DEF FromBefore

LEMMA WaysExist == \E w : Ways(w)
<1>1. PICK N \in Nat : N = Cardinality(Fixes)
  BY PlacesAreFinite
<1> DEFINE V == [Places -> SUBSET Nat]
           first == [p \in Places |-> IF p = Start THEN {0} ELSE {}]
           next(v) == [p \in Places |-> FromBefore(v, p)]
           G == [p \in (1 .. N) \X V |-> next(p[2])]
           Recursion(f) == [n \in 0 .. N |-> IF n = 0 THEN first ELSE next(f[n - 1])]
           upTo == CHOOSE f : f = Recursion(f)
<1>2. Lengths = upTo[N]
  BY <1>1 DEF Lengths, FromBefore
<1>3. first \in V
  OBVIOUS
<1>4. \A v \in V : next(v) \in V
  BY WaysGrow
<1>5. G \in [(1 .. N) \X V -> V] /\ \A i \in 1 .. N, v \in V : G[<<i, v>>] = next(v)
  <2> HIDE DEF V, next
  <2>1. QED
    BY <1>4
<1> HIDE DEF G, V, next, first
<1>6. PICK f \in [0 .. N -> V] : f[0] = first /\ \A i \in 1 .. N : f[i] = G[<<i, f[i - 1]>>]
  <2> HIDE DEF Recursion, upTo
  <2>1. PICK U : U = V
    OBVIOUS
  <2>2. PICK x \in U, g \in {G} : StepsThrough(g, N, U) /\ x = first
    BY <1>3, <1>5, <2>1 DEF StepsThrough
  <2>3. N \in Nat
    OBVIOUS
  <2>4. PICK f \in [0 .. N -> U] : Recurs(f, N, x, g)
    BY <2>2, <2>3, RecursionExists
  <2>5. QED
    BY <2>1, <2>2, <2>4 DEF Recurs
<1>7. f = Recursion(f)
  <2>1. \A i \in 0 .. N : f[i] = IF i = 0 THEN first ELSE next(f[i - 1])
    <3> TAKE i \in 0 .. N
    <3>1. i # 0 => i \in 1 .. N /\ f[i - 1] \in V
      BY <1>1
    <3>2. QED
      BY <1>5, <1>6, <3>1
  <2>2. f = [i \in 0 .. N |-> f[i]]
    OBVIOUS
  <2>3. QED
    BY <2>1, <2>2
<1>8. upTo = Recursion(upTo)
  <2> HIDE DEF Recursion
  <2>1. QED
    BY <1>7
<1>9. PICK w : w = upTo
  OBVIOUS
<1>10. w = [n \in 0 .. N |-> IF n = 0 THEN first ELSE next(w[n - 1])]
  <2> HIDE DEF upTo
  <2>1. QED
    BY <1>8, <1>9
<1>11. w[0] = first /\ \A n \in 1 .. N : w[n] = next(w[n - 1])
  <2>1. \A n \in 0 .. N : w[n] = IF n = 0 THEN first ELSE next(w[n - 1])
    BY <1>10
  <2>2. 0 \in 0 .. N /\ \A n \in 1 .. N : n \in 0 .. N /\ n # 0
    BY <1>1
  <2>3. QED
    BY <2>1, <2>2
<1>12. w \in [0 .. N -> V]
  <2> DEFINE S == {n \in Nat : n <= N => w[n] \in V}
  <2>1. 0 \in S
    BY <1>3, <1>11
  <2>2. ASSUME NEW n \in Nat, n \in S PROVE n + 1 \in S
    <3>1. n + 1 <= N => n + 1 \in 1 .. N /\ (n + 1) - 1 = n /\ w[n] \in V
      BY <2>2, <1>1
    <3>2. QED
      BY <1>4, <1>11, <3>1
  <2>3. Nat \subseteq S
    <3> HIDE DEF S
    <3>1. QED
      BY <2>1, <2>2, SetInduction
  <2>4. \A n \in 0 .. N : w[n] \in V
    BY <2>3, <1>1
  <2>5. w = [n \in 0 .. N |-> w[n]]
    BY <1>10
  <2>6. QED
    BY <2>4, <2>5
<1>13. QED
  <2>1. w[N] = Lengths
    BY <1>2, <1>9
  <2>2. \A p \in Places : w[0][p] = IF p = Start THEN {0} ELSE {}
    BY <1>11 DEF first
  <2>3. \A n \in 1 .. N : \A p \in Places : w[n][p] = FromBefore(w[n - 1], p)
    BY <1>11 DEF next
  <2> HIDE DEF upTo
  <2>4. Ways(w)
    BY <1>1, <1>12, <2>1, <2>2, <2>3 DEF Ways, V
  <2>5. QED
    BY <2>4

(* What the search knows.  Who is reached has the length of a way to it;    *)
(* who is reached and not settled is in the heap with that length; who is   *)
(* settled has passed it on to all neighbours, and nothing is shorter.      *)
Reached == DOMAIN best

SearchTypes ==
  /\ Planning => entry \in 1 .. Len(Entries)
  /\ Start \in Reached /\ Reached \subseteq Places /\ best \in [Reached -> Nat]
  /\ best[Start] = 0
  /\ prev \in [Reached \ {Start} -> Places]
  /\ seen \subseteq Reached
  /\ open \subseteq Nat \X Nat \X Places

HeapCovers ==
  /\ \A e \in open : /\ e[3] \in Reached /\ best[e[3]] <= e[2]
                     /\ e[1] = e[2] + Miles(e[3], Goal)
  /\ \A a \in Reached \ seen : <<best[a] + Miles(a, Goal), best[a], a>> \in open

SettledPassOn ==
  \A a \in seen : \A b \in Neighbours(a) :
    b \in Reached /\ best[b] <= best[a] + Miles(a, b)

SettledAreShortest == \A a \in seen : \A d \in Lengths[a] : best[a] <= d

ReachedByWays ==
  \A w : Ways(w) => \A a \in Reached : best[a] \in w[Cardinality(seen)][a]

LinksAreLegs ==
  \A b \in Reached \ {Start} :
    /\ prev[b] \in seen /\ b \in Neighbours(prev[b])
    /\ best[b] = best[prev[b]] + Miles(prev[b], b)

PlannerInv ==
  /\ SearchTypes
  /\ Planning => /\ Goal \notin seen
                 /\ HeapCovers /\ SettledPassOn /\ SettledAreShortest
                 /\ ReachedByWays /\ LinksAreLegs

LEMMA GoalIsPlace ==
  ASSUME PlannerInv, Planning
  PROVE  Goal \in Fixes /\ Goal \in Places /\ Goal # Start
<1>1. Entries \in Seq(Fixes) /\ Start \notin Fixes
  BY RouteAssumption
<1>2. entry \in 1 .. Len(Entries)
  BY DEF PlannerInv, SearchTypes
<1>3. QED
  BY <1>1, <1>2 DEF Goal, Places

(* The settled are some of the places other than the goal. *)
LEMMA SettledAreCounted ==
  ASSUME PlannerInv, Planning
  PROVE  /\ IsFiniteSet(seen) /\ Cardinality(seen) \in 0 .. Cardinality(Fixes)
         /\ \A a \in Places \ seen : a # Goal =>
              /\ Cardinality(seen \cup {a}) = Cardinality(seen) + 1
              /\ Cardinality(seen) + 1 \in 1 .. Cardinality(Fixes)
<1>1. PICK R : R = Places \ {Goal}
  OBVIOUS
<1>2. IsFiniteSet(R) /\ Cardinality(R) = Cardinality(Fixes)
  <2>1. Goal \in Places
    BY GoalIsPlace
  <2>2. IsFiniteSet(R) /\ Cardinality(R) = Cardinality(Places) - 1
    BY <1>1, <2>1, PlacesAreFinite, FS_RemoveElement
  <2>3. QED
    BY <2>2, PlacesAreFinite
<1>3. \A T : T \in SUBSET R => IsFiniteSet(T) /\ Cardinality(T) \in 0 .. Cardinality(Fixes)
  <2> TAKE T
  <2> HAVE T \in SUBSET R
  <2>1. IsFiniteSet(T) /\ Cardinality(T) <= Cardinality(R)
    BY <1>2, FS_Subset
  <2>2. Cardinality(T) \in Nat
    BY <2>1, FS_CardinalityType
  <2>3. QED
    BY <1>2, <2>1, <2>2, PlacesAreFinite
<1>4. seen \in SUBSET R
  BY <1>1 DEF PlannerInv, SearchTypes
<1>5. ASSUME NEW a \in Places \ seen, a # Goal
      PROVE  /\ Cardinality(seen \cup {a}) = Cardinality(seen) + 1
             /\ Cardinality(seen) + 1 \in 1 .. Cardinality(Fixes)
  <2>1. Cardinality(seen \cup {a}) = Cardinality(seen) + 1
    BY <1>3, <1>4, FS_AddElement
  <2>2. seen \cup {a} \in SUBSET R
    BY <1>1, <1>4, <1>5
  <2>3. Cardinality(seen \cup {a}) \in 0 .. Cardinality(Fixes) /\ Cardinality(seen) \in Nat
    BY <1>3, <1>4, <2>2
  <2>4. QED
    BY <2>1, <2>3, PlacesAreFinite
<1>6. QED
  BY <1>3, <1>4, <1>5

(* A way of n legs is one of n + 1 legs at most. *)
LEMMA WaysStay ==
  ASSUME NEW w, Ways(w), NEW p \in Places
  PROVE  \A n \in 0 .. Cardinality(Fixes) : w[n][p] \subseteq Lengths[p]
<1>1. PICK N \in Nat : N = Cardinality(Fixes)
  BY PlacesAreFinite
<1> DEFINE S == {m \in Nat : m <= N => w[N - m][p] \subseteq Lengths[p]}
<1>2. 0 \in S
  BY <1>1 DEF Ways
<1>3. ASSUME NEW m \in Nat, m \in S PROVE m + 1 \in S
  <2>1. SUFFICES ASSUME m + 1 <= N PROVE w[N - (m + 1)][p] \subseteq Lengths[p]
    OBVIOUS
  <2>2. PICK n \in 1 .. N : n = N - m
    BY <1>1, <2>1
  <2>3. w[n][p] = FromBefore(w[n - 1], p)
    BY <1>1 DEF Ways
  <2>4. n - 1 = N - (m + 1) /\ w[n][p] \subseteq Lengths[p]
    BY <1>1, <1>3, <2>1, <2>2
  <2>5. QED
    BY <2>3, <2>4 DEF FromBefore
<1>4. Nat \subseteq S
  <2> HIDE DEF S
  <2>1. QED
    BY <1>2, <1>3, SetInduction
<1>5. ASSUME NEW n \in 0 .. N PROVE w[n][p] \subseteq Lengths[p]
  <2>1. N - n \in Nat /\ N - n <= N /\ N - (N - n) = n
    BY <1>1
  <2>2. N - n \in S
    BY <1>4, <2>1
  <2>3. QED
    BY <2>1, <2>2
<1>6. QED
  BY <1>1, <1>5

(* Every way to p goes by somebody who is in the heap and from whom the     *)
(* rest, measured straight, is no longer; unless p is settled.              *)
Frontier(p, d) ==
  \/ p \in seen /\ best[p] <= d
  \/ \E b \in Reached \ seen : best[b] + Miles(b, Goal) <= d + Miles(p, Goal)

LEMMA FrontierCrossed ==
  ASSUME PlannerInv, Planning, NEW p \in Places, NEW d \in Lengths[p]
  PROVE  Frontier(p, d)
<1>1. PICK w : Ways(w)
  BY WaysExist
<1>2. PICK N \in Nat : N = Cardinality(Fixes)
  BY PlacesAreFinite
<1>3. /\ w \in [0 .. N -> [Places -> SUBSET Nat]] /\ w[N] = Lengths
      /\ \A q \in Places : w[0][q] = IF q = Start THEN {0} ELSE {}
      /\ \A n \in 1 .. N : \A q \in Places : w[n][q] = FromBefore(w[n - 1], q)
  BY <1>1, <1>2 DEF Ways
<1>4. /\ Start \in Reached /\ best[Start] = 0 /\ best \in [Reached -> Nat]
      /\ seen \subseteq Reached /\ Reached \subseteq Places
  BY DEF PlannerInv, SearchTypes
<1>5. Goal \in Places
  BY GoalIsPlace
<1> DEFINE S == {n \in Nat : n <= N => \A q \in Places : \A x \in w[n][q] : Frontier(q, x)}
<1>6. 0 \in S
  <2> SUFFICES ASSUME NEW q \in Places, NEW x \in w[0][q] PROVE Frontier(q, x)
    OBVIOUS
  <2>1. q = Start /\ x = 0
    BY <1>3
  <2>2. Miles(Start, Goal) \in Nat
    BY <1>4, <1>5, MilesAreDistances
  <2>3. QED
    BY <1>4, <2>1, <2>2 DEF Frontier
<1>7. ASSUME NEW n \in Nat, n \in S PROVE n + 1 \in S
  <2> SUFFICES ASSUME n + 1 <= N, NEW q \in Places, NEW x \in w[n + 1][q]
               PROVE  Frontier(q, x)
    OBVIOUS
  <2>1. n + 1 \in 1 .. N /\ (n + 1) - 1 = n /\ n \in 0 .. N
    BY <1>2
  <2>2. x \in FromBefore(w[n], q) /\ w[n] \in [Places -> SUBSET Nat]
    BY <1>3, <2>1
  <2>3. \A r \in Places : \A y \in w[n][r] : Frontier(r, y)
    BY <1>7, <2>1
  <2>4. CASE x \in w[n][q]
    BY <2>3, <2>4
  <2>5. ASSUME NEW a \in Places, q \in Neighbours(a), NEW y \in w[n][a], x = y + Miles(a, q)
        PROVE  Frontier(q, x)
    <3>1. Frontier(a, y) /\ y \in Nat
      BY <2>2, <2>3
    <3>2. Miles(a, q) \in Nat /\ Miles(a, Goal) \in Nat /\ Miles(q, Goal) \in Nat
          /\ Miles(a, Goal) <= Miles(a, q) + Miles(q, Goal)
      BY <1>5, MilesAreDistances
    <3>3. CASE a \in seen /\ best[a] <= y
      <4>1. q \in Reached /\ best[q] <= best[a] + Miles(a, q)
        BY <2>5, <3>3 DEF PlannerInv, SettledPassOn
      <4>2. best[q] \in Nat /\ best[a] \in Nat
        BY <1>4, <3>3, <4>1
      <4>3. best[q] <= x
        BY <2>5, <3>1, <3>2, <3>3, <4>1, <4>2
      <4>4. CASE q \in seen
        BY <4>3, <4>4 DEF Frontier
      <4>5. CASE q \notin seen
        <5>1. x \in Nat
          BY <2>5, <3>1, <3>2
        <5>2. best[q] + Miles(q, Goal) <= x + Miles(q, Goal)
          BY <3>2, <4>2, <4>3, <5>1
        <5>3. QED
          BY <4>1, <4>5, <5>2 DEF Frontier
      <4>6. QED
        BY <4>4, <4>5
    <3>4. ASSUME NEW b \in Reached \ seen, best[b] + Miles(b, Goal) <= y + Miles(a, Goal)
          PROVE  Frontier(q, x)
      <4>1. best[b] \in Nat /\ Miles(b, Goal) \in Nat
        BY <1>4, <1>5, MilesAreDistances
      <4>2. best[b] + Miles(b, Goal) <= x + Miles(q, Goal)
        BY <2>5, <3>1, <3>2, <3>4, <4>1
      <4>3. QED
        BY <4>2 DEF Frontier
    <3>5. QED
      BY <3>1, <3>3, <3>4 DEF Frontier
  <2>6. QED
    BY <2>2, <2>4, <2>5 DEF FromBefore
<1>8. N \in S
  <2> HIDE DEF S
  <2>1. QED
    BY <1>6, <1>7, SetInduction
<1>9. QED
  BY <1>3, <1>8

(* The smallest of the heap that is not settled has its final length. *)
LEMMA SmallestIsShortest ==
  ASSUME PlannerInv, Planning, NEW e \in open, Smallest(e), e[3] \notin seen
  PROVE  /\ e[3] \in Reached /\ e[2] = best[e[3]] /\ e[2] \in Nat
         /\ \A d \in Lengths[e[3]] : e[2] <= d
<1>1. PICK a, g, f : a = e[3] /\ g = e[2] /\ f = e[1]
  OBVIOUS
<1>2. a \in Reached /\ best[a] <= g /\ f = g + Miles(a, Goal)
  BY <1>1 DEF PlannerInv, HeapCovers
<1>3. best \in [Reached -> Nat] /\ Reached \subseteq Places /\ open \subseteq Nat \X Nat \X Places
  BY DEF PlannerInv, SearchTypes
<1>4. g \in Nat /\ f \in Nat /\ best[a] \in Nat /\ a \in Places
  BY <1>1, <1>2, <1>3
<1>5. Goal \in Places /\ \A b \in Places : Miles(b, Goal) \in Nat
  BY GoalIsPlace, MilesAreDistances
<1>6. \A b \in Reached \ seen : f < best[b] + Miles(b, Goal)
                                \/ (f = best[b] + Miles(b, Goal) /\ g <= best[b])
  <2> TAKE b \in Reached \ seen
  <2>1. <<best[b] + Miles(b, Goal), best[b], b>> \in open
    BY DEF PlannerInv, HeapCovers
  <2>2. QED
    BY <1>1, <2>1 DEF Smallest
<1>7. g = best[a]
  <2>1. f < best[a] + Miles(a, Goal) \/ g <= best[a]
    BY <1>1, <1>2, <1>6
  <2>2. QED
    BY <1>2, <1>4, <1>5, <2>1
<1>8. ASSUME NEW d \in Lengths[a] PROVE g <= d
  <2>1. Frontier(a, d)
    BY <1>4, FrontierCrossed
  <2>2. PICK b \in Reached \ seen : best[b] + Miles(b, Goal) <= d + Miles(a, Goal)
    BY <1>1, <2>1 DEF Frontier
  <2>3. best[b] \in Nat /\ Miles(b, Goal) \in Nat
    BY <1>3, <1>5
  <2>4. d \in Nat
    <3>1. PICK w : Ways(w)
      BY WaysExist
    <3>2. Cardinality(Fixes) \in 0 .. Cardinality(Fixes)
      BY PlacesAreFinite
    <3>3. Lengths \in [Places -> SUBSET Nat]
      BY <3>1, <3>2 DEF Ways
    <3>4. QED
      BY <1>4, <3>3
  <2>5. QED
    BY <1>2, <1>4, <1>5, <1>6, <2>2, <2>3, <2>4
<1>9. QED
  BY <1>1, <1>2, <1>4, <1>7, <1>8

LEMMA SameLegs ==
  ASSUME UNCHANGED blocked
  PROVE  /\ Lengths' = Lengths /\ \A a : Neighbours(a)' = Neighbours(a)
         /\ \A w : Ways(w)' <=> Ways(w)
<1>1. Lengths' = Lengths
  BY SMT DEF Lengths, Neighbours, Blocking
<1>2. \A a : Neighbours(a)' = Neighbours(a)
  BY DEF Neighbours, Blocking
<1>3. ASSUME NEW v, NEW p PROVE FromBefore(v, p)' = FromBefore(v, p)
  BY SMT DEF FromBefore, Neighbours, Blocking
<1>4. ASSUME NEW w PROVE Ways(w)' <=> Ways(w)
  BY <1>1, <1>3 DEF Ways
<1>5. QED
  BY <1>1, <1>2, <1>4

(* A fix taken from the heap a second time. *)
LEMMA SkipKeeps ==
  ASSUME PlannerInv, Planning, NEW e \in open, Skip(e)
  PROVE  PlannerInv'
<1>1. /\ open' = open \ {e} /\ e[3] \in seen
      /\ UNCHANGED <<blocked, entry, best, prev, seen>>
  BY DEF Skip
<1>2. Reached' = Reached /\ Goal' = Goal /\ (Planning' <=> Planning)
  BY <1>1 DEF Reached, Goal, Planning
<1>3. Lengths' = Lengths /\ (\A a : Neighbours(a)' = Neighbours(a)) /\ \A w : Ways(w)' <=> Ways(w)
  BY <1>1, SameLegs
<1>4. SearchTypes'
  BY <1>1, <1>2 DEF PlannerInv, SearchTypes
<1>5. HeapCovers'
  <2>1. \A x \in open' : x \in open
    BY <1>1
  <2>2. \A a \in Reached \ seen : <<best[a] + Miles(a, Goal), best[a], a>> # e
    BY <1>1
  <2>3. \A a \in Reached \ seen : <<best[a] + Miles(a, Goal), best[a], a>> \in open'
    BY <1>1, <2>2 DEF PlannerInv, HeapCovers
  <2>4. QED
    BY <1>1, <1>2, <2>1, <2>3 DEF PlannerInv, HeapCovers
<1>6. SettledPassOn'
  BY <1>1, <1>2, <1>3 DEF PlannerInv, SettledPassOn
<1>7. SettledAreShortest'
  BY <1>1, <1>3 DEF PlannerInv, SettledAreShortest
<1>8. ReachedByWays'
  BY <1>1, <1>2, <1>3 DEF PlannerInv, ReachedByWays
<1>9. LinksAreLegs'
  BY <1>1, <1>2, <1>3 DEF PlannerInv, LinksAreLegs
<1>10. QED
  BY <1>1, <1>2, <1>4, <1>5, <1>6, <1>7, <1>8, <1>9 DEF PlannerInv

(* A fix is settled: what it offers its neighbours never shortens the way   *)
(* to one that is settled already.                                          *)
LEMMA ExpandKeeps ==
  ASSUME PlannerInv, Planning, NEW e \in open, Smallest(e), Expand(e)
  PROVE  PlannerInv'
<1>1. PICK a, g : a = e[3] /\ g = e[2]
  OBVIOUS
<1>2. PICK better : better = Shorter(a, g)
  OBVIOUS
<1>3. /\ a \notin seen /\ a # Goal /\ seen' = seen \cup {a}
      /\ best' = [b \in Reached \cup better |-> IF b \in better THEN g + Miles(a, b) ELSE best[b]]
      /\ prev' = [b \in DOMAIN prev \cup better |-> IF b \in better THEN a ELSE prev[b]]
      /\ open' = (open \ {e}) \cup
                 {<<g + Miles(a, b) + Miles(b, Goal), g + Miles(a, b), b>> : b \in better}
      /\ UNCHANGED <<blocked, entry>>
  BY <1>1, <1>2 DEF Expand, Reached
<1>4. Goal' = Goal /\ (Planning' <=> Planning)
  BY <1>3 DEF Goal, Planning
<1>5. Lengths' = Lengths /\ (\A b : Neighbours(b)' = Neighbours(b)) /\ \A w : Ways(w)' <=> Ways(w)
  BY <1>3, SameLegs
<1>6. /\ Start \in Reached /\ Reached \subseteq Places /\ best \in [Reached -> Nat]
      /\ best[Start] = 0 /\ prev \in [Reached \ {Start} -> Places]
      /\ seen \subseteq Reached /\ open \subseteq Nat \X Nat \X Places
  BY DEF PlannerInv, SearchTypes
<1>7. a \in Reached /\ g = best[a] /\ g \in Nat /\ \A d \in Lengths[a] : g <= d
  BY <1>1, <1>3, SmallestIsShortest
<1>8. better = {b \in Neighbours(a) : b \notin Reached \/ g + Miles(a, b) < best[b]}
  BY <1>2 DEF Shorter, Reached
<1>9. better \subseteq Fixes \ {a} /\ better \subseteq Neighbours(a) /\ better \subseteq Places
      /\ Start \notin better
  <2>1. Neighbours(a) \subseteq Fixes \ {a}
    BY DEF Neighbours
  <2>2. QED
    BY <1>8, <2>1, RouteAssumption DEF Places
<1>10. \A b \in Places : Miles(a, b) \in Nat /\ Miles(b, Goal) \in Nat
  BY <1>6, <1>7, GoalIsPlace, MilesAreDistances
<1>11. Reached' = Reached \cup better
  BY <1>3 DEF Reached
<1>12. /\ \A b \in better : best'[b] = g + Miles(a, b)
       /\ \A b \in Reached : b \notin better => best'[b] = best[b]
       /\ \A b \in Reached : best'[b] <= best[b]
       /\ best' \in [Reached' -> Nat]
  <2>1. \A b \in better : best'[b] = g + Miles(a, b) /\ g + Miles(a, b) \in Nat
    BY <1>3, <1>7, <1>9, <1>10
  <2>2. \A b \in Reached : b \notin better => best'[b] = best[b]
    BY <1>3
  <2>3. \A b \in Reached : best[b] \in Nat
    BY <1>6
  <2>4. \A b \in Reached : best'[b] <= best[b]
    <3> TAKE b \in Reached
    <3>1. CASE b \in better
      BY <1>8, <2>1, <2>3, <3>1
    <3>2. CASE b \notin better
      BY <2>2, <2>3, <3>2
    <3>3. QED
      BY <3>1, <3>2
  <2>5. best' \in [Reached' -> Nat]
    BY <1>3, <1>11, <2>1, <2>3
  <2>6. QED
    BY <2>1, <2>2, <2>4, <2>5
<1>13. PICK k \in Nat : /\ k = Cardinality(seen) /\ Cardinality(seen') = k + 1
                        /\ k \in 0 .. Cardinality(Fixes) /\ k + 1 \in 1 .. Cardinality(Fixes)
  <2>1. a \in Places \ seen /\ Cardinality(seen) \in Nat
    BY <1>3, <1>6, <1>7, SettledAreCounted
  <2>2. QED
    BY <1>3, <2>1, SettledAreCounted
<1>14. \A w : Ways(w) =>
         /\ \A b \in Reached : best[b] \in w[k + 1][b]
         /\ \A b \in better : g + Miles(a, b) \in w[k + 1][b]
  <2> TAKE w
  <2> HAVE Ways(w)
  <2>1. \A b \in Places : w[k + 1][b] = FromBefore(w[k], b)
    <3>1. (k + 1) - 1 = k
      OBVIOUS
    <3>2. \A b \in Places : w[k + 1][b] = FromBefore(w[(k + 1) - 1], b)
      BY <1>13 DEF Ways
    <3>3. QED
      BY <3>1, <3>2
  <2>2. \A b \in Reached : best[b] \in w[k][b]
    BY <1>13 DEF PlannerInv, ReachedByWays
  <2>3. \A b \in Reached : best[b] \in FromBefore(w[k], b)
    BY <2>2 DEF FromBefore
  <2>4. \A b \in better : g + Miles(a, b) \in FromBefore(w[k], b)
    <3> TAKE b \in better
    <3>1. g \in w[k][a] /\ a \in Places /\ b \in Neighbours(a)
      BY <1>6, <1>7, <1>9, <2>2
    <3>2. QED
      BY <3>1 DEF FromBefore
  <2>5. QED
    BY <1>6, <1>9, <2>1, <2>3, <2>4
<1>15. better \cap seen' = {}
  <2> SUFFICES ASSUME NEW b \in better, b \in seen PROVE FALSE
    BY <1>3, <1>9
  <2>1. PICK w : Ways(w)
    BY WaysExist
  <2>2. g + Miles(a, b) \in Lengths[b]
    <3>1. k + 1 \in 0 .. Cardinality(Fixes)
      BY <1>13
    <3>2. w[k + 1][b] \subseteq Lengths[b]
      BY <1>9, <2>1, <3>1, WaysStay
    <3>3. QED
      BY <1>14, <2>1, <3>2
  <2>3. best[b] <= g + Miles(a, b)
    BY <2>2 DEF PlannerInv, SettledAreShortest
  <2>4. b \in Reached /\ best[b] \in Nat /\ g + Miles(a, b) < best[b]
    BY <1>6, <1>8
  <2>5. QED
    BY <1>7, <1>9, <1>10, <2>3, <2>4
<1>16. \A b \in seen' : b \in Reached /\ best'[b] = best[b]
  BY <1>3, <1>6, <1>7, <1>12, <1>15
<1>17. SearchTypes'
  <2>1. prev' \in [Reached' \ {Start} -> Places]
    <3>1. DOMAIN prev = Reached \ {Start} /\ Reached' \ {Start} = (Reached \ {Start}) \cup better
      BY <1>6, <1>9, <1>11
    <3>2. \A b \in Reached' \ {Start} : prev'[b] \in Places
      BY <1>3, <1>6, <1>7, <3>1
    <3>3. prev' = [b \in Reached' \ {Start} |-> prev'[b]]
      BY <1>3, <3>1
    <3>4. QED
      BY <3>2, <3>3
  <2>2. open' \subseteq Nat \X Nat \X Places
    <3>1. \A b \in better : <<g + Miles(a, b) + Miles(b, Goal), g + Miles(a, b), b>> \in Nat \X Nat \X Places
      BY <1>7, <1>9, <1>10
    <3>2. QED
      BY <1>3, <1>6, <3>1
  <2>3. Start \in Reached' /\ Reached' \subseteq Places /\ best'[Start] = 0 /\ seen' \subseteq Reached'
    BY <1>3, <1>6, <1>7, <1>9, <1>11, <1>12
  <2>4. (Planning => entry \in 1 .. Len(Entries))'
    BY <1>3, <1>4 DEF PlannerInv, SearchTypes
  <2>5. QED
    BY <1>12, <2>1, <2>2, <2>3, <2>4 DEF SearchTypes
<1>18. HeapCovers'
  <2>1. ASSUME NEW x \in open'
        PROVE  x[3] \in Reached' /\ best'[x[3]] <= x[2] /\ x[1] = x[2] + Miles(x[3], Goal)
    <3>1. CASE x \in open
      <4>1. x[3] \in Reached /\ best[x[3]] <= x[2] /\ x[1] = x[2] + Miles(x[3], Goal) /\ x[2] \in Nat
        BY <1>6, <3>1 DEF PlannerInv, HeapCovers
      <4>2. x[3] \in Reached' /\ best'[x[3]] <= best[x[3]]
            /\ best'[x[3]] \in Nat /\ best[x[3]] \in Nat
        BY <1>6, <1>11, <1>12, <4>1
      <4>3. best'[x[3]] <= x[2]
        BY <4>1, <4>2
      <4>4. QED
        BY <4>1, <4>2, <4>3
    <3>2. ASSUME NEW b \in better,
                 x = <<g + Miles(a, b) + Miles(b, Goal), g + Miles(a, b), b>>
          PROVE  x[3] \in Reached' /\ best'[x[3]] <= x[2] /\ x[1] = x[2] + Miles(x[3], Goal)
      <4>1. x[3] = b /\ x[2] = g + Miles(a, b) /\ x[1] = g + Miles(a, b) + Miles(b, Goal)
        BY <3>2
      <4>2. g + Miles(a, b) \in Nat
        BY <1>7, <1>9, <1>10
      <4>3. QED
        BY <1>11, <1>12, <4>1, <4>2
    <3>3. QED
      BY <1>3, <3>1, <3>2
  <2>2. ASSUME NEW b \in Reached' \ seen'
        PROVE  <<best'[b] + Miles(b, Goal), best'[b], b>> \in open'
    <3>1. CASE b \in better
      BY <1>3, <1>12, <3>1
    <3>2. CASE b \notin better
      <4>1. b \in Reached \ seen /\ b # a /\ best'[b] = best[b]
        BY <1>3, <1>11, <1>12, <3>2
      <4>2. <<best[b] + Miles(b, Goal), best[b], b>> \in open
        BY <4>1 DEF PlannerInv, HeapCovers
      <4>3. <<best[b] + Miles(b, Goal), best[b], b>> # e
        BY <1>1, <4>1
      <4>4. QED
        BY <1>3, <4>1, <4>2, <4>3
    <3>3. QED
      BY <3>1, <3>2
  <2>3. QED
    BY <1>4, <2>1, <2>2 DEF HeapCovers
<1>19. SettledPassOn'
  <2> SUFFICES ASSUME NEW x \in seen', NEW b \in Neighbours(x)
               PROVE  b \in Reached' /\ best'[b] <= best'[x] + Miles(x, b)
    BY <1>5 DEF SettledPassOn
  <2>1. b \in Places /\ x \in Places /\ Miles(x, b) \in Nat
    BY <1>6, <1>16, MilesAreDistances DEF Neighbours, Places
  <2>2. CASE b \in better /\ x = a
    BY <1>7, <1>11, <1>12, <1>16, <2>1, <2>2
  <2>3. CASE b \notin better /\ x = a
    <3>1. b \in Reached /\ ~ (g + Miles(a, b) < best[b])
      BY <1>8, <2>3
    <3>2. best[b] \in Nat /\ best'[b] = best[b] /\ best'[x] = g
      BY <1>6, <1>7, <1>12, <1>16, <2>3, <3>1
    <3>3. QED
      BY <1>7, <1>11, <2>1, <2>3, <3>1, <3>2
  <2>4. CASE x # a
    <3>1. x \in seen
      BY <1>3, <2>4
    <3>2. b \in Reached /\ best[b] <= best[x] + Miles(x, b)
      BY <3>1 DEF PlannerInv, SettledPassOn
    <3>3. best'[b] <= best[b] /\ best'[x] = best[x] /\ best'[b] \in Nat
          /\ best[b] \in Nat /\ best[x] \in Nat
      BY <1>6, <1>11, <1>12, <1>16, <3>2
    <3>4. QED
      BY <1>11, <2>1, <3>2, <3>3
  <2>5. QED
    BY <2>2, <2>3, <2>4
<1>20. SettledAreShortest'
  <2> SUFFICES ASSUME NEW x \in seen', NEW d \in Lengths[x] PROVE best'[x] <= d
    BY <1>5 DEF SettledAreShortest
  <2>1. CASE x = a
    BY <1>7, <1>16, <2>1
  <2>2. CASE x # a
    <3>1. x \in seen
      BY <1>3, <2>2
    <3>2. QED
      BY <1>16, <3>1 DEF PlannerInv, SettledAreShortest
  <2>3. QED
    BY <2>1, <2>2
<1>21. ReachedByWays'
  <2> SUFFICES ASSUME NEW w, Ways(w), NEW b \in Reached' PROVE best'[b] \in w[Cardinality(seen')][b]
    BY <1>5 DEF ReachedByWays
  <2>1. QED
    BY <1>11, <1>12, <1>13, <1>14
<1>22. LinksAreLegs'
  <2> SUFFICES ASSUME NEW b \in Reached' \ {Start}
               PROVE  /\ prev'[b] \in seen' /\ b \in Neighbours(prev'[b])
                      /\ best'[b] = best'[prev'[b]] + Miles(prev'[b], b)
    BY <1>5 DEF LinksAreLegs
  <2>1. CASE b \in better
    <3>1. prev'[b] = a /\ a \in seen'
      BY <1>3, <2>1
    <3>2. best'[a] = g
      BY <1>7, <1>16, <3>1
    <3>3. best'[b] = g + Miles(a, b) /\ b \in Neighbours(a)
      BY <1>9, <1>12, <2>1
    <3>4. QED
      BY <3>1, <3>2, <3>3
  <2>2. CASE b \notin better
    <3>1. b \in Reached \ {Start}
      BY <1>11, <2>2
    <3>2. prev'[b] = prev[b]
      BY <1>3, <1>6, <2>2, <3>1
    <3>3. prev[b] \in seen /\ b \in Neighbours(prev[b])
          /\ best[b] = best[prev[b]] + Miles(prev[b], b)
      BY <3>1 DEF PlannerInv, LinksAreLegs
    <3>4. PICK c : c = prev[b]
      OBVIOUS
    <3>5. c \in seen' /\ b \in Neighbours(c)
      BY <1>3, <3>3, <3>4
    <3>6. best'[b] = best[b] /\ best'[c] = best[c] /\ best[b] = best[c] + Miles(c, b)
      BY <1>12, <1>16, <2>2, <3>1, <3>3, <3>4, <3>5
    <3>7. prev'[b] = c
      BY <3>2, <3>4
    <3>8. best'[b] = best'[c] + Miles(c, b)
      BY <3>6
    <3>9. QED
      BY <3>5, <3>7, <3>8
  <2>3. QED
    BY <2>1, <2>2
<1>23. QED
  <2>1. Goal' \notin seen'
    BY <1>3, <1>4 DEF PlannerInv
  <2>2. QED
    BY <1>17, <1>18, <1>19, <1>20, <1>21, <1>22, <2>1 DEF PlannerInv

-----------------------------------------------------------------------------
(* The route that is read back from the goal.                               *)

(* r leads along prev to the goal, from someone reached. *)
Trace(r) ==
  /\ r \in Seq(Reached \ {Start}) /\ Len(r) >= 1 /\ r[Len(r)] = Goal
  /\ \A i \in 2 .. Len(r) : prev[r[i]] = r[i - 1]

LEMMA PutBefore ==
  ASSUME NEW V, NEW x \in V, NEW s \in Seq(V)
  PROVE  /\ <<x>> \o s \in Seq(V) /\ Len(<<x>> \o s) = Len(s) + 1
         /\ (<<x>> \o s)[1] = x
         /\ \A i \in 2 .. Len(s) + 1 : (<<x>> \o s)[i] = s[i - 1]
<1>1. PICK o \in Seq(V) : o = <<x>> /\ Len(o) = 1 /\ o[1] = x
  <2>1. <<x>> \in Seq(V) /\ Len(<<x>>) = 1 /\ <<x>>[1] = x
    OBVIOUS
  <2>2. QED
    BY <2>1
<1>2. /\ o \o s \in Seq(V) /\ Len(o \o s) = Len(o) + Len(s)
      /\ \A i \in 1 .. Len(o) : (o \o s)[i] = o[i]
      /\ \A i \in 1 .. Len(o) + Len(s) : i > Len(o) => (o \o s)[i] = s[i - Len(o)]
  BY <1>1, Concatenation
<1>3. PICK t : t = o \o s
  OBVIOUS
<1>4. Len(s) \in Nat
  OBVIOUS
<1>5. t[1] = x /\ Len(t) = Len(s) + 1
  BY <1>1, <1>2, <1>3, <1>4
<1>6. \A i \in 2 .. Len(s) + 1 : t[i] = s[i - 1]
  BY <1>1, <1>2, <1>3, <1>4
<1>7. QED
  BY <1>1, <1>2, <1>3, <1>5, <1>6

(* One link further back, unless the start is reached. *)
Further(r) == IF prev[Head(r)] = Start THEN r ELSE <<prev[Head(r)]>> \o r

LEMMA FurtherTraces ==
  ASSUME PlannerInv, Planning, NEW r, Trace(r)
  PROVE  /\ Trace(Further(r))
         /\ prev[r[1]] = Start => Further(r) = r
         /\ prev[r[1]] # Start => Len(Further(r)) = Len(r) + 1
<1>1. PICK V : V = Reached \ {Start}
  OBVIOUS
<1>2. r \in Seq(V) /\ Len(r) >= 1 /\ r[1] \in V /\ Head(r) = r[1] /\ Len(r) \in Nat
  <2>1. r \in Seq(V) /\ Len(r) >= 1
    BY <1>1 DEF Trace
  <2>2. QED
    BY <2>1
<1>3. PICK x : x = prev[r[1]]
  OBVIOUS
<1>4. x \in Reached
  BY <1>1, <1>2, <1>3 DEF PlannerInv, SearchTypes, LinksAreLegs
<1>5. Further(r) = IF x = Start THEN r ELSE <<x>> \o r
  BY <1>2, <1>3 DEF Further
<1>6. CASE x = Start
  BY <1>3, <1>5, <1>6
<1>7. CASE x # Start
  <2>1. x \in V
    BY <1>1, <1>4, <1>7
  <2>2. PICK t : t = <<x>> \o r
    OBVIOUS
  <2>3. /\ t \in Seq(V) /\ Len(t) = Len(r) + 1 /\ t[1] = x
        /\ \A i \in 2 .. Len(r) + 1 : t[i] = r[i - 1]
    BY <1>2, <2>1, <2>2, PutBefore
  <2>4. t[Len(t)] = Goal
    <3>1. Len(t) \in 2 .. Len(r) + 1 /\ Len(t) - 1 = Len(r)
      BY <1>2, <2>3
    <3>2. t[Len(t)] = r[Len(r)]
      BY <2>3, <3>1
    <3>3. QED
      BY <3>2 DEF Trace
  <2>5. ASSUME NEW i \in 2 .. Len(t) PROVE prev[t[i]] = t[i - 1]
    <3>1. CASE i = 2
      <4>1. t[2] = r[1] /\ t[2 - 1] = x
        BY <1>2, <2>3
      <4>2. QED
        BY <1>3, <3>1, <4>1
    <3>2. CASE i # 2
      <4>1. i \in 2 .. Len(r) + 1 /\ i - 1 \in 2 .. Len(r) + 1 /\ i - 1 \in 2 .. Len(r)
        BY <1>2, <2>3, <3>2
      <4>2. t[i] = r[i - 1] /\ t[i - 1] = r[(i - 1) - 1]
        BY <2>3, <4>1
      <4>3. QED
        BY <4>1, <4>2 DEF Trace
    <3>3. QED
      BY <3>1, <3>2
  <2>6. Trace(t)
    BY <1>1, <1>2, <2>3, <2>4, <2>5 DEF Trace
  <2>7. QED
    BY <1>3, <1>5, <1>7, <2>2, <2>3, <2>6
<1>8. QED
  BY <1>6, <1>7

(* Along a trace the ways grow: no fix comes twice. *)
LEMMA TraceGrows ==
  ASSUME PlannerInv, Planning, NEW r, Trace(r)
  PROVE  /\ \A i \in 1 .. Len(r) : r[i] \in Reached \ {Start} /\ r[i] \in Fixes
         /\ \A i, j \in 1 .. Len(r) : i < j => best[r[i]] < best[r[j]]
<1>1. PICK V : V = Reached \ {Start}
  OBVIOUS
<1>2. r \in Seq(V) /\ Len(r) \in Nat /\ \A i \in 1 .. Len(r) : r[i] \in V
  BY <1>1 DEF Trace
<1>3. V \subseteq Fixes /\ \A a \in V : best[a] \in Nat
  BY <1>1 DEF PlannerInv, SearchTypes, Places
<1>4. \A i \in 2 .. Len(r) : best[r[i - 1]] < best[r[i]]
  <2> TAKE i \in 2 .. Len(r)
  <2>1. i \in 1 .. Len(r) /\ i - 1 \in 1 .. Len(r)
    OBVIOUS
  <2>2. r[i] \in V /\ r[i - 1] \in V /\ prev[r[i]] = r[i - 1]
    BY <1>2, <2>1 DEF Trace
  <2>3. r[i] \in Neighbours(r[i - 1]) /\ best[r[i]] = best[r[i - 1]] + Miles(r[i - 1], r[i])
    BY <1>1, <2>2 DEF PlannerInv, LinksAreLegs
  <2>4. Miles(r[i - 1], r[i]) \in Nat /\ Miles(r[i - 1], r[i]) > 0
    BY <1>3, <2>2, <2>3, MilesAreDistances DEF Neighbours, Places
  <2>5. QED
    BY <1>3, <2>2, <2>3, <2>4
<1> DEFINE S == {n \in Nat : \A i, j \in 1 .. Len(r) : i < j /\ j <= i + n => best[r[i]] < best[r[j]]}
<1>5. 0 \in S
  BY <1>2
<1>6. ASSUME NEW n \in Nat, n \in S PROVE n + 1 \in S
  <2> SUFFICES ASSUME NEW i \in 1 .. Len(r), NEW j \in 1 .. Len(r), i < j, j <= i + (n + 1)
               PROVE  best[r[i]] < best[r[j]]
    OBVIOUS
  <2>1. j \in 2 .. Len(r) /\ j - 1 \in 1 .. Len(r) /\ j - 1 <= i + n
    BY <1>2
  <2>2. best[r[j - 1]] < best[r[j]]
    BY <1>4, <2>1
  <2>3. i = j - 1 \/ best[r[i]] < best[r[j - 1]]
    <3>1. i = j - 1 \/ i < j - 1
      OBVIOUS
    <3>2. QED
      BY <1>6, <2>1, <3>1
  <2>4. best[r[i]] \in Nat /\ best[r[j - 1]] \in Nat /\ best[r[j]] \in Nat
    BY <1>2, <1>3, <2>1
  <2>5. QED
    BY <2>2, <2>3, <2>4
<1>7. ASSUME NEW i \in 1 .. Len(r), NEW j \in 1 .. Len(r), i < j
      PROVE  best[r[i]] < best[r[j]]
  <2>1. Len(r) \in S
    <3> HIDE DEF S
    <3>1. QED
      BY <1>2, <1>5, <1>6, SetInduction
  <2>2. j <= i + Len(r)
    BY <1>2
  <2>3. QED
    BY <1>7, <2>1, <2>2
<1>8. QED
  BY <1>1, <1>2, <1>3, <1>7

LEMMA TraceIsBounded ==
  ASSUME PlannerInv, Planning, NEW r, Trace(r)
  PROVE  Len(r) <= Cardinality(Fixes)
<1>1. PICK n \in Nat : n = Len(r)
  BY DEF Trace
<1>2. PICK f : f = [i \in 1 .. n |-> r[i]]
  OBVIOUS
<1>3. \A i, j \in 1 .. n : i # j => r[i] # r[j]
  <2> SUFFICES ASSUME NEW i \in 1 .. n, NEW j \in 1 .. n, i < j PROVE r[i] # r[j]
    BY <1>1
  <2>1. best[r[i]] < best[r[j]] /\ best[r[i]] \in Nat
    BY <1>1, TraceGrows DEF PlannerInv, SearchTypes
  <2>2. QED
    BY <2>1
<1>4. f \in Injection(1 .. n, Fixes)
  BY <1>1, <1>2, <1>3, TraceGrows DEF Injection, IsInjective
<1>5. IsFiniteSet(1 .. n) /\ Cardinality(1 .. n) = n
  <2>1. 1 \in Int /\ n \in Int
    OBVIOUS
  <2>2. Cardinality(1 .. n) = IF 1 > n THEN 0 ELSE n - 1 + 1
    BY <2>1, FS_Interval
  <2>3. IsFiniteSet(1 .. n)
    BY <2>1, FS_Interval
  <2>4. QED
    BY <2>2, <2>3
<1>6. Cardinality(1 .. n) <= Cardinality(Fixes)
  BY <1>4, <1>5, PlacesAreFinite, FS_Injection
<1>7. QED
  BY <1>1, <1>5, <1>6

(* At its end the chain has left the start: it cannot grow with every step. *)
LEMMA ChainLeadsHome ==
  ASSUME PlannerInv, Planning, Goal \in Reached
  PROVE  Trace(Chain) /\ prev[Chain[1]] = Start
<1>1. PICK N \in Nat : N = Cardinality(Fixes)
  BY PlacesAreFinite
<1>2. PICK V : V = {r \in Seq(Reached \ {Start}) : Trace(r)}
  OBVIOUS
<1>3. \A r : r \in V <=> Trace(r)
  BY <1>2 DEF Trace
<1> DEFINE first == <<Goal>>
           G == [p \in (1 .. N) \X V |-> Further(p[2])]
           Recursion(f) == [n \in 0 .. N |-> IF n = 0 THEN first ELSE Further(f[n - 1])]
           back == CHOOSE f : f = Recursion(f)
<1>4. Chain = back[N]
  BY <1>1 DEF Chain, Further
<1>5. first \in V /\ Len(first) = 1
  <2>1. Goal \in Reached \ {Start}
    BY GoalIsPlace
  <2>2. first \in Seq(Reached \ {Start}) /\ Len(first) = 1 /\ first[1] = Goal
    BY <2>1
  <2>3. QED
    BY <1>3, <2>2 DEF Trace
<1>6. \A r \in V : Further(r) \in V
  BY <1>3, FurtherTraces
<1>7. G \in [(1 .. N) \X V -> V] /\ \A i \in 1 .. N, r \in V : G[<<i, r>>] = Further(r)
  BY <1>6
<1> HIDE DEF G, first
<1>8. PICK f \in [0 .. N -> V] : f[0] = first /\ \A i \in 1 .. N : f[i] = G[<<i, f[i - 1]>>]
  <2> HIDE DEF Recursion, back
  <2>1. PICK x \in V, g \in {G} : StepsThrough(g, N, V) /\ x = first
    BY <1>5, <1>7 DEF StepsThrough
  <2>2. PICK f \in [0 .. N -> V] : Recurs(f, N, x, g)
    BY <1>1, <2>1, RecursionExists
  <2>3. QED
    BY <2>1, <2>2 DEF Recurs
<1>9. f = Recursion(f)
  <2>1. \A i \in 0 .. N : f[i] = IF i = 0 THEN first ELSE Further(f[i - 1])
    <3> TAKE i \in 0 .. N
    <3>1. i # 0 => i \in 1 .. N /\ f[i - 1] \in V
      OBVIOUS
    <3>2. QED
      BY <1>7, <1>8, <3>1
  <2>2. f = [i \in 0 .. N |-> f[i]]
    OBVIOUS
  <2>3. QED
    BY <2>1, <2>2
<1>10. back = Recursion(back)
  <2> HIDE DEF Recursion
  <2>1. QED
    BY <1>9
<1>11. PICK b : b = back
  OBVIOUS
<1>12. b = [n \in 0 .. N |-> IF n = 0 THEN first ELSE Further(b[n - 1])]
  <2> HIDE DEF back
  <2>1. QED
    BY <1>10, <1>11
<1>13. b[0] = first /\ \A n \in 1 .. N : b[n] = Further(b[n - 1])
  <2>1. \A n \in 0 .. N : b[n] = IF n = 0 THEN first ELSE Further(b[n - 1])
    BY <1>12
  <2>2. 0 \in 0 .. N /\ \A n \in 1 .. N : n \in 0 .. N /\ n # 0
    OBVIOUS
  <2>3. QED
    BY <2>1, <2>2
<1> DEFINE Grown(n) == b[n] \in V /\ (prev[b[n][1]] = Start \/ Len(b[n]) = n + 1)
           S == {n \in Nat : n <= N => Grown(n)}
<1>14. 0 \in S
  BY <1>5, <1>13
<1>15. ASSUME NEW n \in Nat, n \in S PROVE n + 1 \in S
  <2> SUFFICES ASSUME n + 1 <= N PROVE Grown(n + 1)
    OBVIOUS
  <2>1. n + 1 \in 1 .. N /\ (n + 1) - 1 = n /\ Grown(n)
    BY <1>15
  <2>2. PICK r \in V : r = b[n]
    BY <2>1
  <2>3. b[n + 1] = Further(r)
    BY <1>13, <2>1, <2>2
  <2>4. /\ Further(r) \in V
        /\ prev[r[1]] = Start => Further(r) = r
        /\ prev[r[1]] # Start => Len(Further(r)) = Len(r) + 1
    BY <1>3, FurtherTraces
  <2>5. prev[r[1]] = Start \/ Len(r) = n + 1
    BY <2>1, <2>2
  <2>6. CASE prev[r[1]] = Start
    BY <2>3, <2>4, <2>6
  <2>7. CASE prev[r[1]] # Start
    BY <2>3, <2>4, <2>5, <2>7
  <2>8. QED
    BY <2>6, <2>7
<1>16. Grown(N)
  <2>1. N \in S
    <3> HIDE DEF S
    <3>1. QED
      BY <1>14, <1>15, SetInduction
  <2>2. QED
    BY <2>1
<1>17. Chain = b[N]
  <2> HIDE DEF back
  <2>1. QED
    BY <1>4, <1>11
<1>18. Trace(Chain) /\ (prev[Chain[1]] = Start \/ Len(Chain) = N + 1)
  BY <1>3, <1>16, <1>17
<1>19. Len(Chain) <= N
  BY <1>1, <1>18, TraceIsBounded
<1>20. QED
  BY <1>18, <1>19

(* The length of a route is a sum over its legs. *)
LegTo(r, i) == Miles(IF i = 1 THEN Start ELSE r[i - 1], r[i])

LEMMA RouteLengthSums ==
  ASSUME NEW r \in Seq(Fixes)
  PROVE  \E f \in [0 .. Len(r) -> Nat] :
           /\ f[0] = 0 /\ RouteLength(r) = f[Len(r)]
           /\ \A i \in 1 .. Len(r) : f[i] = f[i - 1] + LegTo(r, i)
<1>1. PICK n \in Nat : n = Len(r)
  OBVIOUS
<1>2. \A i \in 1 .. n : LegTo(r, i) \in Nat
  <2> TAKE i \in 1 .. n
  <2>1. r[i] \in Places /\ (i # 1 => r[i - 1] \in Places) /\ Start \in Places
    BY <1>1 DEF Places
  <2>2. (IF i = 1 THEN Start ELSE r[i - 1]) \in Places
    BY <2>1
  <2>3. QED
    BY <2>1, <2>2, MilesAreDistances DEF LegTo
<1> DEFINE G == [p \in (1 .. n) \X Nat |-> p[2] + LegTo(r, p[1])]
           Recursion(f) == [i \in 0 .. n |-> IF i = 0 THEN 0 ELSE f[i - 1] + LegTo(r, i)]
           len == CHOOSE f : f = Recursion(f)
<1>3. RouteLength(r) = len[n]
  BY <1>1 DEF RouteLength, LegTo
<1>4. G \in [(1 .. n) \X Nat -> Nat] /\ \A i \in 1 .. n, v \in Nat : G[<<i, v>>] = v + LegTo(r, i)
  BY <1>2
<1> HIDE DEF G
<1>5. PICK f \in [0 .. n -> Nat] : f[0] = 0 /\ \A i \in 1 .. n : f[i] = G[<<i, f[i - 1]>>]
  <2> HIDE DEF Recursion, len
  <2>1. PICK U : U = Nat
    OBVIOUS
  <2>2. PICK x \in U, g \in {G} : StepsThrough(g, n, U) /\ x = 0
    BY <1>4, <2>1 DEF StepsThrough
  <2>3. PICK f \in [0 .. n -> U] : Recurs(f, n, x, g)
    BY <1>1, <2>2, RecursionExists
  <2>4. QED
    BY <2>1, <2>2, <2>3 DEF Recurs
<1>6. f = Recursion(f)
  <2>1. \A i \in 0 .. n : f[i] = IF i = 0 THEN 0 ELSE f[i - 1] + LegTo(r, i)
    <3> TAKE i \in 0 .. n
    <3>1. i # 0 => i \in 1 .. n /\ f[i - 1] \in Nat
      OBVIOUS
    <3>2. QED
      BY <1>4, <1>5, <3>1
  <2>2. f = [i \in 0 .. n |-> f[i]]
    OBVIOUS
  <2>3. QED
    BY <2>1, <2>2
<1>7. len = Recursion(len)
  <2> HIDE DEF Recursion
  <2>1. QED
    BY <1>6
<1>8. PICK l : l = len
  OBVIOUS
<1>9. l = [i \in 0 .. n |-> IF i = 0 THEN 0 ELSE l[i - 1] + LegTo(r, i)]
  <2> HIDE DEF len
  <2>1. QED
    BY <1>7, <1>8
<1>10. l[0] = 0 /\ \A i \in 1 .. n : l[i] = l[i - 1] + LegTo(r, i)
  <2>1. \A i \in 0 .. n : l[i] = IF i = 0 THEN 0 ELSE l[i - 1] + LegTo(r, i)
    BY <1>9
  <2>2. 0 \in 0 .. n /\ \A i \in 1 .. n : i \in 0 .. n /\ i # 0
    OBVIOUS
  <2>3. QED
    BY <2>1, <2>2
<1> DEFINE S == {i \in Nat : i <= n => l[i] \in Nat}
<1>11. 0 \in S
  BY <1>10
<1>12. ASSUME NEW i \in Nat, i \in S PROVE i + 1 \in S
  <2> SUFFICES ASSUME i + 1 <= n PROVE l[i + 1] \in Nat
    OBVIOUS
  <2>1. i + 1 \in 1 .. n /\ (i + 1) - 1 = i /\ l[i] \in Nat
    BY <1>12
  <2>2. QED
    BY <1>2, <1>10, <2>1
<1>13. l \in [0 .. n -> Nat]
  <2>1. Nat \subseteq S
    <3> HIDE DEF S
    <3>1. QED
      BY <1>11, <1>12, SetInduction
  <2>2. \A i \in 0 .. n : l[i] \in Nat
    BY <2>1
  <2>3. l = [i \in 0 .. n |-> l[i]]
    BY <1>9
  <2>4. QED
    BY <2>2, <2>3
<1>14. QED
  <2>1. RouteLength(r) = l[n]
    <3> HIDE DEF len
    <3>1. QED
      BY <1>3, <1>8
  <2>2. QED
    BY <1>1, <1>10, <1>13, <2>1

LEMMA RouteLengthIsNatural ==
  ASSUME NEW r \in Seq(Fixes)
  PROVE  RouteLength(r) \in Nat
<1>1. Len(r) \in 0 .. Len(r)
  OBVIOUS
<1>2. QED
  BY <1>1, RouteLengthSums

(* What is read back is as long as the way that was found, and legal. *)
LEMMA ChainIsShortest ==
  ASSUME PlannerInv, Planning, Goal \in Reached
  PROVE  /\ Chain \in Seq(Fixes) /\ Chain # <<>> /\ Legal(Chain)
         /\ RouteLength(Chain) = best[Goal]
<1>1. PICK r : r = Chain
  OBVIOUS
<1>2. Trace(r) /\ prev[r[1]] = Start
  BY <1>1, ChainLeadsHome
<1>3. PICK n \in Nat : n = Len(r) /\ n >= 1 /\ r[n] = Goal
  BY <1>2 DEF Trace
<1>4. \A i \in 1 .. n : r[i] \in Reached \ {Start} /\ r[i] \in Fixes
  BY <1>2, <1>3, TraceGrows
<1>5. r \in Seq(Fixes) /\ r # <<>>
  <2>1. r \in Seq(Reached \ {Start})
    BY <1>2 DEF Trace
  <2>2. r = [i \in 1 .. n |-> r[i]]
    BY <1>3, <2>1
  <2>3. r \in [1 .. n -> Fixes]
    BY <1>4, <2>2
  <2>4. r \in Seq(Fixes) /\ Len(r) = n
    BY <2>3, FunctionIsSequence
  <2>5. QED
    BY <1>3, <2>4
<1>6. \A i \in 1 .. n : prev[r[i]] = IF i = 1 THEN Start ELSE r[i - 1]
  <2> TAKE i \in 1 .. n
  <2>1. i # 1 => i \in 2 .. n
    OBVIOUS
  <2>2. QED
    BY <1>2, <1>3, <2>1 DEF Trace
<1>7. \A i \in 1 .. n : /\ prev[r[i]] \in seen /\ r[i] \in Neighbours(prev[r[i]])
                        /\ best[r[i]] = best[prev[r[i]]] + Miles(prev[r[i]], r[i])
  BY <1>4 DEF PlannerInv, LinksAreLegs
<1>8. PICK f \in [0 .. n -> Nat] : /\ f[0] = 0 /\ RouteLength(r) = f[n]
                                   /\ \A i \in 1 .. n : f[i] = f[i - 1] + LegTo(r, i)
  BY <1>3, <1>5, RouteLengthSums
<1>9. \A i \in 1 .. n : LegTo(r, i) = Miles(prev[r[i]], r[i])
  BY <1>6 DEF LegTo
<1> DEFINE S == {i \in 1 .. n : f[i] = best[r[i]]}
<1>10. 1 \in S
  <2>1. 1 \in 1 .. n /\ f[1 - 1] = 0
    BY <1>3, <1>8
  <2>2. f[1] = 0 + Miles(Start, r[1])
    BY <1>2, <1>8, <1>9, <2>1
  <2>3. best[r[1]] = 0 + Miles(Start, r[1])
    BY <1>2, <1>7, <2>1 DEF PlannerInv, SearchTypes
  <2>4. QED
    BY <2>1, <2>2, <2>3
<1>11. ASSUME NEW i \in 1 .. n, i \in S, i + 1 \in 1 .. n PROVE i + 1 \in S
  <2>1. prev[r[i + 1]] = r[i]
    BY <1>6, <1>11
  <2>2. f[i + 1] = f[i] + Miles(r[i], r[i + 1])
    <3>1. (i + 1) - 1 = i
      OBVIOUS
    <3>2. f[i + 1] = f[(i + 1) - 1] + LegTo(r, i + 1)
      BY <1>8, <1>11
    <3>3. LegTo(r, i + 1) = Miles(r[i], r[i + 1])
      BY <1>9, <1>11, <2>1
    <3>4. QED
      BY <3>1, <3>2, <3>3
  <2>3. best[r[i + 1]] = best[r[i]] + Miles(r[i], r[i + 1])
    BY <1>7, <1>11, <2>1
  <2>4. QED
    BY <1>11, <2>2, <2>3
<1>12. \A i \in 1 .. n : i \in S
  <2> HIDE DEF S
  <2>1. 1 \in S \/ n = 0
    BY <1>10
  <2>2. QED
    BY <1>11, <2>1, PlaceInduction
<1>13. RouteLength(r) = best[Goal]
  BY <1>3, <1>8, <1>12
<1>14. Legal(r)
  <2> SUFFICES ASSUME NEW i \in 1 .. n
               PROVE  /\ ~ Blocking(IF i = 1 THEN Start ELSE r[i - 1], r[i])
                      /\ Miles(IF i = 1 THEN Start ELSE r[i - 1], r[i]) <= MaxLeg
    BY <1>3 DEF Legal
  <2>1. PICK a : a = IF i = 1 THEN Start ELSE r[i - 1]
    OBVIOUS
  <2>2. r[i] \in Neighbours(a)
    BY <1>6, <1>7, <2>1
  <2>3. QED
    BY <2>1, <2>2 DEF Neighbours
<1>15. QED
  BY <1>1, <1>5, <1>13, <1>14

-----------------------------------------------------------------------------
(* One approach fix after the other.                                        *)

FreshSearch ==
  /\ entry \in 1 .. Len(Entries) + 1
  /\ open = FreshOpen(entry) /\ best = FreshBest /\ prev = Empty /\ seen = {}

LEMMA FreshSearchKnows == FreshSearch => PlannerInv
<1> SUFFICES ASSUME FreshSearch PROVE PlannerInv
  OBVIOUS
<1>1. /\ Reached = {Start} /\ best = [f \in {Start} |-> 0] /\ best[Start] = 0
      /\ DOMAIN prev = {} /\ seen = {} /\ prev = [f \in {} |-> Start]
  BY DEF FreshSearch, FreshBest, Empty, Reached
<1>2. Planning => entry \in 1 .. Len(Entries)
  BY DEF FreshSearch, Planning
<1>3. Planning => open = {<<Miles(Start, Goal), 0, Start>>}
  BY DEF FreshSearch, FreshOpen, Planning, Goal
<1>4. ~ Planning => open = {}
  BY DEF FreshSearch, FreshOpen, Planning
<1>5. Start \in Places
  BY DEF Places
<1>6. Planning => Goal \in Places
  <2>1. Entries \in Seq(Fixes)
    BY RouteAssumption
  <2>2. QED
    BY <1>2, <2>1 DEF Goal, Places
<1>7. Planning => Miles(Start, Goal) \in Nat
  BY <1>5, <1>6, MilesAreDistances
<1>8. SearchTypes
  <2>1. prev \in [Reached \ {Start} -> Places]
    BY <1>1
  <2>2. open \subseteq Nat \X Nat \X Places
    <3>1. Planning => <<Miles(Start, Goal), 0, Start>> \in Nat \X Nat \X Places
      BY <1>5, <1>7
    <3>2. QED
      BY <1>3, <1>4, <3>1
  <2>3. QED
    BY <1>1, <1>2, <1>5, <2>1, <2>2 DEF SearchTypes
<1>9. ASSUME Planning
      PROVE  /\ Goal \notin seen
             /\ HeapCovers /\ SettledPassOn /\ SettledAreShortest
             /\ ReachedByWays /\ LinksAreLegs
  <2>1. Miles(Start, Goal) \in Nat /\ open = {<<Miles(Start, Goal), 0, Start>>}
    BY <1>3, <1>7, <1>9
  <2>2. HeapCovers
    <3>1. 0 + Miles(Start, Goal) = Miles(Start, Goal)
      BY <2>1
    <3>2. \A e \in open : e[3] = Start /\ e[2] = 0 /\ e[1] = Miles(Start, Goal)
      BY <2>1
    <3>3. \A e \in open : e[3] \in Reached /\ best[e[3]] <= e[2] /\ e[1] = e[2] + Miles(e[3], Goal)
      BY <1>1, <3>1, <3>2
    <3>4. \A a \in Reached \ seen : <<best[a] + Miles(a, Goal), best[a], a>> \in open
      BY <1>1, <2>1, <3>1
    <3>5. QED
      BY <3>3, <3>4 DEF HeapCovers
  <2>3. ReachedByWays
    <3>1. Cardinality({}) = 0
      BY FS_EmptySet
    <3>2. \A w : Ways(w) => 0 \in w[0][Start]
      BY <1>5 DEF Ways
    <3>3. QED
      BY <1>1, <3>1, <3>2 DEF ReachedByWays
  <2>4. QED
    BY <1>1, <2>2, <2>3 DEF SettledPassOn, SettledAreShortest, LinksAreLegs
<1>10. QED
  BY <1>8, <1>9 DEF PlannerInv

Found == {i \in DOMAIN planned : planned[i] # NoRoute}
FoundLengths == {RouteLength(planned[i]) : i \in Found}

PlansTypes ==
  /\ entry \in 1 .. Len(Entries) + 1
  /\ planned \in Seq(Seq(Fixes)) /\ Len(planned) = entry - 1 /\ route \in Seq(Fixes)

PlannedAreShortest ==
  \A i \in 1 .. entry - 1 :
    IF planned[i] = NoRoute THEN Wanted(Entries[i]) = {}
    ELSE IsShortest(RouteLength(planned[i]), Wanted(Entries[i])) /\ Legal(planned[i])

KeptIsShortest ==
  /\ route = NoRoute <=> Found = {}
  /\ Found # {} => IsShortest(RouteLength(route), FoundLengths)

RouteInv == PlannerInv /\ PlansTypes /\ PlannedAreShortest /\ KeptIsShortest

LEMMA RouteInvInitially == RouteInit => RouteInv
<1> SUFFICES ASSUME RouteInit PROVE RouteInv
  OBVIOUS
<1>1. entry = 1 /\ planned = <<>> /\ route = <<>> /\ Len(Entries) \in Nat
  BY RouteAssumption DEF RouteInit
<1>2. FreshSearch
  BY <1>1 DEF RouteInit, FreshSearch
<1>3. PlannerInv
  BY <1>2, FreshSearchKnows
<1>4. PlansTypes
  BY <1>1 DEF PlansTypes
<1>5. PlannedAreShortest
  BY <1>1 DEF PlannedAreShortest
<1>6. KeptIsShortest
  <2>1. Found = {}
    BY <1>1 DEF Found
  <2>2. QED
    BY <1>1, <2>1 DEF KeptIsShortest, NoRoute
<1>7. QED
  BY <1>3, <1>4, <1>5, <1>6 DEF RouteInv

LEMMA SameWanted ==
  ASSUME UNCHANGED blocked
  PROVE  /\ \A g : Wanted(g)' = Wanted(g)
         /\ \A r : Legal(r)' <=> Legal(r)
<1>1. Lengths' = Lengths
  BY SameLegs
<1>2. \A g : Wanted(g)' = Wanted(g)
  BY <1>1 DEF Wanted, Blocking
<1>3. \A r : Legal(r)' <=> Legal(r)
  BY DEF Legal, Blocking
<1>4. QED
  BY <1>2, <1>3

(* The result for one approach fix is compared with the others. *)
LEMMA ConcludeKeeps ==
  ASSUME RouteInv, Planning, NEW r \in Seq(Fixes), Conclude(r),
         r = NoRoute => Wanted(Goal) = {},
         r # NoRoute => IsShortest(RouteLength(r), Wanted(Goal)) /\ Legal(r)
  PROVE  RouteInv'
<1>1. /\ route' = Kept(r) /\ planned' = Append(planned, r) /\ entry' = entry + 1
      /\ open' = FreshOpen(entry + 1) /\ best' = FreshBest /\ prev' = Empty /\ seen' = {}
      /\ UNCHANGED blocked
  BY DEF Conclude
<1>2. /\ entry \in 1 .. Len(Entries) /\ Len(Entries) \in Nat
      /\ planned \in Seq(Seq(Fixes)) /\ Len(planned) = entry - 1 /\ route \in Seq(Fixes)
  BY RouteAssumption DEF RouteInv, PlansTypes, Planning
<1>3. /\ planned' \in Seq(Seq(Fixes)) /\ Len(planned') = entry
      /\ \A i \in 1 .. entry - 1 : planned'[i] = planned[i]
      /\ planned'[entry] = r
  BY <1>1, <1>2
<1>4. PlannerInv'
  <2>1. FreshSearch'
    BY <1>1, <1>2 DEF FreshSearch, FreshOpen, FreshBest, Empty
  <2>2. QED
    BY <2>1, FreshSearchKnows, PTL
<1>5. PlansTypes'
  <2>1. route' \in Seq(Fixes)
    BY <1>1, <1>2 DEF Kept
  <2>2. QED
    BY <1>1, <1>2, <1>3, <2>1 DEF PlansTypes
<1>6. PlannedAreShortest'
  <2> SUFFICES ASSUME NEW i \in 1 .. entry
               PROVE  IF planned'[i] = NoRoute THEN Wanted(Entries[i]) = {}
                      ELSE /\ IsShortest(RouteLength(planned'[i]), Wanted(Entries[i]))
                           /\ Legal(planned'[i])
    <3>1. entry' - 1 = entry
      BY <1>1, <1>2
    <3>2. (\A g : Wanted(g)' = Wanted(g)) /\ \A q : Legal(q)' <=> Legal(q)
      BY <1>1, SameWanted
    <3>3. QED
      BY <3>1, <3>2 DEF PlannedAreShortest, IsShortest, NoRoute, RouteLength
  <2>1. CASE i = entry
    BY <1>3, <2>1 DEF Goal
  <2>2. CASE i # entry
    <3>1. i \in 1 .. entry - 1
      BY <1>2, <2>2
    <3>2. planned'[i] = planned[i]
      BY <1>3, <3>1
    <3>3. QED
      BY <3>1, <3>2 DEF RouteInv, PlannedAreShortest
  <2>3. QED
    BY <2>1, <2>2
<1>7. KeptIsShortest'
  <2>1. DOMAIN planned = 1 .. entry - 1 /\ DOMAIN planned' = 1 .. entry
    BY <1>2, <1>3
  <2>2. Found' = Found \cup (IF r = NoRoute THEN {} ELSE {entry})
    <3>1. Found' = {i \in 1 .. entry : planned'[i] # NoRoute}
      BY <2>1 DEF Found, NoRoute
    <3>2. Found = {i \in 1 .. entry - 1 : planned[i] # NoRoute}
      BY <2>1 DEF Found
    <3>3. \A i : i \in 1 .. entry <=> i \in 1 .. entry - 1 \/ i = entry
      BY <1>2
    <3>4. \A i : i \in Found' <=> i \in Found \/ (i = entry /\ r # NoRoute)
      <4> TAKE i
      <4>1. CASE i \in 1 .. entry - 1
        <5>1. i # entry
          BY <1>2, <4>1
        <5>2. QED
          BY <1>3, <3>1, <3>2, <3>3, <4>1, <5>1
      <4>2. CASE i \notin 1 .. entry - 1
        BY <1>3, <3>1, <3>2, <3>3, <4>2
      <4>3. QED
        BY <4>1, <4>2
    <3>5. QED
      BY <3>4
  <2>3. FoundLengths' = FoundLengths \cup (IF r = NoRoute THEN {} ELSE {RouteLength(r)})
    <3>1. FoundLengths' = {RouteLength(planned'[i]) : i \in Found'}
      BY DEF FoundLengths, RouteLength
    <3>2. \A i \in Found : planned'[i] = planned[i]
      BY <1>3, <2>1 DEF Found
    <3>3. QED
      BY <1>3, <2>2, <3>1, <3>2 DEF FoundLengths
  <2>4. /\ RouteLength(r) \in Nat /\ RouteLength(route) \in Nat
        /\ \A x \in FoundLengths : x \in Nat
    <3>1. \A i \in Found : planned[i] \in Seq(Fixes)
      BY <1>2 DEF Found
    <3>2. QED
      BY <1>2, <3>1, RouteLengthIsNatural DEF FoundLengths
  <2>5. (route = NoRoute <=> Found = {})
        /\ (Found # {} => RouteLength(route) \in FoundLengths
                          /\ \A x \in FoundLengths : RouteLength(route) <= x)
    BY DEF RouteInv, KeptIsShortest, IsShortest
  <2>6. Found = {} => FoundLengths = {}
    BY DEF FoundLengths
  <2>7. (route' = NoRoute <=> Found' = {})
        /\ (Found' # {} => RouteLength(route') \in FoundLengths'
                           /\ \A x \in FoundLengths' : RouteLength(route') <= x)
    <3>1. CASE r = NoRoute
      <4>1. route' = route
        BY <1>1, <3>1 DEF Kept
      <4>2. QED
        BY <2>2, <2>3, <2>5, <3>1, <4>1
    <3>2. CASE r # NoRoute /\ (route = NoRoute \/ RouteLength(r) < RouteLength(route))
      <4>1. route' = r
        BY <1>1, <3>2 DEF Kept
      <4>2. \A x \in FoundLengths : RouteLength(r) <= x
        BY <2>4, <2>5, <2>6, <3>2
      <4>3. QED
        BY <2>2, <2>3, <2>4, <3>2, <4>1, <4>2
    <3>3. CASE r # NoRoute /\ ~ (route = NoRoute \/ RouteLength(r) < RouteLength(route))
      <4>1. route' = route
        BY <1>1, <3>3 DEF Kept
      <4>2. RouteLength(route) <= RouteLength(r)
        BY <2>4, <3>3
      <4>3. QED
        BY <2>2, <2>3, <2>5, <3>3, <4>1, <4>2
    <3>4. QED
      BY <3>1, <3>2, <3>3
  <2>8. KeptIsShortest' <=>
          /\ route' = NoRoute <=> Found' = {}
          /\ Found' # {} => RouteLength(route') \in FoundLengths'
                            /\ \A x \in FoundLengths' : RouteLength(route') <= x
    BY DEF KeptIsShortest, IsShortest, NoRoute, RouteLength
  <2>9. QED
    BY <2>7, <2>8
<1>8. QED
  BY <1>4, <1>5, <1>6, <1>7 DEF RouteInv

LEMMA ReachedLengths ==
  ASSUME PlannerInv, Planning, NEW a \in Reached
  PROVE  best[a] \in Lengths[a]
<1>1. PICK w : Ways(w)
  BY WaysExist
<1>2. Cardinality(seen) \in 0 .. Cardinality(Fixes)
  BY SettledAreCounted
<1>3. a \in Places
  BY DEF PlannerInv, SearchTypes
<1>4. w[Cardinality(seen)][a] \subseteq Lengths[a]
  BY <1>1, <1>2, <1>3, WaysStay
<1>5. QED
  BY <1>1, <1>4 DEF PlannerInv, ReachedByWays

LEMMA DirectKeeps ==
  ASSUME RouteInv, Direct
  PROVE  RouteInv'
<1>1. Planning /\ ~ Blocking(Start, Goal) /\ Conclude(<<Goal>>)
  BY DEF Direct
<1>2. Goal \in Fixes /\ Goal \in Places /\ Start \in Places
  BY <1>1, GoalIsPlace DEF RouteInv, Places
<1>3. PICK r \in Seq(Fixes) : r = <<Goal>> /\ Len(r) = 1 /\ r[1] = Goal
  <2>1. <<Goal>> \in Seq(Fixes) /\ Len(<<Goal>>) = 1 /\ <<Goal>>[1] = Goal
    BY <1>2
  <2>2. QED
    BY <2>1
<1>4. RouteLength(r) = Miles(Start, Goal) /\ Miles(Start, Goal) \in Nat
  <2>1. PICK f \in [0 .. 1 -> Nat] : /\ f[0] = 0 /\ RouteLength(r) = f[1]
                                     /\ \A i \in 1 .. 1 : f[i] = f[i - 1] + LegTo(r, i)
    BY <1>3, RouteLengthSums
  <2>2. f[1] = f[0] + LegTo(r, 1)
    <3>1. 1 - 1 = 0 /\ 1 \in 1 .. 1
      OBVIOUS
    <3>2. f[1] = f[1 - 1] + LegTo(r, 1)
      BY <2>1, <3>1
    <3>3. QED
      BY <3>1, <3>2
  <2>3. LegTo(r, 1) = Miles(Start, Goal)
    BY <1>3 DEF LegTo
  <2>4. Miles(Start, Goal) \in Nat
    BY <1>2, MilesAreDistances
  <2>5. QED
    BY <2>1, <2>2, <2>3, <2>4
<1>5. Wanted(Goal) = {Miles(Start, Goal)}
  BY <1>1 DEF Wanted
<1>6. IsShortest(RouteLength(r), Wanted(Goal))
  BY <1>4, <1>5 DEF IsShortest
<1>7. Legal(r)
  <2>1. \A i \in 1 .. Len(r) : i = 1
    BY <1>3
  <2>2. ~ (Len(r) > 1)
    BY <1>3
  <2>3. QED
    BY <1>1, <1>3, <2>1, <2>2 DEF Legal
<1>8. r # NoRoute
  BY <1>3 DEF NoRoute
<1>9. QED
  BY <1>1, <1>3, <1>6, <1>7, <1>8, ConcludeKeeps

LEMMA ArriveKeeps ==
  ASSUME RouteInv, Planning, Blocking(Start, Goal), NEW e \in open, Smallest(e), Arrive(e)
  PROVE  RouteInv'
<1>1. e[3] = Goal /\ Conclude(Chain)
  BY DEF Arrive
<1>2. PlannerInv /\ Goal \notin seen
  BY DEF RouteInv, PlannerInv
<1>3. Goal \in Reached /\ \A d \in Lengths[Goal] : best[Goal] <= d
  BY <1>1, <1>2, SmallestIsShortest
<1>4. /\ Chain \in Seq(Fixes) /\ Chain # NoRoute /\ Legal(Chain)
      /\ RouteLength(Chain) = best[Goal]
  BY <1>2, <1>3, ChainIsShortest DEF NoRoute
<1>5. Wanted(Goal) = Lengths[Goal]
  BY DEF Wanted
<1>6. IsShortest(RouteLength(Chain), Wanted(Goal))
  BY <1>2, <1>3, <1>4, <1>5, ReachedLengths DEF IsShortest
<1>7. QED
  BY <1>1, <1>4, <1>6, ConcludeKeeps

LEMMA ExhaustedKeeps ==
  ASSUME RouteInv, Blocking(Start, Goal), Exhausted
  PROVE  RouteInv'
<1>1. Planning /\ open = {} /\ Conclude(NoRoute)
  BY DEF Exhausted
<1>2. PlannerInv /\ Goal \notin seen /\ Goal \in Places
  BY <1>1, GoalIsPlace DEF RouteInv, PlannerInv
<1>3. Reached \ seen = {}
  BY <1>1, <1>2 DEF PlannerInv, HeapCovers
<1>4. Lengths[Goal] = {}
  <2> SUFFICES ASSUME NEW d \in Lengths[Goal] PROVE FALSE
    OBVIOUS
  <2>1. Frontier(Goal, d)
    BY <1>1, <1>2, FrontierCrossed
  <2>2. QED
    BY <1>2, <1>3, <2>1 DEF Frontier
<1>5. Wanted(Goal) = {}
  BY <1>4 DEF Wanted
<1>6. NoRoute \in Seq(Fixes)
  BY DEF NoRoute
<1>7. QED
  BY <1>1, <1>5, <1>6, ConcludeKeeps

(* While the search goes on nothing is concluded. *)
LEMMA SearchingKeeps ==
  ASSUME RouteInv, PlannerInv', UNCHANGED <<blocked, entry, route, planned>>
  PROVE  RouteInv'
<1>1. PlansTypes'
  BY DEF RouteInv, PlansTypes
<1>2. PlannedAreShortest'
  <2>1. (\A g : Wanted(g)' = Wanted(g)) /\ \A r : Legal(r)' <=> Legal(r)
    BY SameWanted
  <2> SUFFICES ASSUME NEW i \in 1 .. entry' - 1
               PROVE  IF planned'[i] = NoRoute THEN Wanted(Entries[i]) = {}
                      ELSE /\ IsShortest(RouteLength(planned'[i]), Wanted(Entries[i]))
                           /\ Legal(planned'[i])
    BY <2>1 DEF PlannedAreShortest, IsShortest, NoRoute, RouteLength
  <2>2. entry' = entry /\ planned' = planned
    OBVIOUS
  <2>3. QED
    BY <2>2 DEF RouteInv, PlannedAreShortest
<1>3. KeptIsShortest'
  <2>1. Found' = Found /\ FoundLengths' = FoundLengths
    BY DEF Found, FoundLengths, NoRoute, RouteLength
  <2>2. QED
    BY <2>1 DEF RouteInv, KeptIsShortest, IsShortest, NoRoute, RouteLength
<1>4. QED
  BY <1>1, <1>2, <1>3 DEF RouteInv

LEMMA StutterKeeps ==
  ASSUME RouteInv, UNCHANGED routeVars
  PROVE  RouteInv'
<1>1. UNCHANGED <<blocked, entry, open, best, prev, seen, route, planned>>
  BY DEF routeVars
<1>2. Reached' = Reached /\ Goal' = Goal /\ (Planning' <=> Planning)
  BY <1>1 DEF Reached, Goal, Planning
<1>3. Lengths' = Lengths /\ (\A a : Neighbours(a)' = Neighbours(a)) /\ \A w : Ways(w)' <=> Ways(w)
  BY <1>1, SameLegs
<1>4. SearchTypes' /\ HeapCovers' = HeapCovers
  BY <1>1, <1>2 DEF RouteInv, PlannerInv, SearchTypes, HeapCovers
<1>5. /\ SettledPassOn' <=> SettledPassOn
      /\ SettledAreShortest' <=> SettledAreShortest
  BY <1>1, <1>2, <1>3 DEF SettledPassOn, SettledAreShortest
<1>6. /\ ReachedByWays' <=> ReachedByWays
      /\ LinksAreLegs' <=> LinksAreLegs
  BY <1>1, <1>2, <1>3 DEF ReachedByWays, LinksAreLegs
<1>7. PlannerInv'
  BY <1>1, <1>2, <1>4, <1>5, <1>6 DEF RouteInv, PlannerInv
<1>8. QED
  BY <1>1, <1>7, SearchingKeeps

LEMMA RouteInvInductive ==
  ASSUME RouteInv, [RouteNext]_routeVars
  PROVE  RouteInv'
<1>1. CASE Direct
  BY <1>1, DirectKeeps
<1>2. ASSUME Planning, Blocking(Start, Goal), NEW e \in open, Smallest(e),
             Skip(e) \/ Expand(e) \/ Arrive(e)
      PROVE  RouteInv'
  <2>1. PlannerInv
    BY DEF RouteInv
  <2>2. CASE Skip(e)
    <3>1. PlannerInv'
      BY <1>2, <2>1, <2>2, SkipKeeps
    <3>2. UNCHANGED <<blocked, entry, route, planned>>
      BY <2>2 DEF Skip
    <3>3. QED
      BY <3>1, <3>2, SearchingKeeps
  <2>3. CASE Expand(e)
    <3>1. PlannerInv'
      BY <1>2, <2>1, <2>3, ExpandKeeps
    <3>2. UNCHANGED <<blocked, entry, route, planned>>
      BY <2>3 DEF Expand
    <3>3. QED
      BY <3>1, <3>2, SearchingKeeps
  <2>4. CASE Arrive(e)
    BY <1>2, <2>4, ArriveKeeps
  <2>5. QED
    BY <1>2, <2>2, <2>3, <2>4
<1>3. CASE Planning /\ Blocking(Start, Goal) /\ Exhausted
  BY <1>3, ExhaustedKeeps
<1>4. CASE UNCHANGED routeVars
  BY <1>4, StutterKeeps
<1>5. QED
  BY <1>1, <1>2, <1>3, <1>4 DEF RouteNext, Search

LEMMA RouteInvSuffices == RouteInv => RecoveryIsShortest
<1> SUFFICES ASSUME RouteInv PROVE RecoveryIsShortest
  OBVIOUS
<1>1. Planning => \A a \in seen : IsShortest(best[a], Lengths[a])
  <2> SUFFICES ASSUME Planning, NEW a \in seen PROVE IsShortest(best[a], Lengths[a])
    OBVIOUS
  <2>1. PlannerInv /\ a \in Reached
    BY DEF RouteInv, PlannerInv, SearchTypes
  <2>2. QED
    BY <2>1, ReachedLengths DEF IsShortest, PlannerInv, SettledAreShortest
<1>2. QED
  BY <1>1 DEF RouteInv, PlannedAreShortest, KeptIsShortest, Found, FoundLengths, RecoveryIsShortest

LEMMA DayMovesTheSearch ==
  ASSUME [DayNext]_sortieVars
  PROVE  [RouteNext]_routeVars
BY DEF DayNext, sortieVars, Launch, DeclareRecovery, PlanRecovery, PlanHolds, LandEmergency, routeVars

(* The way home: every fix that is taken from the heap is settled for good, *)
(* every approach fix gets the shortest route that crosses nothing, and the *)
(* recovery is the shortest of them (RoutePlanner.plan, recovery).          *)
THEOREM WayHomeIsShortest == DaySpec => []RecoveryIsShortest
<1>1. DayInit => RouteInv
  BY RouteInvInitially DEF DayInit
<1>2. RouteInv /\ [DayNext]_sortieVars => RouteInv'
  BY DayMovesTheSearch, RouteInvInductive
<1>3. RouteInv => RecoveryIsShortest
  BY RouteInvSuffices
<1>4. QED
  BY <1>1, <1>2, <1>3, PTL DEF DaySpec

-----------------------------------------------------------------------------
(* The day of the sortie.                                                   *)

(* Airlines fly under names, patrols under their number, the fighter under  *)
(* its own name (a string too, which no prover derives of a literal).       *)
Callsigns == STRING \cup (Nat \X BOOLEAN) \cup {Fgt}
DayOps == OpsOf(Callsigns)
DaySlots == SlotsOf(Callsigns)

Sorties == [phase : {"GROUND", "ON_STATION", "LANDED"}, takeoff : Int, onStation : Int,
            offStation : Int, declared : Int, landed : Int, emergency : BOOLEAN]

LEMMA ProductsAreNatural == \A a, b \in Nat : a * b \in Nat
OBVIOUS

LEMMA PatrolsFly ==
  PatrolOps \in Seq(DayOps) /\ \A i \in DOMAIN PatrolOps : PatrolOps[i].id # Fgt
<1> DEFINE span == WindowTo - WindowFrom
           at(hundredths) == WindowFrom + (span * hundredths) \div 100
           op(i, departs, t) ==
             [id |-> <<i, departs>>, type |-> PatrolTypes[(i % Len(PatrolTypes)) + 1],
              departs |-> departs, earliest |-> t, emergency |-> FALSE]
           Flown(n) == LET i == (n - 1) \div 2
                       IN  IF n % 2 = 1 THEN op(i, TRUE, at(8 + 18 * i)) ELSE op(i, FALSE, at(55 + 14 * i))
<1>1. PICK n \in Nat : n = 2 * Patrols
  BY DayAssumption
<1>2. span \in Nat /\ WindowFrom \in Nat
  BY DayAssumption
<1>3. \A h \in Nat : at(h) \in Nat
  <2> TAKE h \in Nat
  <2> HIDE DEF span
  <2>1. PICK x \in Nat : x = span * h
    BY <1>2, ProductsAreNatural
  <2>2. x \div 100 \in Nat
    OBVIOUS
  <2>3. QED
    BY <1>2, <2>1, <2>2
<1>4. \A i \in Nat : n > 0 => PatrolTypes[(i % Len(PatrolTypes)) + 1] \in DOMAIN Fleet
  <2> SUFFICES ASSUME NEW i \in Nat, n > 0
               PROVE  PatrolTypes[(i % Len(PatrolTypes)) + 1] \in DOMAIN Fleet
    OBVIOUS
  <2>1. PatrolTypes \in Seq(DOMAIN Fleet) /\ PatrolTypes # <<>>
    BY <1>1, DayAssumption
  <2>2. PICK l \in Nat : l = Len(PatrolTypes) /\ l > 0
    BY <2>1
  <2>3. (i % l) + 1 \in 1 .. l
    BY <2>2
  <2>4. QED
    BY <2>1, <2>2, <2>3
<1> HIDE DEF at
<1>5. \A i, t \in Nat : n > 0 => op(i, TRUE, t) \in DayOps /\ op(i, FALSE, t) \in DayOps
  BY <1>4 DEF DayOps, OpsOf, Callsigns
<1> HIDE DEF op
<1>6. \A m \in 1 .. n : Flown(m) \in DayOps
  <2> TAKE m \in 1 .. n
  <2>1. PICK i \in Nat : i = (m - 1) \div 2
    OBVIOUS
  <2>2. at(8 + 18 * i) \in Nat /\ at(55 + 14 * i) \in Nat
    BY <1>3
  <2>3. op(i, TRUE, at(8 + 18 * i)) \in DayOps /\ op(i, FALSE, at(55 + 14 * i)) \in DayOps
    <3>1. n > 0
      OBVIOUS
    <3>2. QED
      BY <1>5, <2>2, <3>1
  <2>4. QED
    BY <2>1, <2>3
<1>7. PatrolOps = [m \in 1 .. n |-> Flown(m)]
  BY <1>1 DEF PatrolOps, at, op
<1> HIDE DEF Flown
<1>8. PatrolOps \in Seq(DayOps)
  BY <1>6, <1>7, FunctionIsSequence
<1>9. QED
  BY <1>8, CallsignAssumption

LEMMA TimetableFlies ==
  ASSUME NEW civil \in Timetables
  PROVE  ToRunwayOps(civil) \in Seq(DayOps)
         /\ \A i \in DOMAIN ToRunwayOps(civil) : ToRunwayOps(civil)[i].id # Fgt
<1>1. civil \in Seq(Operations)
  BY DayAssumption
<1>2. PICK n \in Nat : n = Len(civil) /\ DOMAIN civil = 1 .. n
  BY <1>1
<1>3. \A i \in 1 .. n : civil[i] \in DayOps /\ civil[i].earliest \in Nat /\ civil[i].id # Fgt
  <2> TAKE i \in 1 .. n
  <2>1. civil[i] \in Operations
    BY <1>1, <1>2
  <2>2. civil[i] \in DayOps /\ civil[i].earliest \in Nat
    BY <2>1 DEF Operations, DayOps, OpsOf, Callsigns
  <2>3. QED
    BY <1>2, <2>2, CallsignAssumption
<1>4. civil \in Seq(DayOps)
  BY <1>1, <1>2, <1>3
<1>5. PICK s : s = SortedByEarliest(civil)
  OBVIOUS
<1>6. s \in Seq(DayOps) /\ TakenFrom(s, civil, 1 .. n)
  BY <1>2, <1>3, <1>4, <1>5, SortedIsPermutation
<1>7. \A i \in DOMAIN s : s[i].id # Fgt
  <2>1. PICK P : P = 1 .. n
    OBVIOUS
  <2>2. TakenFrom(s, civil, P)
    BY <1>6, <2>1
  <2>3. \A i \in DOMAIN s : \E k \in P : s[i] = civil[k]
    BY <2>2, TakenMembers
  <2>4. QED
    BY <1>3, <2>1, <2>3
<1>8. QED
  BY <1>5, <1>6, <1>7 DEF ToRunwayOps

(* Laid out, every schedule clears. *)
LEMMA LaidOutClears ==
  ASSUME NEW ops \in Seq(DayOps), NEW now \in Nat
  PROVE  /\ LayOut(ops, now) \in Seq(DaySlots) /\ Clears(LayOut(ops, now))
         /\ Len(LayOut(ops, now)) = Len(ops)
         /\ \A i \in 1 .. Len(ops) : LayOut(ops, now)[i].op = ops[i]
<1>1. PICK s : s = LayOut(ops, now)
  OBVIOUS
<1>2. s \in Seq(DaySlots) /\ Len(s) = Len(ops) /\ LaysOut(s, ops, now)
  BY <1>1, LayOutRecurs DEF DayOps, DaySlots
<1>3. PICK n \in Nat : n = Len(ops) /\ DOMAIN s = 1 .. n /\ Len(s) = n
  BY <1>2
<1>4. \A i \in 1 .. n : s[i].op = ops[i]
  BY <1>2, <1>3 DEF LaysOut
<1>5. /\ \A i, j \in 1 .. n : i < j => s[j].time >= s[i].time + Keeps(ops[i])
      /\ \A i \in 1 .. n - 1 :
           ops[i].departs /\ ops[i + 1].departs /\ LineUpProhibited(ops[i], ops[i + 1]) =>
             s[i + 1].time >= s[i].time + 12
  <2>1. s \in Seq(SlotsOf(Callsigns)) /\ ops \in Seq(OpsOf(Callsigns))
    BY <1>2 DEF DayOps, DaySlots
  <2>2. QED
    BY <1>2, <1>3, <2>1, LaidOutKeepApart
<1>6. \A i, j \in 1 .. n :
        i < j => s[j].time >= s[i].time +
                   IF s[i].op.departs THEN TimeToRoll(s[i].op, 3000) ELSE Fleet[s[i].op.type].occupancy
  BY <1>4, <1>5 DEF Keeps
<1>7. \A i \in 1 .. n - 1 :
        s[i].op.departs /\ s[i + 1].op.departs /\ LineUpProhibited(s[i].op, s[i + 1].op) =>
          s[i + 1].time >= s[i].time + 12
  <2>1. \A i \in 1 .. n - 1 : i \in 1 .. n /\ i + 1 \in 1 .. n
    OBVIOUS
  <2>2. QED
    BY <1>4, <1>5, <2>1
<1>8. Clears(s)
  BY <1>3, <1>6, <1>7 DEF Clears
<1>9. QED
  BY <1>1, <1>2, <1>3, <1>4, <1>8

DayTypes ==
  /\ stage \in {"launch", "station", "recovery", "landing", "over"}
  /\ traffic \in Seq(DayOps) /\ \A i \in DOMAIN traffic : traffic[i].id # Fgt
  /\ withSortie \in Seq(DaySlots) /\ final \in Seq(DaySlots)
  /\ sortie \in Sorties
  /\ stage # "launch" => sortie.takeoff >= 0
  /\ stage \in {"recovery", "landing", "over"} => sortie.declared >= 0

(* The fighter has the first slot, everybody who was still to come another. *)
FighterLeads == final[1].op = FighterOp(FALSE, Eta) /\ final[1].time = Eta

LandedFirst ==
  /\ Ids(final) = {Fgt} \cup {Remaining[i].id : i \in DOMAIN Remaining}
  /\ Len(final) = 1 + Len(Remaining)
  /\ sortie.landed = Eta
  /\ FighterLeads

RunwayInv == DayTypes /\ Clears(withSortie) /\ Clears(final) /\ (Over => LandedFirst)

LEMMA RunwayInvInitially == DayInit => RunwayInv
<1> SUFFICES ASSUME DayInit PROVE RunwayInv
  OBVIOUS
<1>1. PICK civil \in Timetables : traffic = ToRunwayOps(civil) \o PatrolOps
  BY DEF DayInit
<1>2. PICK a \in Seq(DayOps), b \in Seq(DayOps) : a = ToRunwayOps(civil) /\ b = PatrolOps
  BY PatrolsFly, TimetableFlies
<1>3. /\ \A i \in 1 .. Len(a) : a[i].id # Fgt
      /\ \A i \in 1 .. Len(b) : b[i].id # Fgt
  BY <1>2, PatrolsFly, TimetableFlies
<1>4. PICK c \in Seq(DayOps) : c = a \o b /\ Len(c) = Len(a) + Len(b)
        /\ \A i \in 1 .. Len(c) : c[i] = IF i <= Len(a) THEN a[i] ELSE b[i - Len(a)]
  <2>1. a \o b \in Seq(DayOps)
    OBVIOUS
  <2>2. Len(a \o b) = Len(a) + Len(b)
    OBVIOUS
  <2>3. \A i \in 1 .. Len(a \o b) : (a \o b)[i] = IF i <= Len(a) THEN a[i] ELSE b[i - Len(a)]
    OBVIOUS
  <2>4. QED
    BY <2>1, <2>2, <2>3
<1>5. \A i \in 1 .. Len(c) : c[i].id # Fgt
  <2> TAKE i \in 1 .. Len(c)
  <2>1. CASE i <= Len(a)
    BY <1>3, <1>4, <2>1
  <2>2. CASE ~ (i <= Len(a))
    <3>1. i - Len(a) \in 1 .. Len(b)
      BY <1>4, <2>2
    <3>2. QED
      BY <1>3, <1>4, <2>2, <3>1
  <2>3. QED
    BY <2>1, <2>2
<1>6. traffic = c
  BY <1>1, <1>2, <1>4
<1>7. traffic \in Seq(DayOps) /\ \A i \in DOMAIN traffic : traffic[i].id # Fgt
  BY <1>5, <1>6
<1>8. DayTypes
  <2>1. sortie \in Sorties
    <3>1. Never \in Int
      BY DEF Never
    <3>2. PICK v \in Int : v = Never
      BY <3>1
    <3>3. sortie = [phase |-> "GROUND", takeoff |-> v, onStation |-> v, offStation |-> v,
                    declared |-> v, landed |-> v, emergency |-> FALSE]
      BY <3>2 DEF DayInit
    <3>4. QED
      BY <3>3 DEF Sorties
  <2>2. withSortie \in Seq(DaySlots) /\ final \in Seq(DaySlots) /\ stage = "launch"
    BY DEF DayInit
  <2>3. QED
    BY <1>7, <2>1, <2>2 DEF DayTypes
<1>9. Clears(<<>>)
  <2>1. DOMAIN <<>> = 1 .. 0 /\ Len(<<>>) = 0
    OBVIOUS
  <2>2. (\A i \in 1 .. 0 : FALSE) /\ (\A i \in 1 .. 0 - 1 : FALSE)
    OBVIOUS
  <2>3. QED
    BY <2>1, <2>2 DEF Clears
<1>10. QED
  BY <1>8, <1>9 DEF RunwayInv, DayInit, Over

LEMMA FighterFlies ==
  ASSUME NEW d \in BOOLEAN, NEW t \in Nat
  PROVE  FighterOp(d, t) \in DayOps /\ FighterOp(d, t).id = Fgt /\ FighterOp(d, t).earliest = t
<1>1. FighterOp(d, t) \in DayOps
  <2>1. Fgt \in Callsigns
    BY DEF Callsigns
  <2>2. Fighter \in DOMAIN Fleet
    BY DayAssumption
  <2>3. PICK u \in BOOLEAN : u = ~ d
    OBVIOUS
  <2>4. [id |-> Fgt, type |-> Fighter, departs |-> d, earliest |-> t, emergency |-> u] \in DayOps
    BY <2>1, <2>2 DEF DayOps, OpsOf
  <2>5. QED
    BY <2>3, <2>4 DEF FighterOp
<1>2. QED
  BY <1>1 DEF FighterOp

LEMMA LaunchClears ==
  ASSUME RunwayInv, Launch
  PROVE  RunwayInv'
<1>1. PICK e \in DayOps : e = FighterOp(TRUE, WindowFrom + TakeoffOffset) /\ e.id = Fgt
  <2>1. WindowFrom + TakeoffOffset \in Nat
    BY DayAssumption
  <2>2. QED
    BY <2>1, FighterFlies
<1>2. PICK ops \in Seq(DayOps) : ops = Append(traffic, e) /\ ops[Len(ops)] = e /\ Len(ops) >= 1
  <2>1. traffic \in Seq(DayOps)
    BY DEF RunwayInv, DayTypes
  <2>2. /\ Append(traffic, e) \in Seq(DayOps) /\ Len(Append(traffic, e)) = Len(traffic) + 1
        /\ Append(traffic, e)[Len(traffic) + 1] = e
    BY <2>1
  <2>3. PICK n \in Nat : n = Len(traffic)
    BY <2>1
  <2>4. PICK ops \in Seq(DayOps) : ops = Append(traffic, e)
    BY <2>2
  <2>5. Len(ops) = n + 1 /\ ops[n + 1] = e
    BY <2>2, <2>3, <2>4
  <2>6. QED
    BY <2>3, <2>4, <2>5
<1>3. PICK sorted : sorted = SortedByEarliest(ops)
  OBVIOUS
<1>4. sorted \in Seq(DayOps) /\ TakenFrom(sorted, ops, 1 .. Len(ops)) /\ Len(sorted) = Len(ops)
  <2>1. \A i \in 1 .. Len(ops) : ops[i] \in DayOps
    OBVIOUS
  <2>2. \A i \in 1 .. Len(ops) : ops[i].earliest \in Nat
    BY <2>1 DEF DayOps, OpsOf
  <2>3. QED
    BY <1>3, <2>2, SortedIsPermutation
<1>5. PICK day : day = LayOut(sorted, WindowFrom)
  OBVIOUS
<1>6. /\ withSortie' = day /\ sortie' = [sortie EXCEPT !.takeoff = TimeOf(day, Fgt)]
      /\ stage' = "station"
      /\ UNCHANGED <<traffic, final, holds, refused, routeVars>>
  BY <1>1, <1>2, <1>3, <1>5 DEF Launch, FirstComeFirstServed
<1>7. /\ day \in Seq(DaySlots) /\ Clears(day) /\ Len(day) = Len(sorted)
      /\ \A i \in 1 .. Len(sorted) : day[i].op = sorted[i]
  BY <1>4, <1>5, DayAssumption, LaidOutClears
<1>8. TimeOf(day, Fgt) \in Nat
  <2>1. PICK i \in DOMAIN sorted : sorted[i] = e
    <3>1. PICK n \in Nat : n = Len(ops) /\ n \in 1 .. n /\ ops[n] = e
      BY <1>2
    <3>2. TakenFrom(sorted, ops, 1 .. n)
      BY <1>4, <3>1
    <3>3. \A k \in 1 .. n : \E i \in DOMAIN sorted : sorted[i] = ops[k]
      BY <3>2, TakenMembers
    <3>4. QED
      BY <3>1, <3>3
  <2>2. PICK n \in Nat : n = Len(sorted) /\ DOMAIN day = 1 .. n /\ DOMAIN sorted = 1 .. n
    BY <1>4, <1>7
  <2>3. day[i].op.id = Fgt
    BY <1>1, <1>7, <2>1, <2>2
  <2>4. PICK k \in DOMAIN day : k = SlotOf(day, Fgt)
    BY <2>1, <2>2, <2>3 DEF SlotOf
  <2>5. day[k] \in DaySlots
    BY <1>7
  <2>6. QED
    BY <2>4, <2>5 DEF TimeOf, DaySlots, SlotsOf
<1>9. sortie' \in Sorties /\ sortie'.takeoff >= 0
  <2>1. sortie \in Sorties
    BY DEF RunwayInv, DayTypes
  <2>2. PICK t \in Nat : t = TimeOf(day, Fgt)
    BY <1>8
  <2>3. QED
    BY <1>6, <2>1, <2>2 DEF Sorties
<1>10. DayTypes'
  BY <1>6, <1>7, <1>9 DEF RunwayInv, DayTypes
<1>11. Clears(withSortie') /\ Clears(final')
  BY <1>6, <1>7 DEF RunwayInv
<1>12. ~ Over'
  BY <1>6 DEF Over
<1>13. QED
  BY <1>10, <1>11, <1>12 DEF RunwayInv, Clears

LEMMA EtaIsNatural ==
  ASSUME RouteInv, DayTypes, sortie.declared >= 0
  PROVE  Eta \in Nat /\ sortie.declared \in Nat /\ Eta >= sortie.declared
<1>1. PICK d \in Nat : d = sortie.declared
  BY DEF DayTypes, Sorties
<1>2. PICK l \in Nat : l = RouteLength(route)
  BY RouteLengthIsNatural DEF RouteInv, PlansTypes
<1>3. PICK x \in Nat : x = l * Pace
  BY DayAssumption, ProductsAreNatural
<1>4. Eta = d + IF route = NoRoute THEN 60 ELSE x
  BY <1>1, <1>2, <1>3 DEF Eta
<1>5. QED
  BY <1>1, <1>4

LEMMA RemainingFlies ==
  ASSUME DayTypes
  PROVE  Remaining \in Seq(DayOps) /\ \A i \in 1 .. Len(Remaining) : Remaining[i].id # Fgt
<1>1. PICK n \in Nat : n = Len(withSortie) /\ DOMAIN withSortie = 1 .. n
  BY DEF DayTypes
<1>2. PICK P : P = {i \in DOMAIN withSortie : /\ withSortie[i].op.id # Fgt
                                              /\ withSortie[i].time >= sortie.declared}
  OBVIOUS
<1>3. PICK left : left = AtPlaces(withSortie, P)
  OBVIOUS
<1>4. left \in Seq(DaySlots) /\ TakenFrom(left, withSortie, P)
  BY <1>1, <1>2, <1>3, PartIsTaken DEF DayTypes
<1>5. PICK m \in Nat : m = Len(left) /\ DOMAIN left = 1 .. m
  BY <1>4
<1>6. Remaining = [i \in 1 .. m |-> left[i].op]
  BY <1>2, <1>3, <1>5 DEF Remaining
<1>7. \A i \in 1 .. m : left[i].op \in DayOps /\ left[i].op.id # Fgt
  <2> TAKE i \in 1 .. m
  <2>1. left[i] \in DaySlots
    BY <1>4, <1>5
  <2>2. PICK k \in P : left[i] = withSortie[k]
    BY <1>4, <1>5, TakenMembers
  <2>3. QED
    BY <1>2, <2>1, <2>2 DEF DaySlots, SlotsOf, DayOps
<1>8. PICK r : r = Remaining
  OBVIOUS
<1>9. r \in [1 .. m -> DayOps]
  BY <1>6, <1>7, <1>8
<1>10. r \in Seq(DayOps) /\ Len(r) = m
  BY <1>9, FunctionIsSequence
<1>11. \A i \in 1 .. m : r[i].id # Fgt
  BY <1>6, <1>7, <1>8
<1>12. QED
  BY <1>8, <1>10, <1>11

LEMMA EmergencyLands ==
  ASSUME RouteInv, RunwayInv, LandEmergency
  PROVE  RunwayInv'
<1>1. DayTypes /\ stage = "landing" /\ sortie.declared >= 0
  BY DEF LandEmergency, RunwayInv, DayTypes
<1>2. PICK eta \in Nat, now \in Nat : eta = Eta /\ now = sortie.declared /\ eta >= now
  BY <1>1, EtaIsNatural
<1>3. PICK rest \in Seq(DayOps) : rest = Remaining
  BY <1>1, RemainingFlies
<1>4. PICK n \in Nat : n = Len(rest) /\ DOMAIN rest = 1 .. n
  OBVIOUS
<1>5. \A i \in 1 .. n : rest[i].id # Fgt
  BY <1>1, <1>3, <1>4, RemainingFlies
<1>6. PICK e \in DayOps : e = FighterOp(FALSE, eta) /\ e.id = Fgt /\ e.earliest = eta
  BY FighterFlies
<1>7. PICK plan : plan = InsertEmergency(Append(rest, e), Fgt, now)
  OBVIOUS
<1>8. /\ final' = plan
      /\ sortie' = [sortie EXCEPT !.landed = TimeOf(plan, Fgt), !.phase = "LANDED"]
      /\ stage' = "over"
      /\ UNCHANGED <<traffic, withSortie, holds, refused, routeVars>>
  BY <1>2, <1>3, <1>6, <1>7 DEF LandEmergency
<1>9. PICK s \in Seq(DayOps), sorted \in Seq(DayOps) :
        /\ plan = LayOut(s, now) /\ TimeOf(plan, Fgt) = eta
        /\ TakenFrom(sorted, rest, 1 .. n) /\ Len(sorted) = n
        /\ Len(s) = n + 1 /\ s[1] = e
        /\ \A i \in 1 .. n : s[i + 1] = sorted[i]
  <2>1. rest \in Seq(OpsOf(Callsigns)) /\ e \in OpsOf(Callsigns)
    BY DEF DayOps
  <2>2. e.earliest >= now /\ \A i \in 1 .. Len(rest) : rest[i].id # e.id
    BY <1>2, <1>4, <1>5, <1>6
  <2>3. \E s, sorted \in Seq(OpsOf(Callsigns)) : PutInFront(s, sorted, rest, e, now)
    BY <2>1, <2>2, EmergencyLeads
  <2>4. PICK s \in Seq(DayOps), sorted \in Seq(DayOps) : PutInFront(s, sorted, rest, e, now)
    BY <2>3 DEF DayOps
  <2>5. plan = LayOut(s, now) /\ TimeOf(plan, Fgt) = eta
    BY <1>6, <1>7, <2>4 DEF PutInFront
  <2>6. QED
    BY <1>4, <2>4, <2>5 DEF PutInFront
<1>10. /\ plan \in Seq(DaySlots) /\ Clears(plan) /\ Len(plan) = n + 1
       /\ \A i \in 1 .. n + 1 : plan[i].op = s[i]
  BY <1>9, LaidOutClears
<1>10a. plan[1].op = e /\ plan[1].time = eta
  <2>1. s \in Seq(OpsOf(Callsigns)) /\ 1 \in 1 .. n + 1
    BY DEF DayOps
  <2>2. LaysOut(plan, s, now)
    BY <1>9, <2>1, LayOutRecurs
  <2>3. plan[1].time = Larger(now, e.earliest)
    BY <1>9, <2>2 DEF LaysOut
  <2>4. plan[1].time = eta
    BY <1>2, <1>6, <2>3 DEF Larger
  <2>5. QED
    BY <1>9, <1>10, <2>1, <2>4
<1>11. Ids(plan) = {Fgt} \cup {rest[i].id : i \in DOMAIN rest}
  <2>1. DOMAIN plan = 1 .. n + 1 /\ 1 \in 1 .. n + 1 /\ DOMAIN sorted = 1 .. n
    BY <1>9, <1>10
  <2>2. \A i \in 1 .. n : i + 1 \in 1 .. n + 1
    OBVIOUS
  <2>3. \A i \in 1 .. n + 1 : i = 1 \/ (i - 1 \in 1 .. n /\ (i - 1) + 1 = i)
    OBVIOUS
  <2>4. plan[1].op.id = Fgt /\ \A i \in 1 .. n : plan[i + 1].op.id = sorted[i].id
    BY <1>6, <1>9, <1>10, <2>1, <2>2
  <2>5. /\ \A i \in 1 .. n : \E k \in 1 .. n : sorted[i] = rest[k]
        /\ \A k \in 1 .. n : \E i \in 1 .. n : sorted[i] = rest[k]
    <3>1. PICK P : P = 1 .. n
      OBVIOUS
    <3>2. TakenFrom(sorted, rest, P)
      BY <1>9, <3>1
    <3>3. /\ \A i \in DOMAIN sorted : \E k \in P : sorted[i] = rest[k]
          /\ \A k \in P : \E i \in DOMAIN sorted : sorted[i] = rest[k]
      BY <3>2, TakenMembers
    <3>4. QED
      BY <2>1, <3>1, <3>3
  <2>6. \A x : x \in Ids(plan) => x \in {Fgt} \cup {rest[i].id : i \in DOMAIN rest}
    <3> SUFFICES ASSUME NEW i \in 1 .. n + 1
                 PROVE  plan[i].op.id \in {Fgt} \cup {rest[k].id : k \in 1 .. n}
      BY <1>4, <2>1 DEF Ids
    <3>1. CASE i = 1
      BY <2>4, <3>1
    <3>2. CASE i # 1
      <4>1. PICK j \in 1 .. n : j + 1 = i
        BY <2>3, <3>2
      <4>2. PICK k \in 1 .. n : sorted[j] = rest[k]
        BY <2>5
      <4>3. plan[i].op.id = rest[k].id
        BY <2>4, <4>1, <4>2
      <4>4. QED
        BY <4>3
    <3>3. QED
      BY <3>1, <3>2
  <2>7. \A k \in 1 .. n : rest[k].id \in Ids(plan)
    <3> TAKE k \in 1 .. n
    <3>1. PICK i \in 1 .. n : sorted[i] = rest[k]
      BY <2>5
    <3>2. QED
      BY <2>1, <2>2, <2>4, <3>1 DEF Ids
  <2>8. Fgt \in Ids(plan)
    BY <2>1, <2>4 DEF Ids
  <2>9. QED
    BY <1>4, <2>6, <2>7, <2>8
<1>12. sortie' \in Sorties /\ sortie'.declared = now /\ sortie'.landed = eta
  <2>1. sortie \in Sorties /\ sortie' = [sortie EXCEPT !.landed = eta, !.phase = "LANDED"]
    BY <1>1, <1>8, <1>9 DEF DayTypes
  <2>2. PICK old, new : old = sortie /\ new = [old EXCEPT !.landed = eta, !.phase = "LANDED"]
    OBVIOUS
  <2>3. old \in Sorties /\ eta \in Int
    BY <2>1, <2>2
  <2>4. new \in Sorties /\ new.landed = eta /\ new.declared = old.declared
    BY <2>2, <2>3 DEF Sorties
  <2>5. QED
    BY <1>2, <2>1, <2>2, <2>4
<1>13. DayTypes'
  <2>1. sortie'.takeoff >= 0
    <3>1. sortie'.takeoff = sortie.takeoff
      BY <1>1, <1>8 DEF DayTypes, Sorties
    <3>2. QED
      BY <1>1, <3>1 DEF DayTypes
  <2>2. QED
    BY <1>1, <1>2, <1>8, <1>10, <1>12, <2>1 DEF DayTypes
<1>14. Remaining' = rest /\ Eta' = eta
  <2>1. withSortie' = withSortie /\ sortie'.declared = sortie.declared /\ route' = route
        /\ UNCHANGED routeVars
    BY <1>2, <1>8, <1>12 DEF routeVars
  <2>2. Remaining' = Remaining
    BY <2>1 DEF Remaining
  <2>3. Eta' = Eta
    BY <2>1 DEF Eta, RouteLength
  <2>4. QED
    BY <1>2, <1>3, <2>2, <2>3
<1>15. LandedFirst'
  <2>1. PICK later : later = Remaining'
    OBVIOUS
  <2>2. later = rest
    BY <1>14, <2>1
  <2>3. Ids(final') = {Fgt} \cup {later[i].id : i \in DOMAIN later}
    BY <1>8, <1>11, <2>2
  <2>4. Len(final') = 1 + Len(later)
    BY <1>4, <1>8, <1>10, <2>2
  <2>5. sortie'.landed = Eta'
    BY <1>12, <1>14
  <2>6. FighterLeads'
    BY <1>6, <1>8, <1>10a, <1>14 DEF FighterLeads, FighterOp
  <2>7. QED
    BY <2>1, <2>3, <2>4, <2>5, <2>6 DEF LandedFirst, Ids
<1>16. Clears(withSortie)' /\ Clears(final)'
  BY <1>8, <1>10 DEF RunwayInv, Clears
<1>17. QED
  BY <1>13, <1>15, <1>16 DEF RunwayInv

LEMMA DeclarationClears ==
  ASSUME RunwayInv, DeclareRecovery
  PROVE  RunwayInv'
<1>1. DayTypes /\ stage = "station" /\ stage' = "recovery"
      /\ UNCHANGED <<traffic, withSortie, final, holds, refused, routeVars>>
  BY DEF DeclareRecovery, RunwayInv
<1>2. PICK old \in Sorties : old = sortie
  BY <1>1 DEF DayTypes
<1>3. PICK t \in Nat : t = old.takeoff
  BY <1>1, <1>2 DEF DayTypes, Sorties
<1>4. PICK on \in Nat, off \in Nat : on = t + 42 /\ off = on + OnStation
  BY DayAssumption
<1>5. sortie' = [old EXCEPT !.phase = "ON_STATION", !.onStation = on,
                   !.declared = off, !.offStation = off, !.emergency = TRUE]
  BY <1>2, <1>3, <1>4 DEF DeclareRecovery
<1>6. sortie' \in Sorties /\ sortie'.takeoff = t /\ sortie'.declared = off
  <2>1. PICK new : new = [old EXCEPT !.phase = "ON_STATION", !.onStation = on,
                     !.declared = off, !.offStation = off, !.emergency = TRUE]
    OBVIOUS
  <2>2. on \in Int /\ off \in Int
    OBVIOUS
  <2>3. new \in Sorties
    BY <2>1, <2>2 DEF Sorties
  <2>4. new.takeoff = old.takeoff /\ new.declared = off
    BY <2>1 DEF Sorties
  <2>5. QED
    BY <1>3, <1>5, <2>1, <2>3, <2>4
<1>7. DayTypes'
  BY <1>1, <1>6 DEF DayTypes
<1>8. QED
  BY <1>1, <1>7 DEF RunwayInv, Clears, Over

LEMMA UnmovedClears ==
  ASSUME RunwayInv, UNCHANGED <<traffic, withSortie, final, sortie>>,
         \/ stage \in {"recovery", "landing"} /\ stage' \in {"recovery", "landing"}
         \/ UNCHANGED sortieVars
  PROVE  RunwayInv'
<1>1. DayTypes'
  BY DEF RunwayInv, DayTypes, sortieVars, dayVars
<1>2. (Clears(withSortie) /\ Clears(final))'
  <2>1. Clears(withSortie)'
    BY DEF RunwayInv, Clears
  <2>2. Clears(final)'
    BY DEF RunwayInv, Clears
  <2>3. QED
    BY <2>1, <2>2
<1>3. CASE stage' \in {"recovery", "landing"}
  BY <1>1, <1>2, <1>3 DEF RunwayInv, Over
<1>4. CASE UNCHANGED sortieVars
  <2>1. stage' = stage /\ withSortie' = withSortie /\ sortie' = sortie /\ final' = final
        /\ route' = route
    BY <1>4 DEF sortieVars, dayVars, routeVars
  <2>2. Remaining' = Remaining
    BY <2>1 DEF Remaining
  <2>3. Eta' = Eta
    BY <2>1 DEF Eta, RouteLength
  <2>4. LandedFirst => LandedFirst'
    <3>1. FighterLeads' <=> FighterLeads
      BY <2>1, <2>3 DEF FighterLeads, FighterOp
    <3>2. Ids(final)' = Ids(final) /\ Len(final)' = Len(final)
      BY <2>1 DEF Ids
    <3>3. (sortie.landed = Eta)' <=> sortie.landed = Eta
      BY <2>1, <2>3
    <3>4. {Remaining[i].id : i \in DOMAIN Remaining}' = {Remaining[i].id : i \in DOMAIN Remaining}
          /\ Len(Remaining)' = Len(Remaining)
      BY <2>2
    <3>5. QED
      BY <3>1, <3>2, <3>3, <3>4 DEF LandedFirst
  <2>5. QED
    BY <1>1, <1>2, <2>1, <2>4 DEF RunwayInv, Over
<1>5. QED
  BY <1>3, <1>4

LEMMA RunwayInvInductive ==
  ASSUME RouteInv, RunwayInv, [DayNext]_sortieVars
  PROVE  RunwayInv'
<1>1. CASE Launch
  BY <1>1, LaunchClears
<1>2. CASE DeclareRecovery
  BY <1>2, DeclarationClears
<1>3. CASE PlanRecovery
  <2>1. stage = "recovery" /\ UNCHANGED dayVars
    BY <1>3 DEF PlanRecovery
  <2>2. QED
    BY <2>1, UnmovedClears DEF dayVars
<1>4. CASE PlanHolds
  <2>1. stage = "recovery" /\ stage' = "landing" /\ UNCHANGED <<traffic, withSortie, final, sortie>>
    BY <1>4 DEF PlanHolds
  <2>2. QED
    BY <2>1, UnmovedClears
<1>5. CASE LandEmergency
  BY <1>5, EmergencyLands
<1>6. CASE UNCHANGED sortieVars
  BY <1>6, UnmovedClears DEF sortieVars, dayVars
<1>7. QED
  BY <1>1, <1>2, <1>3, <1>4, <1>5, <1>6 DEF DayNext

LEMMA RunwayInvSuffices == RunwayInv => NobodyLosesTheRunway
BY DEF RunwayInv, NobodyLosesTheRunway, LandedFirst

(* The emergency costs nobody the runway: both plans keep everyone apart,   *)
(* the second has everyone who was still to come exactly once, behind the   *)
(* emergency, which waits for nothing but its way home (SortieScenario.     *)
(* build, first_come_first_served, insert_emergency).                       *)
THEOREM EverybodyKeepsTheRunway == DaySpec => []NobodyLosesTheRunway
<1>1. DayInit => RouteInv /\ RunwayInv
  BY RouteInvInitially, RunwayInvInitially DEF DayInit
<1>2. RouteInv /\ RunwayInv /\ [DayNext]_sortieVars => RouteInv' /\ RunwayInv'
  BY DayMovesTheSearch, RouteInvInductive, RunwayInvInductive
<1>3. RunwayInv => NobodyLosesTheRunway
  BY RunwayInvSuffices
<1>4. QED
  BY <1>1, <1>2, <1>3, PTL DEF DaySpec

-----------------------------------------------------------------------------
(* Who holds.                                                               *)

LEMMA PartOfSlots ==
  ASSUME NEW list \in Seq(DaySlots), NEW places, places \subseteq DOMAIN list
  PROVE  /\ AtPlaces(list, places) \in Seq(DaySlots)
         /\ \A i \in DOMAIN AtPlaces(list, places) :
              \E k \in places : AtPlaces(list, places)[i] = list[k]
<1>1. PICK part : part = AtPlaces(list, places)
  OBVIOUS
<1>2. part \in Seq(DaySlots) /\ TakenFrom(part, list, places)
  <2>1. places \subseteq 1 .. Len(list)
    OBVIOUS
  <2>2. QED
    BY <1>1, <2>1, PartIsTaken
<1>3. QED
  BY <1>1, <1>2 DEF TakenFrom

(* Every arrival that must wait asks for some time.                         *)
LEMMA RequestsAsk ==
  ASSUME RouteInv, DayTypes, sortie.declared >= 0
  PROVE  \E n \in Nat :
           /\ HoldRequests \in [1 .. n -> RequestsOf(Callsigns)]
           /\ \A i \in 1 .. n : HoldRequests[i].need > 0
<1>1. PICK eta \in Nat : eta = Eta
  BY EtaIsNatural
<1>2. PICK A : A = Arrivals(withSortie)
  OBVIOUS
<1>3. A \in Seq(DaySlots)
  <2>1. PICK P : P = {i \in DOMAIN withSortie : ~ withSortie[i].op.departs}
    OBVIOUS
  <2>2. A = AtPlaces(withSortie, P)
    BY <1>2, <2>1 DEF Arrivals
  <2>3. P \subseteq DOMAIN withSortie /\ withSortie \in Seq(DaySlots)
    BY <2>1 DEF DayTypes
  <2>4. QED
    BY <2>2, <2>3, PartOfSlots
<1>4. PICK C : C = Contested
  OBVIOUS
<1>5. C \in Seq(DaySlots)
  <2>1. PICK P : P = {i \in DOMAIN A : A[i].op.id # Fgt /\ A[i].time - Eta < 48 /\ Eta - A[i].time < 48}
    OBVIOUS
  <2>2. C = AtPlaces(A, P)
    BY <1>2, <1>4, <2>1 DEF Contested
  <2>3. P \subseteq DOMAIN A
    BY <2>1
  <2>4. QED
    BY <1>3, <2>2, <2>3, PartOfSlots
<1>6. PICK P : P = {i \in DOMAIN C : Need(C[i]) > 0}
  OBVIOUS
<1>7. PICK N : N = AtPlaces(C, P)
  OBVIOUS
<1>8. N \in Seq(DaySlots) /\ \A i \in DOMAIN N : \E k \in P : N[i] = C[k]
  <2>1. P \subseteq DOMAIN C
    BY <1>6
  <2>2. QED
    BY <1>5, <1>7, <2>1, PartOfSlots
<1>9. PICK n \in Nat : n = Len(N) /\ DOMAIN N = 1 .. n
  BY <1>8
<1>10. PICK q : q = HoldRequests
  OBVIOUS
<1>11. q = [i \in 1 .. n |-> [id |-> N[i].op.id, type |-> N[i].op.type, need |-> Need(N[i])]]
  BY <1>4, <1>6, <1>7, <1>9, <1>10 DEF HoldRequests
<1>12. \A i \in 1 .. n : /\ N[i].op.id \in Callsigns /\ N[i].op.type \in DOMAIN Fleet
                         /\ Need(N[i]) \in Int /\ Need(N[i]) > 0
  <2> TAKE i \in 1 .. n
  <2>1. PICK s \in DaySlots : s = N[i]
    BY <1>8, <1>9
  <2>2. s.op.id \in Callsigns /\ s.op.type \in DOMAIN Fleet /\ s.time \in Nat
    BY DEF DaySlots, SlotsOf, OpsOf
  <2>3. Fleet[Fighter].occupancy \in Nat
    BY DayAssumption, FleetAssumption
  <2>4. Need(s) \in Int
    BY <1>1, <2>2, <2>3 DEF Need, Larger
  <2>5. Need(s) > 0
    BY <1>6, <1>8, <1>9, <2>1
  <2>6. QED
    BY <2>1, <2>2, <2>4, <2>5
<1>13. q \in [1 .. n -> RequestsOf(Callsigns)]
  <2>1. \A i \in 1 .. n :
          [id |-> N[i].op.id, type |-> N[i].op.type, need |-> Need(N[i])] \in RequestsOf(Callsigns)
    BY <1>12 DEF RequestsOf
  <2>2. QED
    BY <1>11, <2>1
<1>14. \A i \in 1 .. n : q[i].need > 0
  BY <1>11, <1>12
<1>15. QED
  BY <1>10, <1>13, <1>14

HoldsInv ==
  IF stage \in {"landing", "over"}
  THEN holds = Stack(HoldRequests).holds /\ refused = Stack(HoldRequests).refused
  ELSE holds = {} /\ refused = {}

LEMMA HoldsInvInitially == DayInit => HoldsInv
  BY DEF HoldsInv, DayInit

LEMMA SameRequests ==
  ASSUME UNCHANGED <<withSortie, routeVars>>, sortie'.declared = sortie.declared
  PROVE  HoldRequests' = HoldRequests
<1>1. route' = route
  BY DEF routeVars
<1>2. Eta' = Eta
  BY <1>1 DEF Eta, RouteLength
<1>3. Contested' = Contested
  BY <1>2 DEF Contested
<1>4. \A s : Need(s)' = Need(s)
  BY <1>2 DEF Need
<1>5. QED
  BY <1>3, <1>4 DEF HoldRequests

LEMMA HoldsInvInductive ==
  ASSUME DayTypes, HoldsInv, [DayNext]_sortieVars
  PROVE  HoldsInv'
<1>1. CASE Launch
  <2>1. stage = "launch" /\ stage' = "station" /\ UNCHANGED <<holds, refused>>
    BY <1>1 DEF Launch
  <2>2. QED
    BY <2>1 DEF HoldsInv
<1>2. CASE DeclareRecovery
  <2>1. stage = "station" /\ stage' = "recovery" /\ UNCHANGED <<holds, refused>>
    BY <1>2 DEF DeclareRecovery
  <2>2. QED
    BY <2>1 DEF HoldsInv
<1>3. CASE PlanRecovery
  <2>1. stage = "recovery" /\ stage' = "recovery" /\ UNCHANGED <<holds, refused>>
    BY <1>3 DEF PlanRecovery, dayVars
  <2>2. QED
    BY <2>1 DEF HoldsInv
<1>4. CASE PlanHolds
  <2>1. /\ stage' = "landing" /\ UNCHANGED <<withSortie, sortie, routeVars>>
        /\ holds' = Stack(HoldRequests).holds /\ refused' = Stack(HoldRequests).refused
    BY <1>4 DEF PlanHolds
  <2>2. HoldRequests' = HoldRequests
    BY <2>1, SameRequests
  <2>3. Stack(HoldRequests)' = Stack(HoldRequests)
    BY <2>2 DEF Stack, Stacked, Assign, Levels
  <2>4. QED
    BY <2>1, <2>3 DEF HoldsInv
<1>5. ASSUME LandEmergency \/ UNCHANGED sortieVars
      PROVE  HoldsInv'
  <2>1. /\ UNCHANGED <<withSortie, holds, refused, routeVars>>
        /\ stage' \in {"landing", "over"} <=> stage \in {"landing", "over"}
    BY <1>5 DEF LandEmergency, sortieVars, dayVars
  <2>2. sortie'.declared = sortie.declared
    <3>1. CASE LandEmergency
      <4>1. PICK t : sortie' = [sortie EXCEPT !.landed = t, !.phase = "LANDED"]
        BY <3>1 DEF LandEmergency
      <4>2. QED
        BY <4>1 DEF DayTypes, Sorties
    <3>2. CASE UNCHANGED sortieVars
      BY <3>2 DEF sortieVars, dayVars
    <3>3. QED
      BY <1>5, <3>1, <3>2
  <2>3. HoldRequests' = HoldRequests
    BY <2>1, <2>2, SameRequests
  <2>4. Stack(HoldRequests)' = Stack(HoldRequests)
    BY <2>3 DEF Stack, Stacked, Assign, Levels
  <2>5. QED
    BY <2>1, <2>4 DEF HoldsInv
<1>6. QED
  BY <1>1, <1>2, <1>3, <1>4, <1>5 DEF DayNext

LEMMA HoldsInvSuffices ==
  ASSUME RouteInv, DayTypes, HoldsInv
  PROVE  HoldsAreApart
<1>1. CASE ~ stage \in {"landing", "over"}
  BY <1>1 DEF HoldsInv, HoldsAreApart
<1>2. CASE stage \in {"landing", "over"}
  <2>1. sortie.declared >= 0
    BY <1>2 DEF DayTypes
  <2>2. PICK n \in Nat :
          /\ HoldRequests \in [1 .. n -> RequestsOf(Callsigns)]
          /\ \A i \in 1 .. n : HoldRequests[i].need > 0
    BY <2>1, RequestsAsk
  <2>3. PICK q : q = HoldRequests
    OBVIOUS
  <2>4. /\ q \in [1 .. n -> RequestsOf(Callsigns)] /\ DOMAIN q = 1 .. n
        /\ \A i \in 1 .. n : q[i].need > 0
    BY <2>2, <2>3
  <2>5. PICK s : s = Stack(q)
    OBVIOUS
  <2>6. Accounts(s, {q[i].id : i \in 1 .. n})
    <3>0. q \in [1 .. n -> RequestsOf(Callsigns)]
      BY <2>4
    <3>1. Accounts(Stack(q), {q[i].id : i \in 1 .. n})
      BY <3>0, StackAccounts
    <3>2. QED
      BY <2>5, <3>1
  <2>7. Granted(s, q, n)
    <3>1. Granted(Stack(q), q, n)
      BY <2>4, StackGrants
    <3>2. QED
      BY <2>5, <3>1
  <2>8. holds = s.holds /\ refused = s.refused
    BY <1>2, <2>3, <2>5 DEF HoldsInv
  <2>9. PICK a : Answers(a, s, q, n)
    BY <2>7 DEF Granted
  <2>10. \A h, k \in holds : h.pattern = k.pattern /\ h.level = k.level => h = k
    BY <2>6, <2>8 DEF Accounts
  <2>11. refused # {} => Cardinality(holds) = Capacity
    <3>1. refused # {} => Full(holds)
      BY <2>7, <2>8 DEF Granted
    <3>2. \A h \in holds : h.pattern \in DOMAIN Patterns /\ h.level \in Levels(h.pattern)
      BY <2>8, <2>9 DEF Answers, Grants
    <3>3. QED
      BY <2>10, <3>1, <3>2, FullIsCapacity
  <2>12. a \in [holds -> DOMAIN q] /\ \A h, k \in holds : a[h] = a[k] => h = k
    BY <2>4, <2>8, <2>9 DEF Answers
  <2>13. \A h \in holds : h.id = q[a[h]].id /\ h.delay >= q[a[h]].need
    BY <2>8, <2>9 DEF Answers, Grants
  <2>14. refused = {q[i].id : i \in {j \in DOMAIN q : \A h \in holds : a[h] # j}}
    <3>1. \A x : x \in refused <=>
                   \E i \in DOMAIN q : x = q[i].id /\ \A h \in holds : a[h] # i
      BY <2>4, <2>8, <2>9 DEF Answers
    <3>2. QED
      BY <3>1
  <2>15. QED
    BY <2>3, <2>10, <2>11, <2>12, <2>13, <2>14 DEF HoldsAreApart
<1>3. QED
  BY <1>1, <1>2

(* Arrivals kept waiting are apart: one aircraft per published level, each  *)
(* hold answers one request and is long enough to let the emergency         *)
(* through, and every other request is refused, which takes every level     *)
(* being taken; two arrivals under one callsign included (HoldingBook.      *)
(* assign, stack, SortieScenario._plan_holds).                              *)
THEOREM ArrivalsHoldApart == DaySpec => []HoldsAreApart
<1>1. DayInit => RouteInv /\ RunwayInv /\ HoldsInv
  BY RouteInvInitially, RunwayInvInitially, HoldsInvInitially DEF DayInit
<1>2. RouteInv /\ RunwayInv /\ HoldsInv /\ [DayNext]_sortieVars
        => (RouteInv /\ RunwayInv /\ HoldsInv)'
  BY DayMovesTheSearch, RouteInvInductive, RunwayInvInductive, HoldsInvInductive DEF RunwayInv
<1>3. RouteInv /\ RunwayInv /\ HoldsInv => HoldsAreApart
  BY HoldsInvSuffices DEF RunwayInv
<1>4. QED
  BY <1>1, <1>2, <1>3, PTL DEF DaySpec

-----------------------------------------------------------------------------
(* The day as it is played back.                                            *)

(* Nobody takes off before the window, or declares before the take-off.     *)
TimesInv ==
  /\ stage # "launch" => sortie.takeoff >= WindowFrom
  /\ stage \in {"recovery", "landing", "over"} => sortie.declared >= WindowFrom

LEMMA LaunchInTime ==
  ASSUME DayTypes, Launch
  PROVE  sortie'.takeoff >= WindowFrom
<1>1. PICK e \in DayOps : /\ e = FighterOp(TRUE, WindowFrom + TakeoffOffset)
                          /\ e.id = Fgt /\ e.earliest = WindowFrom + TakeoffOffset
  <2>1. WindowFrom + TakeoffOffset \in Nat
    BY DayAssumption
  <2>2. QED
    BY <2>1, FighterFlies
<1>2. PICK ops : ops = Append(traffic, e)
  OBVIOUS
<1>3. PICK n \in Nat : n = Len(traffic) /\ DOMAIN traffic = 1 .. n
  BY DEF DayTypes
<1>4. /\ ops \in Seq(DayOps) /\ Len(ops) = n + 1 /\ ops[n + 1] = e
      /\ \A i \in 1 .. n : ops[i].id # Fgt
  <2>1. traffic \in Seq(DayOps) /\ \A i \in 1 .. n : traffic[i].id # Fgt
    BY <1>3 DEF DayTypes
  <2>2. /\ Append(traffic, e) \in Seq(DayOps) /\ Len(Append(traffic, e)) = n + 1
        /\ Append(traffic, e)[n + 1] = e /\ \A i \in 1 .. n : Append(traffic, e)[i] = traffic[i]
    BY <1>3, <2>1
  <2>3. QED
    BY <1>2, <2>1, <2>2
<1>5. PICK sorted : sorted = SortedByEarliest(ops)
  OBVIOUS
<1>6. PICK P : P = 1 .. n + 1
  OBVIOUS
<1>7. sorted \in Seq(DayOps) /\ TakenFrom(sorted, ops, P)
  <2>1. \A i \in 1 .. Len(ops) : ops[i] \in DayOps
    BY <1>4
  <2>2. \A i \in 1 .. Len(ops) : ops[i].earliest \in Nat
    BY <2>1 DEF DayOps, OpsOf
  <2>3. QED
    BY <1>4, <1>5, <1>6, <2>2, SortedIsPermutation
<1>8. /\ \A i \in DOMAIN sorted : sorted[i].id = Fgt => sorted[i] = e
      /\ \E i \in DOMAIN sorted : sorted[i] = e
  <2>1. /\ \A i \in DOMAIN sorted : \E k \in P : sorted[i] = ops[k]
        /\ \A k \in P : \E i \in DOMAIN sorted : sorted[i] = ops[k]
    BY <1>7, TakenMembers
  <2>2. n + 1 \in P /\ \A k \in P : k \in 1 .. n \/ k = n + 1
    BY <1>6
  <2>3. QED
    BY <1>4, <2>1, <2>2
<1>9. PICK day : day = LayOut(sorted, WindowFrom)
  OBVIOUS
<1>10. sortie' = [sortie EXCEPT !.takeoff = TimeOf(day, Fgt)]
  BY <1>1, <1>2, <1>5, <1>9 DEF Launch, FirstComeFirstServed
<1>11. PICK m \in Nat : m = Len(sorted) /\ DOMAIN sorted = 1 .. m
  BY <1>7
<1>12. DOMAIN day = 1 .. m /\ LaysOut(day, sorted, WindowFrom) /\ day \in Seq(DaySlots)
  <2>1. sorted \in Seq(OpsOf(Callsigns)) /\ WindowFrom \in Nat
    BY <1>7, DayAssumption DEF DayOps
  <2>2. /\ day \in Seq(SlotsOf(Callsigns)) /\ Len(day) = Len(sorted)
        /\ LaysOut(day, sorted, WindowFrom)
    BY <1>9, <2>1, LayOutRecurs
  <2>3. QED
    BY <1>11, <2>2 DEF DaySlots
<1>13. PICK k \in 1 .. m : k = SlotOf(day, Fgt) /\ day[k].op.id = Fgt
  <2>1. PICK i \in 1 .. m : sorted[i] = e
    BY <1>8, <1>11
  <2>2. day[i].op.id = Fgt
    BY <1>1, <1>11, <1>12, <2>1 DEF LaysOut
  <2>3. QED
    BY <1>12, <2>2 DEF SlotOf
<1>14. sorted[k] = e
  <2>1. day[k].op = sorted[k]
    BY <1>11, <1>12 DEF LaysOut
  <2>2. QED
    BY <1>8, <1>11, <1>13, <2>1
<1>15. PICK w \in Nat, p \in Nat : w = WindowFrom /\ p = w + TakeoffOffset /\ p >= w
  BY DayAssumption
<1>15a. \A i \in 1 .. m : day[i].time \in Nat
  <2>1. \A i \in 1 .. m : day[i] \in DaySlots
    BY <1>12
  <2>2. QED
    BY <2>1 DEF DaySlots, SlotsOf
<1>16. PICK t \in Nat : t = day[k].time
  BY <1>15a
<1>17. t >= p
  <2>1. CASE k = 1
    <3>1. t = Larger(w, e.earliest)
      BY <1>11, <1>12, <1>14, <1>15, <1>16, <2>1 DEF LaysOut
    <3>2. QED
      BY <1>1, <1>15, <3>1 DEF Larger
  <2>2. CASE k # 1
    <3>1. k \in 2 .. m /\ k - 1 \in 1 .. m
      BY <2>2
    <3>2. PICK x : x = day[k - 1].time + Requirement(sorted[k - 1], e)
      OBVIOUS
    <3>3. t = Larger(x, e.earliest)
      BY <1>11, <1>12, <1>14, <1>16, <3>1, <3>2 DEF LaysOut
    <3>4. x \in Nat
      <4>1. day[k - 1].time \in Nat
        BY <1>15a, <3>1
      <4>2. sorted[k - 1] \in OpsOf(Callsigns) /\ e \in OpsOf(Callsigns)
        BY <1>7, <1>11, <3>1 DEF DayOps
      <4>3. QED
        BY <3>2, <4>1, <4>2, RequirementBounds
    <3>5. QED
      BY <1>1, <1>15, <3>3, <3>4 DEF Larger
  <2>3. QED
    BY <2>1, <2>2
<1>18. QED
  <2>1. TimeOf(day, Fgt) = t
    BY <1>13, <1>16 DEF TimeOf
  <2>2. sortie'.takeoff = t
    BY <1>10, <2>1 DEF DayTypes, Sorties
  <2>3. QED
    BY <1>15, <1>17, <2>2

LEMMA TimesInvInductive ==
  ASSUME DayTypes, TimesInv, [DayNext]_sortieVars
  PROVE  TimesInv'
<1>1. CASE Launch
  BY <1>1, LaunchInTime DEF TimesInv, Launch
<1>2. CASE DeclareRecovery
  <2>1. PICK old \in Sorties : old = sortie
    BY DEF DayTypes
  <2>2. PICK t \in Nat : t = old.takeoff /\ t >= WindowFrom
    BY <1>2, <2>1 DEF DeclareRecovery, DayTypes, TimesInv, Sorties
  <2>3. PICK on \in Nat, off \in Nat : on = t + 42 /\ off = on + OnStation
    BY DayAssumption
  <2>4. sortie' = [old EXCEPT !.phase = "ON_STATION", !.onStation = on,
                     !.declared = off, !.offStation = off, !.emergency = TRUE]
    BY <1>2, <2>1, <2>2, <2>3 DEF DeclareRecovery
  <2>5. sortie'.takeoff = t /\ sortie'.declared = off
    BY <2>2, <2>4 DEF Sorties
  <2>6. t >= WindowFrom /\ off >= WindowFrom
    <3>1. PICK w \in Nat, x \in Nat : w = WindowFrom /\ x = OnStation
      BY DayAssumption
    <3>2. t >= w /\ off = (t + 42) + x
      BY <2>2, <2>3, <3>1
    <3>3. QED
      BY <3>1, <3>2
  <2>7. QED
    BY <2>5, <2>6 DEF TimesInv
<1>3. CASE PlanRecovery \/ PlanHolds
  <2>1. sortie' = sortie /\ stage = "recovery"
    BY <1>3 DEF PlanRecovery, PlanHolds, dayVars
  <2>2. QED
    BY <2>1 DEF TimesInv
<1>4. CASE LandEmergency
  <2>1. PICK t : sortie' = [sortie EXCEPT !.landed = t, !.phase = "LANDED"]
    BY <1>4 DEF LandEmergency
  <2>2. sortie'.takeoff = sortie.takeoff /\ sortie'.declared = sortie.declared
    BY <2>1 DEF DayTypes, Sorties
  <2>3. QED
    BY <1>4, <2>2 DEF TimesInv, LandEmergency
<1>5. CASE UNCHANGED sortieVars
  BY <1>5 DEF TimesInv, sortieVars, dayVars
<1>6. QED
  BY <1>1, <1>2, <1>3, <1>4, <1>5 DEF DayNext

(* It takes the fighter half a minute at least to come home. *)
LEMMA WayHomeTakesTime ==
  ASSUME RouteInv, DayTypes, sortie.declared >= 0
  PROVE  Eta \in Nat /\ sortie.declared \in Nat /\ Eta >= sortie.declared + 3
<1>1. Eta \in Nat /\ sortie.declared \in Nat
  BY EtaIsNatural
<1>2. CASE route = NoRoute
  BY <1>1, <1>2 DEF Eta
<1>3. CASE route # NoRoute
  <2>1. PICK r \in Seq(Fixes) : r = route
    BY DEF RouteInv, PlansTypes
  <2>2. PICK n \in Nat : n = Len(r) /\ n >= 1
    BY <1>3, <2>1 DEF NoRoute
  <2>3. PICK f \in [0 .. n -> Nat] : /\ f[0] = 0 /\ RouteLength(r) = f[n]
                                     /\ \A i \in 1 .. n : f[i] = f[i - 1] + LegTo(r, i)
    BY <2>2, RouteLengthSums
  <2>4. PICK a \in Nat : a = Miles(Start, r[1]) /\ a * Pace >= 3
    <3>1. r[1] \in Fixes /\ Start \in Places /\ r[1] \in Places
      BY <2>2 DEF Places
    <3>2. QED
      BY <3>1, MilesAreDistances, PlaybackAssumption
  <2>5. f[1] = a
    <3>1. 1 \in 1 .. n /\ 1 - 1 = 0
      BY <2>2
    <3>2. f[1] = 0 + LegTo(r, 1)
      BY <2>3, <3>1
    <3>3. QED
      BY <2>4, <3>2 DEF LegTo
  <2>6. \A i \in 1 .. n : LegTo(r, i) \in Nat /\ f[i] >= f[i - 1]
    <3> TAKE i \in 1 .. n
    <3>1. r[i] \in Places /\ (i # 1 => r[i - 1] \in Places) /\ Start \in Places
      BY <2>2 DEF Places
    <3>2. (IF i = 1 THEN Start ELSE r[i - 1]) \in Places
      BY <3>1
    <3>3. LegTo(r, i) \in Nat
      BY <3>1, <3>2, MilesAreDistances DEF LegTo
    <3>4. i - 1 \in 0 .. n /\ f[i - 1] \in Nat
      OBVIOUS
    <3>5. QED
      BY <2>3, <3>3, <3>4
  <2> DEFINE S == {k \in Nat : k + 1 <= n => f[k + 1] >= a}
  <2>7. 0 \in S
    BY <2>5
  <2>8. ASSUME NEW k \in Nat, k \in S PROVE k + 1 \in S
    <3> SUFFICES ASSUME (k + 1) + 1 <= n PROVE f[(k + 1) + 1] >= a
      OBVIOUS
    <3>1. (k + 1) + 1 \in 1 .. n /\ ((k + 1) + 1) - 1 = k + 1 /\ k + 1 \in 0 .. n
      OBVIOUS
    <3>2. f[(k + 1) + 1] >= f[k + 1] /\ f[k + 1] >= a
      BY <2>6, <2>8, <3>1
    <3>3. f[(k + 1) + 1] \in Nat /\ f[k + 1] \in Nat
      BY <3>1
    <3>4. QED
      BY <3>2, <3>3
  <2>9. Nat \subseteq S
    <3> HIDE DEF S
    <3>1. QED
      BY <2>7, <2>8, SetInduction
  <2>10. PICK l \in Nat : l = RouteLength(route) /\ l >= a
    <3>1. n - 1 \in Nat /\ (n - 1) + 1 = n /\ n \in 0 .. n
      BY <2>2
    <3>2. f[n] >= a
      BY <2>9, <3>1
    <3>3. QED
      BY <2>1, <2>3, <3>1, <3>2
  <2>11. PICK k \in Nat : l = a + k
    BY <2>10
  <2>12. PICK p \in Nat : p = Pace
    BY DayAssumption
  <2>13. \A u, v, w \in Nat : (u + v) * w = u * w + v * w /\ u * w \in Nat /\ v * w \in Nat
    OBVIOUS
  <2>14. PICK x \in Nat, y \in Nat : x = a * p /\ y = k * p /\ l * p = x + y
    BY <2>11, <2>13
  <2>15. Eta = sortie.declared + (x + y)
    BY <1>3, <2>10, <2>12, <2>14 DEF Eta
  <2>16. x >= 3
    BY <2>4, <2>12, <2>14
  <2>17. QED
    BY <1>1, <2>15, <2>16
<1>4. QED
  BY <1>2, <1>3

(* The order of the day: w the start of the window, d the declaration, e    *)
(* the landing, z the last use of the runway.                               *)
InOrder(w, d, e, z) == d >= w /\ e >= d + 3 /\ z >= e + 6

LEMMA DayIsInOrder ==
  ASSUME RouteInv, RunwayInv, TimesInv, Over, Len(Remaining) >= 2
  PROVE  \E w, d, e, z \in Nat : /\ WindowFrom = w /\ sortie.declared = d /\ sortie.landed = e
                                 /\ LastSlot(final) = z /\ InOrder(w, d, e, z)
<1>1. DayTypes /\ Clears(final) /\ LandedFirst /\ sortie.declared >= 0 /\ stage = "over"
  BY DEF RunwayInv, DayTypes, Over
<1>2. PICK w \in Nat, d \in Nat, e \in Nat :
        /\ w = WindowFrom /\ d = sortie.declared /\ e = sortie.landed /\ e = Eta
        /\ d >= w /\ e >= d + 3
  BY <1>1, WayHomeTakesTime, DayAssumption DEF LandedFirst, TimesInv
<1>3. PICK n \in Nat : n = Len(final) /\ DOMAIN final = 1 .. n /\ n >= 3
  <2>1. Len(final) = 1 + Len(Remaining) /\ Len(Remaining) \in Nat
    BY <1>1, RemainingFlies DEF LandedFirst
  <2>2. final \in Seq(DaySlots)
    BY <1>1 DEF DayTypes
  <2>3. QED
    BY <2>1, <2>2
<1>4. \A i \in 1 .. n : final[i].time \in Nat /\ final[i].op \in DayOps
  <2>1. \A i \in 1 .. n : final[i] \in DaySlots
    BY <1>1, <1>3 DEF DayTypes
  <2>2. QED
    BY <2>1 DEF DaySlots, SlotsOf, DayOps
<1>5. \A i \in 1 .. n : Keeps(final[i].op) \in Nat /\ Keeps(final[i].op) >= 1
  <2> TAKE i \in 1 .. n
  <2>1. PICK op \in DayOps : op = final[i].op
    BY <1>4
  <2>2. op.type \in DOMAIN Fleet /\ op.departs \in BOOLEAN
    BY DEF DayOps, OpsOf
  <2>3. Fleet[op.type].occupancy \in Nat \ {0} /\ Fleet[op.type].roll[3000] \in Nat \ {0}
    BY <2>2, FleetAssumption
  <2>4. Keeps(op) \in Nat \ {0}
    BY <2>3 DEF Keeps, TimeToRoll
  <2>5. QED
    BY <2>1, <2>4
<1>6. \A i, j \in 1 .. n : i < j => final[j].time >= final[i].time + Keeps(final[i].op)
  BY <1>1, <1>3 DEF Clears, Keeps
<1>7. final[1].time = e /\ Keeps(final[1].op) >= 5
  <2>1. FighterLeads
    BY <1>1 DEF LandedFirst
  <2>2. PICK op : op = final[1].op
    OBVIOUS
  <2>3. ~ op.departs /\ op.type = Fighter
    BY <2>1, <2>2 DEF FighterLeads, FighterOp
  <2>4. Keeps(op) = Fleet[Fighter].occupancy
    BY <2>3 DEF Keeps
  <2>5. final[1].time = e
    BY <1>2, <2>1 DEF FighterLeads
  <2>6. QED
    BY <2>2, <2>4, <2>5, PlaybackAssumption
<1>8. final[3].time >= e + 6
  <2>1. 1 \in 1 .. n /\ 2 \in 1 .. n /\ 3 \in 1 .. n
    BY <1>3
  <2>2. PICK x \in Nat, y \in Nat, a \in Nat, b \in Nat :
          x = final[2].time /\ y = final[3].time /\ a = Keeps(final[1].op) /\ b = Keeps(final[2].op)
    BY <1>4, <1>5, <2>1
  <2>3. x >= e + a /\ y >= x + b /\ a >= 5 /\ b >= 1
    BY <1>5, <1>6, <1>7, <2>1, <2>2
  <2>4. y >= e + 6
    BY <2>3
  <2>5. QED
    BY <2>2, <2>4
<1>9. PICK T : T = {final[i].time : i \in DOMAIN final}
  OBVIOUS
<1>10. PICK z : /\ z = (CHOOSE t \in T : \A i \in DOMAIN final : final[i].time <= t)
                /\ z \in T /\ \A i \in DOMAIN final : final[i].time <= z
  <2>1. n \in 1 .. n
    BY <1>3
  <2>2. \A i \in 1 .. n : final[i].time <= final[n].time
    <3> TAKE i \in 1 .. n
    <3>1. CASE i = n
      BY <1>4, <2>1, <3>1
    <3>2. CASE i # n
      <4>1. i < n
        BY <3>2
      <4>2. PICK x \in Nat, y \in Nat, a \in Nat :
              x = final[i].time /\ y = final[n].time /\ a = Keeps(final[i].op)
        BY <1>4, <1>5, <2>1
      <4>3. y >= x + a
        BY <1>6, <2>1, <4>1, <4>2
      <4>4. QED
        BY <4>2, <4>3
    <3>3. QED
      BY <3>1, <3>2
  <2>3. final[n].time \in T
    BY <1>3, <1>9, <2>1
  <2>4. \E t \in T : \A i \in DOMAIN final : final[i].time <= t
    BY <1>3, <2>2, <2>3
  <2>5. QED
    BY <2>4
<1>11. z = LastSlot(final)
  BY <1>9, <1>10 DEF LastSlot
<1>12. z \in Nat /\ z >= e + 6
  <2>1. z \in Nat
    <3>1. PICK i \in 1 .. n : z = final[i].time
      <4>1. z \in T
        BY <1>10
      <4>2. QED
        BY <1>3, <1>9, <4>1
    <3>2. QED
      BY <1>4, <3>1
  <2>2. PICK y \in Nat : y = final[3].time /\ y <= z
    BY <1>3, <1>4, <1>10
  <2>3. QED
    BY <1>8, <2>1, <2>2
<1>13. QED
  BY <1>2, <1>11, <1>12 DEF InOrder

(* When the cues are due, in half units from the origin of the tracks: x, y *)
(* and v are by how much the declaration, the landing and the last use of   *)
(* the runway miss whole units.                                             *)
DueAt(w, d, e, z, x, y, v, i) ==
  CASE i = 1 -> 0
    [] i = 2 -> 2 * (d - w) + LeadIn + x
    [] i = 3 -> 2 * (d - w) + LeadIn + x + 12
    [] i = 4 -> 2 * (d - w) + LeadIn + x + 18
    [] i = 5 -> 2 * (e + 6 - w) + LeadIn + y
    [] OTHER -> 2 * (z - w) + LeadIn + v

Halves(x, y, v) == x \in Nat /\ y \in Nat /\ v \in Nat /\ x <= y /\ y <= v
HalvesOf(part, x, y, v) ==
  Halves(x, y, v) /\ x = part.declared /\ y = x + part.way /\ v = y + part.rest
DayOf(w, d, e, z) ==
  WindowFrom = w /\ sortie.declared = d /\ sortie.landed = e /\ LastSlot(final) = z

CuesFollow(c, duration, w, d, e, z, x, y, v, stays) ==
  /\ DOMAIN c = 1 .. 6 /\ Len(c) = 6
  /\ \A i \in 1 .. 6 : c[i].step = CueSteps[i] /\ c[i].offset = DueAt(w, d, e, z, x, y, v, i)
  /\ duration = (DueAt(w, d, e, z, x, y, v, 6) + stays + 1) \div 2

LEMMA CuesAreDue ==
  ASSUME NEW w \in Nat, NEW d \in Nat, NEW e \in Nat, NEW z \in Nat,
         NEW part \in Parts, NEW stays \in {0, 3}, DayOf(w, d, e, z),
         NEW x, NEW y, NEW v, HalvesOf(part, x, y, v)
  PROVE  CuesFollow(Cues(part), Duration(part, stays), w, d, e, z, x, y, v, stays)
<1>0. /\ WindowFrom = w /\ sortie.declared = d /\ sortie.landed = e /\ LastSlot(final) = z
      /\ x \in Nat /\ y \in Nat /\ v \in Nat
  BY DEF DayOf, HalvesOf, Halves
<1>1. LeadIn \in Nat
  BY PlaybackAssumption
<1>2. DOMAIN CueSteps = 1 .. 6
  BY DEF CueSteps
<1>3. PICK c : c = Cues(part)
  OBVIOUS
<1>4. c = [i \in 1 .. 6 |-> [step |-> CueSteps[i], offset |-> CueOffset(CueSteps[i], part),
                             pauses |-> CueSteps[i] \in OperatorCues]]
  BY <1>2, <1>3 DEF Cues
<1>5. DOMAIN c = 1 .. 6 /\ Len(c) = 6
  <2>1. PICK S : S = {c[i] : i \in 1 .. 6}
    OBVIOUS
  <2>2. c \in [1 .. 6 -> S] /\ 6 \in Nat
    BY <1>4, <2>1
  <2>3. QED
    BY <1>4, <2>2, FunctionIsSequence
<1>6. \A i \in 1 .. 6 : c[i].step = CueSteps[i] /\ c[i].offset = CueOffset(CueSteps[i], part)
  BY <1>4
<1>7. /\ CueOffset(1, part) = 0
      /\ CueOffset(7, part) = 2 * (d - w) + LeadIn + x
      /\ CueOffset(9, part) = 2 * (d - w) + LeadIn + x + 12
      /\ CueOffset(10, part) = 2 * (d - w) + LeadIn + x + 18
      /\ CueOffset(12, part) = 2 * (e + 6 - w) + LeadIn + y
      /\ CueOffset(13, part) = 2 * (z - w) + LeadIn + v
  <2> HIDE DEF LastSlot
  <2>0. PICK way \in Nat, rest \in Nat :
          part.way = way /\ part.rest = rest /\ part.declared = x /\ y = x + way /\ v = y + rest
    BY DEF Parts, HalvesOf
  <2>1. CueOffset(1, part) = 0
    BY DEF CueOffset
  <2>2. CueOffset(7, part) = 2 * (d - w) + LeadIn + x
    BY <1>0, <1>1, <2>0 DEF CueOffset, Shifted, StepTime
  <2>3. CueOffset(9, part) = 2 * (d - w) + LeadIn + x + 12
    BY <1>0, <1>1, <2>0 DEF CueOffset, Shifted, StepTime
  <2>4. CueOffset(10, part) = 2 * (d - w) + LeadIn + x + 18
    BY <1>0, <1>1, <2>0 DEF CueOffset, Shifted, StepTime
  <2>5. CueOffset(12, part) = 2 * (e + 6 - w) + LeadIn + y
    BY <1>0, <1>1, <2>0 DEF CueOffset, Shifted, StepTime
  <2>6. CueOffset(13, part) = 2 * (z - w) + LeadIn + v
    BY <1>0, <1>1, <2>0 DEF CueOffset, Shifted, StepTime
  <2>7. QED
    BY <2>1, <2>2, <2>3, <2>4, <2>5, <2>6
<1>8. \A i \in 1 .. 6 : CueOffset(CueSteps[i], part) = DueAt(w, d, e, z, x, y, v, i)
  <2> TAKE i \in 1 .. 6
  <2>1. i \in {1, 2, 3, 4, 5, 6}
    OBVIOUS
  <2>2. /\ CueSteps[1] = 1 /\ CueSteps[2] = 7 /\ CueSteps[3] = 9
        /\ CueSteps[4] = 10 /\ CueSteps[5] = 12 /\ CueSteps[6] = 13
    BY DEF CueSteps
  <2>3. QED
    BY <1>7, <2>1, <2>2 DEF DueAt
<1>9. Duration(part, stays) = (DueAt(w, d, e, z, x, y, v, 6) + stays + 1) \div 2
  <2>1. Shifted(StepTime(13, part)) = DueAt(w, d, e, z, x, y, v, 6)
    BY <1>7 DEF CueOffset, DueAt
  <2>2. QED
    BY <2>1 DEF Duration
<1>10. QED
  BY <1>3, <1>5, <1>6, <1>8, <1>9 DEF CuesFollow

(* A cue is in the one frame of its offset when that is whole, and in none  *)
(* otherwise.                                                               *)
FramesOf(frames, n) == {f \in DOMAIN frames : n \in frames[f].cues}
FrameAt(t) == IF t % 2 = 0 THEN {t \div 2 + 1} ELSE {}

LEMMA CueInItsFrame ==
  ASSUME NEW c, DOMAIN c = 1 .. 6, \A i \in 1 .. 6 : c[i].step = CueSteps[i],
         NEW duration \in Nat, NEW i \in 1 .. 6, NEW t \in Nat,
         c[i].offset = t, t <= 2 * duration
  PROVE  FramesOf(Frames(c, duration), CueSteps[i]) = FrameAt(t)
<1>1. PICK frames : frames = Frames(c, duration)
  OBVIOUS
<1>2. /\ DOMAIN frames = 1 .. duration + 1
      /\ \A f \in 1 .. duration + 1 :
           frames[f].cues = {c[j].step : j \in {k \in 1 .. 6 : c[k].offset = 2 * (f - 1)}}
  BY <1>1 DEF Frames
<1>3. \A j, k \in 1 .. 6 : CueSteps[j] = CueSteps[k] => j = k
  <2>1. \A j \in 1 .. 6 : j \in {1, 2, 3, 4, 5, 6}
    OBVIOUS
  <2>2. /\ CueSteps[1] = 1 /\ CueSteps[2] = 7 /\ CueSteps[3] = 9
        /\ CueSteps[4] = 10 /\ CueSteps[5] = 12 /\ CueSteps[6] = 13
    BY DEF CueSteps
  <2>3. QED
    BY <2>1, <2>2
<1>4. ASSUME NEW f \in 1 .. duration + 1
      PROVE  CueSteps[i] \in frames[f].cues <=> t = 2 * (f - 1)
  <2>1. CueSteps[i] \in frames[f].cues <=>
          \E j \in 1 .. 6 : c[j].offset = 2 * (f - 1) /\ CueSteps[i] = c[j].step
    <3>1. PICK o : o = 2 * (f - 1)
      OBVIOUS
    <3>2. frames[f].cues = {c[j].step : j \in {k \in 1 .. 6 : c[k].offset = o}}
      BY <1>2, <3>1
    <3>3. CueSteps[i] \in frames[f].cues <=>
            \E j \in 1 .. 6 : c[j].offset = o /\ CueSteps[i] = c[j].step
      BY <3>2
    <3>4. QED
      BY <3>1, <3>3
  <2>2. QED
    BY <1>3, <2>1
<1>5. CASE t % 2 = 0
  <2>1. PICK h \in Nat : t = 2 * h /\ h = t \div 2
    BY <1>5
  <2>2. h + 1 \in 1 .. duration + 1
    BY <2>1
  <2>3. \A f \in 1 .. duration + 1 : t = 2 * (f - 1) <=> f = h + 1
    BY <2>1
  <2>4. FramesOf(frames, CueSteps[i]) = {h + 1}
    BY <1>2, <1>4, <2>2, <2>3 DEF FramesOf
  <2>5. QED
    BY <1>1, <1>5, <2>1, <2>4 DEF FrameAt
<1>6. CASE t % 2 # 0
  <2>1. \A f \in 1 .. duration + 1 : t # 2 * (f - 1)
    BY <1>6
  <2>2. FramesOf(frames, CueSteps[i]) = {}
    BY <1>2, <1>4, <2>1 DEF FramesOf
  <2>3. QED
    BY <1>1, <1>6, <2>2 DEF FrameAt
<1>7. QED
  BY <1>5, <1>6

Shown(c, duration) ==
  /\ ContractAccepted(c, duration)
  /\ FramesAccepted(Frames(c, duration), duration)
  /\ FramesOf(Frames(c, duration), 1) = {1}
  /\ \A i \in DOMAIN c :
       Cardinality(FramesOf(Frames(c, duration), c[i].step)) = IF c[i].offset % 2 = 0 THEN 1 ELSE 0
  /\ \A m, n \in OperatorCues :
       FramesOf(Frames(c, duration), m) = {} <=> FramesOf(Frames(c, duration), n) = {}

LEMMA ShownInOrder ==
  ASSUME NEW w \in Nat, NEW d \in Nat, NEW e \in Nat, NEW z \in Nat,
         NEW x, NEW y, NEW v, Halves(x, y, v),
         NEW stays \in {0, 3}, InOrder(w, d, e, z),
         NEW c, NEW duration, CuesFollow(c, duration, w, d, e, z, x, y, v, stays)
  PROVE  Shown(c, duration)
<1>0. /\ DOMAIN c = 1 .. 6 /\ Len(c) = 6
      /\ \A i \in 1 .. 6 : c[i].step = CueSteps[i]
      /\ \A i \in 1 .. 6 : c[i].offset = DueAt(w, d, e, z, x, y, v, i)
      /\ duration = (DueAt(w, d, e, z, x, y, v, 6) + stays + 1) \div 2
      /\ x \in Nat /\ y \in Nat /\ v \in Nat /\ x <= y /\ y <= v
  BY DEF CuesFollow, Halves
<1>1. PICK t1 \in Nat, t2 \in Nat, t3 \in Nat, t4 \in Nat, t5 \in Nat, t6 \in Nat :
        /\ t1 = 0 /\ t2 = 2 * (d - w) + LeadIn + x /\ t3 = t2 + 12 /\ t4 = t2 + 18
        /\ t5 = 2 * (e + 6 - w) + LeadIn + y /\ t6 = 2 * (z - w) + LeadIn + v
        /\ t4 <= t5 /\ t5 <= t6
  <2>1. LeadIn \in Nat
    BY PlaybackAssumption
  <2>2. d >= w /\ e >= d + 3 /\ z >= e + 6
    BY DEF InOrder
  <2>3. QED
    BY <1>0, <2>1, <2>2
<1>2. /\ c[1].offset = t1 /\ c[2].offset = t2 /\ c[3].offset = t3
      /\ c[4].offset = t4 /\ c[5].offset = t5 /\ c[6].offset = t6
  <2>1. \A i \in {1, 2, 3, 4, 5, 6} : i \in 1 .. 6
    OBVIOUS
  <2>2. LeadIn \in Nat
    BY PlaybackAssumption
  <2>3. QED
    BY <1>0, <1>1, <2>1, <2>2 DEF DueAt
<1>3. duration \in Nat /\ duration >= 1 /\ t6 <= 2 * duration
  <2>1. duration = (t6 + stays + 1) \div 2
    BY <1>0, <1>1 DEF DueAt
  <2>2. t6 >= 18
    BY <1>1
  <2>3. CASE stays = 0
    BY <2>1, <2>2, <2>3
  <2>4. CASE stays = 3
    BY <2>1, <2>2, <2>4
  <2>5. QED
    BY <2>3, <2>4
<1>4. /\ CueSteps[1] = 1 /\ CueSteps[2] = 7 /\ CueSteps[3] = 9
      /\ CueSteps[4] = 10 /\ CueSteps[5] = 12 /\ CueSteps[6] = 13
  BY DEF CueSteps
<1>5. \A i \in 1 .. 6 : i \in {1, 2, 3, 4, 5, 6}
  OBVIOUS
<1>6. ContractAccepted(c, duration)
  <2>1. PICK s : s = [i \in DOMAIN c |-> c[i].step]
    OBVIOUS
  <2>2. DOMAIN s = 1 .. 6 /\ \A i \in 1 .. 6 : s[i] = CueSteps[i]
    BY <1>0, <2>1
  <2>3. \A i, j \in 1 .. 6 : s[i] = s[j] => i = j
    BY <1>4, <1>5, <2>2
  <2>4. IsInjective(s)
    BY <2>2, <2>3 DEF IsInjective
  <2>5. \A i \in 1 .. 6 - 1 : c[i].offset <= c[i + 1].offset
    <3> TAKE i \in 1 .. 6 - 1
    <3>1. i \in {1, 2, 3, 4, 5}
      OBVIOUS
    <3>2. t1 <= t2 /\ t2 <= t3 /\ t3 <= t4 /\ t4 <= t5 /\ t5 <= t6
      BY <1>1
    <3>3. CASE i = 1
      BY <1>2, <3>2, <3>3
    <3>4. CASE i = 2
      BY <1>2, <3>2, <3>4
    <3>5. CASE i = 3
      BY <1>2, <3>2, <3>5
    <3>6. CASE i = 4
      BY <1>2, <3>2, <3>6
    <3>7. CASE i = 5
      BY <1>2, <3>2, <3>7
    <3>8. QED
      BY <3>1, <3>3, <3>4, <3>5, <3>6, <3>7
  <2>6. c[1].offset = 0 /\ c[6].offset <= 2 * duration
    BY <1>1, <1>2, <1>3
  <2>7. QED
    BY <1>0, <1>3, <2>1, <2>4, <2>5, <2>6 DEF ContractAccepted
<1>7. FramesAccepted(Frames(c, duration), duration)
  <2>1. PICK frames : frames = Frames(c, duration)
    OBVIOUS
  <2>2. /\ DOMAIN frames = 1 .. duration + 1
        /\ \A f \in 1 .. duration + 1 : frames[f].offset = f - 1
    BY <2>1 DEF Frames
  <2>3. Len(frames) = duration + 1
    <3>1. PICK S : S = {frames[f] : f \in 1 .. duration + 1}
      OBVIOUS
    <3>2. frames \in [1 .. duration + 1 -> S]
      BY <2>1, <3>1 DEF Frames
    <3>3. QED
      BY <1>3, <3>2, FunctionIsSequence
  <2>4. frames[duration + 1].offset = duration
    BY <1>3, <2>2
  <2>5. QED
    BY <2>1, <2>2, <2>3, <2>4 DEF FramesAccepted
<1>8. \A i \in 1 .. 6 : /\ c[i].offset \in Nat
                        /\ FramesOf(Frames(c, duration), CueSteps[i]) = FrameAt(c[i].offset)
  <2>1. \A i \in 1 .. 6 : c[i].offset \in Nat /\ c[i].offset <= 2 * duration
    BY <1>1, <1>2, <1>3, <1>5
  <2>2. QED
    BY <1>0, <1>3, <2>1, CueInItsFrame
<1>9. FramesOf(Frames(c, duration), 1) = {1}
  <2>1. FramesOf(Frames(c, duration), CueSteps[1]) = FrameAt(0)
    BY <1>1, <1>2, <1>8
  <2>2. FrameAt(0) = {1}
    BY DEF FrameAt
  <2>3. QED
    BY <1>4, <2>1, <2>2
<1>10. \A i \in 1 .. 6 : Cardinality(FramesOf(Frames(c, duration), c[i].step))
                           = IF c[i].offset % 2 = 0 THEN 1 ELSE 0
  <2> TAKE i \in 1 .. 6
  <2>1. PICK t \in Nat : t = c[i].offset
    BY <1>8
  <2>2. FramesOf(Frames(c, duration), c[i].step) = FrameAt(t)
    BY <1>0, <1>8, <2>1
  <2>3. Cardinality(FrameAt(t)) = IF t % 2 = 0 THEN 1 ELSE 0
    <3>1. CASE t % 2 = 0
      BY <3>1, FS_Singleton DEF FrameAt
    <3>2. CASE t % 2 # 0
      BY <3>2, FS_EmptySet DEF FrameAt
    <3>3. QED
      BY <3>1, <3>2
  <2>4. QED
    BY <2>1, <2>2, <2>3
<1>11. \A m, n \in OperatorCues :
         FramesOf(Frames(c, duration), m) = {} <=> FramesOf(Frames(c, duration), n) = {}
  <2>1. /\ FramesOf(Frames(c, duration), 7) = FrameAt(t2)
        /\ FramesOf(Frames(c, duration), 10) = FrameAt(t4)
    BY <1>2, <1>4, <1>8
  <2>2. t2 % 2 = 0 <=> t4 % 2 = 0
    BY <1>1
  <2>3. FrameAt(t2) = {} <=> FrameAt(t4) = {}
    BY <2>2 DEF FrameAt
  <2>4. QED
    BY <2>1, <2>3 DEF OperatorCues
<1>12. QED
  BY <1>0, <1>6, <1>7, <1>9, <1>10, <1>11 DEF Shown

LEMMA DayIsShown ==
  ASSUME RouteInv, RunwayInv, TimesInv
  PROVE  PlaybackShowsTheDay
<1>1. SUFFICES ASSUME Over, Len(Remaining) >= 2, NEW part \in Parts, NEW stays \in {0, 3}
               PROVE  Shown(Cues(part), Duration(part, stays))
  BY DEF PlaybackShowsTheDay, FramesOf, Shown
<1>2. PICK w \in Nat, d \in Nat, e \in Nat, z \in Nat : DayOf(w, d, e, z) /\ InOrder(w, d, e, z)
  BY <1>1, DayIsInOrder DEF DayOf
<1>3. PICK c, duration : c = Cues(part) /\ duration = Duration(part, stays)
  OBVIOUS
<1>4. PICK x, y, v : HalvesOf(part, x, y, v)
  <2>1. PICK x \in Nat, way \in Nat, rest \in Nat :
          x = part.declared /\ way = part.way /\ rest = part.rest
    BY DEF Parts
  <2>2. PICK y, v : y = x + way /\ v = y + rest
    OBVIOUS
  <2>3. HalvesOf(part, x, y, v)
    BY <2>1, <2>2 DEF HalvesOf, Halves
  <2>4. QED
    BY <2>3
<1>5. CuesFollow(c, duration, w, d, e, z, x, y, v, stays)
  BY <1>2, <1>3, <1>4, CuesAreDue
<1>6. Halves(x, y, v)
  BY <1>4 DEF HalvesOf
<1>7. Shown(c, duration)
  BY <1>2, <1>5, <1>6, ShownInOrder
<1>8. QED
  BY <1>3, <1>7

(* Playback shows the day, whatever fractions its times have: the contract  *)
(* is accepted, playback begins with a cue, any other is in exactly the     *)
(* frame of its offset or, between two frames, in none, and the points      *)
(* where the controller has to act are in frames both or neither            *)
(* (playback.py: cues_from_steps, PlaybackContract, generate_playback).     *)
THEOREM TheDayIsShown == DaySpec => []PlaybackShowsTheDay
<1>1. DayInit => RouteInv /\ RunwayInv /\ TimesInv
  BY RouteInvInitially, RunwayInvInitially DEF DayInit, TimesInv
<1>2. RouteInv /\ RunwayInv /\ TimesInv /\ [DayNext]_sortieVars
        => (RouteInv /\ RunwayInv /\ TimesInv)'
  BY DayMovesTheSearch, RouteInvInductive, RunwayInvInductive, TimesInvInductive DEF RunwayInv
<1>3. RouteInv /\ RunwayInv /\ TimesInv => PlaybackShowsTheDay
  BY DayIsShown
<1>4. QED
  BY <1>1, <1>2, <1>3, PTL DEF DaySpec
=============================================================================
