--------------------------- MODULE ArrivalSequence ---------------------------
(***************************************************************************)
(* ArrivalSequencer and optimize_order (regulation/sequencing.py): landing *)
(* times behind one another, an emergency put in by its arrival time, and  *)
(* the search that swaps neighbours within the position shift limit.  One  *)
(* action per turn of the search.  A speed is its inverse, the pace in ten *)
(* seconds per mile, so that every time is a whole number.                 *)
(***************************************************************************)
EXTENDS Integers, Sequences, FiniteSets, Separation

CONSTANTS
  Arriving,      \* callsigns
  Kind,          \* per callsign: wake category, formation, final and cruise pace, occupancy
  Distances,     \* distances from the threshold an arrival may be at
  Join,          \* where arrivals are lined up on the final course
  FreezeAt,      \* an arrival this close is committed to its slot
  RunwayBuffer,  \* added to the occupancy of the runway
  Ladder,        \* assigned altitudes by order
  MaxShift, MaxIterations

ASSUME ArrivalAssumption ==
  /\ Arriving # {} /\ IsFiniteSet(Arriving)
  /\ \A a \in Arriving : /\ Kind[a].wake \in Categories
                         /\ Kind[a].formation \in BOOLEAN
                         /\ Kind[a].pace \in Nat \ {0}
                         /\ Kind[a].cruise \in Nat \ {0}
                         /\ Kind[a].occupancy \in Nat
  /\ Distances \subseteq Nat /\ Join \in Nat /\ FreezeAt \in Nat
  /\ RunwayBuffer \in Nat /\ Ladder \in Seq(Nat) /\ Ladder # <<>>
  /\ MaxShift \in Nat /\ MaxIterations \in Nat

VARIABLES
  distance,    \* where everyone is when the sequence is made
  emergency,   \* who has declared an emergency by then
  order,       \* the order reached by the search
  limit,       \* places an arrival may be away from first come, first served
  turns,       \* turns of the search
  schedule     \* the last schedule made

arrivalVars == <<distance, emergency, order, limit, turns, schedule>>

None == "none"

(* Within the join distance at final pace, before it at the present speed. *)
Earliest(a) ==
  IF distance[a] <= Join THEN distance[a] * Kind[a].pace
  ELSE (distance[a] - Join) * Kind[a].cruise + Join * Kind[a].pace

Trail(l, f) ==
  RequiredInTrail(Kind[l].wake, Kind[f].wake, Kind[l].formation, Kind[f].formation)

\* Mutant: the distance is looked at over the threshold only.
DistanceGapAtThreshold(l, f) == Trail(l, f) * Kind[f].pace

(* The follower keeps its distance at the threshold and where it joins, and *)
(* finds the runway free.                                                   *)
DistanceGap(l, f) ==
  LET required == Trail(l, f)
      atThreshold == required * Kind[f].pace
      atJoin == required * Kind[l].pace + Join * (Kind[f].pace - Kind[l].pace)
  IN  Larger(atThreshold, atJoin)

Gap(l, f) == Larger(DistanceGap(l, f), Kind[l].occupancy + RunwayBuffer)

(* Slot times in the given order; those of `pinned` stay as they are. *)
Slots(sequence, pinned) ==
  LET time[i \in DOMAIN sequence] ==
        LET a == sequence[i]
        IN  CASE a \in DOMAIN pinned -> pinned[a]
              [] a \notin DOMAIN pinned /\ i = 1 -> Earliest(a)
              [] OTHER -> Larger(Earliest(a), time[i - 1] + Gap(sequence[i - 1], a))
  IN  [i \in DOMAIN sequence |->
         [callsign |-> sequence[i], time |-> time[i],
          level |-> AssignedLevel(Ladder, i - 1),
          holding |-> LadderExhausted(Ladder, i - 1)]]

Free == [a \in {} |-> 0]

(* Emergencies first, then by earliest arrival; ties by the order given,    *)
(* which is any order.                                                      *)
Ordered(arrivals, urgent) ==
  LET before(a, b) == \/ PriorityRank(a \in urgent) < PriorityRank(b \in urgent)
                      \/ /\ (a \in urgent) = (b \in urgent)
                         /\ Earliest(a) < Earliest(b)
  IN  {s \in [1 .. Cardinality(arrivals) -> arrivals] :
         \A i, j \in DOMAIN s : i < j => s[i] # s[j] /\ ~ before(s[j], s[i])}

Completion(sequence) ==
  IF sequence = <<>> THEN 0 ELSE Slots(sequence, Free)[Len(sequence)].time

\* Mutant: an arrival on short final loses its slot.
InsertIndexByTime(baseline, e) ==
  Cardinality({i \in DOMAIN baseline : baseline[i].time <= Earliest(e)})

(* Already committed, or landed by the time the emergency can be there. *)
InsertIndex(baseline, e) ==
  LET ahead == {i \in DOMAIN baseline : baseline[i].time <= Earliest(e)}
      frozen == {i \in DOMAIN baseline : distance[baseline[i].callsign] <= FreezeAt}
      last == CHOOSE n \in {0} \cup frozen : \A m \in frozen : m <= n
  IN  Larger(Cardinality(ahead), last)

(* insert_priority: everyone ahead keeps the slot, everyone behind moves. *)
InsertPriority(e, queue) ==
  LET baseline == Slots(queue, Free)
      n == InsertIndex(baseline, e)
      pinned == [a \in {queue[i] : i \in 1 .. n} |->
                   baseline[CHOOSE i \in 1 .. n : queue[i] = a].time]
  IN  Slots(SubSeq(queue, 1, n) \o <<e>> \o SubSeq(queue, n + 1, Len(queue)), pinned)

Swapped(s, i) == [s EXCEPT ![i] = s[i + 1], ![i + 1] = s[i]]
PlaceOf(s, a) == CHOOSE i \in DOMAIN s : s[i] = a

ArrivalInit ==
  /\ distance \in [Arriving -> Distances]
  /\ emergency \in {E \in SUBSET Arriving : Cardinality(E) <= 1}
  /\ order \in Ordered(Arriving, emergency)
  /\ limit = 1 /\ turns = 0
  /\ schedule = [kind |-> "fcfs", before |-> order, slots |-> Slots(order, Free), subject |-> None]

Baseline == schedule.before

WithinShift(s) ==
  \A i \in DOMAIN s : LET d == i - PlaceOf(Baseline, s[i]) IN d <= limit /\ -d <= limit

\* Mutant: an emergency is swapped like everybody else.
ImprovingAnybody ==
  {i \in 1 .. Len(order) - 1 :
     /\ WithinShift(Swapped(order, i))
     /\ Completion(Swapped(order, i)) < Completion(order)}

(* Swaps of neighbours, neither in an emergency, that end earlier. *)
Improving ==
  {i \in 1 .. Len(order) - 1 :
     /\ order[i] \notin emergency /\ order[i + 1] \notin emergency
     /\ WithinShift(Swapped(order, i))
     /\ Completion(Swapped(order, i)) < Completion(order)}

(* The steepest improvement, the first of several. *)
Steepest(i) ==
  \A j \in Improving :
    \/ Completion(Swapped(order, i)) < Completion(Swapped(order, j))
    \/ Completion(Swapped(order, i)) = Completion(Swapped(order, j)) /\ i <= j

InSearch == limit <= MaxShift /\ schedule.kind = "fcfs"

Improve ==
  /\ InSearch /\ turns < MaxIterations
  /\ \E i \in Improving : Steepest(i) /\ order' = Swapped(order, i)
  /\ turns' = turns + 1
  /\ UNCHANGED <<distance, emergency, limit, schedule>>

(* No swap helps, or no turns are left: the limit is widened. *)
Widen ==
  /\ InSearch
  /\ \/ turns >= MaxIterations /\ turns' = turns
     \/ turns < MaxIterations /\ Improving = {} /\ turns' = turns + 1
  /\ limit' = limit + 1
  /\ UNCHANGED <<distance, emergency, order, schedule>>

Finish ==
  /\ limit > MaxShift /\ schedule.kind = "fcfs"
  /\ schedule' = [schedule EXCEPT !.kind = "optimised", !.slots = Slots(order, Free)]
  /\ UNCHANGED <<distance, emergency, order, limit, turns>>

(* The optimised sequence is not used here: insert_priority orders the      *)
(* others again, first come, first served.                                  *)
Insert(e) ==
  /\ schedule.kind = "optimised"
  /\ \E queue \in Ordered(Arriving \ {e}, emergency \ {e}) :
       schedule' = [kind |-> "priority", before |-> queue,
                    slots |-> InsertPriority(e, queue), subject |-> e]
  /\ UNCHANGED <<distance, emergency, order, limit, turns>>

ArrivalNext == Improve \/ Widen \/ Finish \/ \E e \in Arriving : Insert(e)

ArrivalSpec == ArrivalInit /\ [][ArrivalNext]_arrivalVars
-----------------------------------------------------------------------------
(* In trail everywhere on final: wherever the follower is between the join  *)
(* and the threshold, with the leader not yet landed, the distance is kept. *)
(* The leader is y miles out when the follower is x miles out, with         *)
(* y * pace of the leader = x * pace of the follower - gap.                 *)
KeptOnFinal(l, f, gap) ==
  \A x \in 0 .. Join :
    x * Kind[f].pace >= gap =>
      (x - Trail(l, f)) * Kind[l].pace >= x * Kind[f].pace - gap

(* No schedule, the one with the emergency put in included, brings two      *)
(* arrivals closer than the rules allow anywhere on final or on the runway. *)
SlotsAreSeparated ==
  \A i \in 1 .. Len(schedule.slots) - 1 :
    LET a == schedule.slots[i]
        b == schedule.slots[i + 1]
    IN  /\ KeptOnFinal(a.callsign, b.callsign, b.time - a.time)
        /\ b.time - a.time >= Kind[a.callsign].occupancy + RunwayBuffer
        /\ b.time >= Earliest(b.callsign)

(* Whatever swaps were made, nobody is further from first come, first       *)
(* served than the present limit allows (optimize_order, _within_cps).      *)
ShiftIsLimited == schedule.kind # "priority" => WithinShift(order)

(* No sequence of swaps carries an emergency to another place.              *)
EmergencyKeepsItsPlace ==
  schedule.kind # "priority" =>
    \A e \in emergency : PlaceOf(order, e) = PlaceOf(Baseline, e)

(* The search only ever shortens the sequence, stays within the limit of    *)
(* first come, first served, and leaves an emergency its place.             *)
SearchKeepsItsPromises ==
  /\ schedule.kind # "priority" => Completion(order) <= Completion(Baseline)
  /\ ShiftIsLimited
  /\ EmergencyKeepsItsPlace

(* Priority costs only those behind: the committed and whoever lands before *)
(* the emergency can be there keep their slots, nobody gains by it, and the *)
(* emergency waits for no one else.                                         *)
PriorityIsMeasured ==
  schedule.kind = "priority" =>
    LET e == schedule.subject
        old == Slots(Baseline, Free)
        now(a) == schedule.slots[CHOOSE i \in DOMAIN schedule.slots : schedule.slots[i].callsign = a]
        kept == {i \in DOMAIN old : \/ old[i].time <= Earliest(e)
                                    \/ distance[old[i].callsign] <= FreezeAt}
    IN  /\ \A i \in DOMAIN old :
             /\ now(old[i].callsign).time >= old[i].time
             /\ i \in kept => now(old[i].callsign) = old[i]
        /\ kept = {} => now(e).time = Earliest(e)

=============================================================================
