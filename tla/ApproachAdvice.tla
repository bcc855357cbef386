--------------------------- MODULE ApproachAdvice ---------------------------
(***************************************************************************)
(* What the screens show of the approach after every Step: the order of    *)
(* arrivals with an emergency put in (runtime/resequencing_orchestrator)   *)
(* and the rules that apply to it (runtime/regulatory_orchestrator): units *)
(* in control, runway slots, holds.  Two orchestrators read one Step; the  *)
(* fighter of PatrolMission is one of the arrivals when it comes home.     *)
(***************************************************************************)
EXTENDS PatrolMission, RunwayUse

CONSTANTS
  Others,      \* the other aircraft of the picture, in order of their ids
  Patrol,      \* the fighter
  Type,        \* per aircraft: its type in Fleet
  Remaining,   \* distances an arrival may be from the threshold at first
  Away         \* per cell, the fighter's distance from it

NoAircraft == "none"

ASSUME AdviceAssumption ==
  /\ Others \in Seq(DOMAIN Type) /\ Patrol \in DOMAIN Type
  /\ \A i, j \in DOMAIN Others : i # j => Others[i] # Others[j]
  /\ Patrol \notin {Others[i] : i \in DOMAIN Others}
  /\ NoAircraft \notin DOMAIN Type
  /\ Type \in [DOMAIN Type -> DOMAIN Fleet]
  /\ Remaining \subseteq Nat
  /\ \A leg \in Legs : \A i \in 1 .. 2 : Away[leg[i].cell] \in Nat
  /\ Away[Apron.cell] \in Nat

VARIABLES
  flightPhase,  \* per aircraft present
  distance,     \* per aircraft present, to the threshold
  declared,     \* aircraft whose emergency has been declared
  inConflict    \* aircraft of a predicted conflict

adviceVars == <<flightPhase, distance, declared, inConflict, missionVars>>

Approaching == {"FINAL", "APPROACH", "DESCENT"}
Stabilised == {"FINAL", "APPROACH"}
PhaseRank(a) ==
  CASE flightPhase[a] = "FINAL" -> 0 [] flightPhase[a] = "APPROACH" -> 1
    [] flightPhase[a] = "DESCENT" -> 2 [] OTHER -> 3

Present == DOMAIN flightPhase
Ids == Others \o <<Patrol>>
Sorted(S, before(_, _)) ==
  [r \in 1 .. Cardinality(S) |->
     CHOOSE a \in S : Cardinality({b \in S \ {a} : before(b, a)}) = r - 1]
IdOf(a) == CHOOSE i \in DOMAIN Ids : Ids[i] = a
(* The states of a picture come in the order of their ids. *)
ById(S) == Sorted(S, LAMBDA a, b : IdOf(a) < IdOf(b))
Place(order, a) == CHOOSE i \in DOMAIN order : order[i] = a

(* Every Step evaluates the priority of everyone, from the state or from an *)
(* event that is due: the first emergency in the order of the states.       *)
EmergencyAircraft ==
  LET urgent == declared \cap Present
  IN  IF urgent = {} THEN NoAircraft ELSE ById(urgent)[1]

ArrivalStream == {a \in Present : flightPhase[a] \in Approaching \/ a = EmergencyAircraft}

(* Phase first, then the time left, then the id; one speed for all.         *)
SortKeyBefore(a, b) ==
  \/ PhaseRank(a) < PhaseRank(b)
  \/ PhaseRank(a) = PhaseRank(b) /\ distance[a] < distance[b]
  \/ PhaseRank(a) = PhaseRank(b) /\ distance[a] = distance[b] /\ IdOf(a) < IdOf(b)

BaselineOrder == Sorted(ArrivalStream, SortKeyBefore)
StabilisedAircraft == {a \in ArrivalStream : flightPhase[a] \in Stabilised}

\* Mutant: the emergency in front of everybody.
InsertedEmergencyFirst(baseline, e) ==
  IF e = NoAircraft THEN baseline ELSE <<e>> \o SelectSeq(baseline, LAMBDA a : a # e)

(* Behind the stabilised ones at the head of the others. *)
InsertedEmergency(baseline, e) ==
  LET p == Place(baseline, e)
      rest == SubSeq(baseline, 1, p - 1) \o SubSeq(baseline, p + 1, Len(baseline))
      kept == {n \in 0 .. Len(rest) : \A i \in 1 .. n : rest[i] \in StabilisedAircraft}
      cut == CHOOSE n \in kept : \A m \in kept : m <= n
  IN  IF e = NoAircraft THEN baseline
      ELSE SubSeq(rest, 1, cut) \o <<e>> \o SubSeq(rest, cut + 1, Len(rest))

Displaced(baseline, order, e) ==
  {a \in ArrivalStream : a # e /\ Place(order, a) > Place(baseline, a)}

Reasons(a, e, displacedOnes) ==
  LET named == (IF a = e THEN {"EMERGENCY_PRIORITY", "EARLIEST_REACHABLE"} ELSE {})
                 \cup (IF a \in StabilisedAircraft THEN {"STABILISED_ON_APPROACH"} ELSE {})
                 \cup (IF a \in displacedOnes THEN {"DISPLACED_BY_EMERGENCY"} ELSE {})
  IN  IF named = {} THEN {"FIRST_COME_FIRST_SERVED"} ELSE named

(* Over when the emergency is established and free of predicted conflicts. *)
SegmentComplete(e) == e # NoAircraft /\ flightPhase[e] \in Stabilised /\ e \notin inConflict

(* A Step without arrivals has no order. *)
Resequencing ==
  LET e == EmergencyAircraft
      order == InsertedEmergency(BaselineOrder, e)
      moved == Displaced(BaselineOrder, order, e)
  IN  [baseline |-> BaselineOrder, order |-> order, emergency |-> e, displaced |-> moved,
       reasons |-> [a \in ArrivalStream |-> Reasons(a, e, moved)],
       complete |-> SegmentComplete(e)]

(* Runway slots by distance, each with what it needs behind the one before. *)
RunwaySequence ==
  LET order == Sorted(ArrivalStream,
                      LAMBDA a, b : \/ distance[a] < distance[b]
                                    \/ distance[a] = distance[b] /\ IdOf(a) < IdOf(b))
      op(a) == [id |-> a, type |-> Type[a], departs |-> FALSE, earliest |-> 0, emergency |-> FALSE]
  IN  [i \in DOMAIN order |->
         [aircraft |-> order[i],
          gap |-> IF i = 1 THEN 0 ELSE Requirement(op(order[i - 1]), op(order[i]))]]

\* Mutant: everyone on the way to the runway waits.
HoldRequestsAll(e) ==
  LET waiting == ById({a \in Present \ {e} : flightPhase[a] \in Approaching})
  IN  [i \in DOMAIN waiting |->
         [id |-> waiting[i], type |-> Type[waiting[i]], need |-> Fleet[Type[e]].occupancy]]

(* Arrivals not yet stabilised wait while the emergency has the runway.     *)
HoldRequests(e) ==
  LET waiting == ById({a \in Present \ {e} : flightPhase[a] = "DESCENT"})
  IN  [i \in DOMAIN waiting |->
         [id |-> waiting[i], type |-> Type[waiting[i]], need |-> Fleet[Type[e]].occupancy]]

Holdings(e) ==
  IF e = NoAircraft THEN [holds |-> {}, refused |-> {}] ELSE Stack(HoldRequests(e))

AdviceInit ==
  /\ MissionInit
  /\ LET present == {Others[i] : i \in DOMAIN Others} \cup {Patrol}
     IN  /\ flightPhase = [a \in present |-> IF a = Patrol THEN "CLIMB" ELSE "DESCENT"]
         /\ \E d \in [present \ {Patrol} -> Remaining] :
              distance = [a \in present |-> IF a = Patrol THEN 0 ELSE d[a]]
  /\ declared = {} /\ inConflict = {}

(* The phase is read off two samples; the fighter counts as a departure on  *)
(* its way home too, so level flight below 3,000 feet is a climb.           *)
PhaseOf(before, after) ==
  CASE after.level > before.level -> "CLIMB"
    [] after.level < before.level -> IF after.level < 30 THEN "FINAL" ELSE "DESCENT"
    [] OTHER -> IF after.level < 30 THEN "CLIMB" ELSE "LEVEL"

PatrolFlies ==
  /\ Patrol \in Present
  /\ TakeOff \/ Fly(Patrol \in inConflict)
  /\ flightPhase' = [flightPhase EXCEPT ![Patrol] =
                       IF now' = now THEN @ ELSE PhaseOf(position, position')]
  /\ distance' = [distance EXCEPT ![Patrol] = Away[position'.cell]]
  /\ UNCHANGED <<declared, inConflict>>

(* Its recovery is declared, from the ground too or after the landing, and  *)
(* again; one aircraft at most is in an emergency.                          *)
PatrolDeclares ==
  /\ \E urgent \in BOOLEAN : (urgent => declared \subseteq {Patrol}) /\ DeclareRecovery(urgent)
  /\ declared' = declared \cup (IF sortie'.emergency THEN {Patrol} ELSE {})
  /\ UNCHANGED <<flightPhase, distance, inConflict>>

(* An arrival comes closer, descent to approach to final, and lands. *)
Descend(a) ==
  /\ flightPhase[a] \in {"DESCENT", "APPROACH"}
  /\ flightPhase' = [flightPhase EXCEPT ![a] = IF @ = "DESCENT" THEN "APPROACH" ELSE "FINAL"]
  /\ distance' = [distance EXCEPT ![a] = @ \div 2]
  /\ UNCHANGED <<declared, inConflict, missionVars>>

Without(f, a) == [b \in DOMAIN f \ {a} |-> f[b]]

Leaves(a) ==
  /\ flightPhase[a] = "FINAL"
  /\ IF a = Patrol THEN Land ELSE UNCHANGED missionVars
  /\ flightPhase' = Without(flightPhase, a) /\ distance' = Without(distance, a)
  /\ inConflict' = inConflict \ {a}
  /\ UNCHANGED declared

Declare(a) ==
  /\ declared = {} /\ a # Patrol
  /\ declared' = {a}
  /\ UNCHANGED <<flightPhase, distance, inConflict, missionVars>>

(* A conflict of the emergency is predicted, or no more: nobody else's is   *)
(* looked at.                                                               *)
Predict ==
  /\ EmergencyAircraft # NoAircraft
  /\ inConflict' \in {{}, {EmergencyAircraft}}
  /\ UNCHANGED <<flightPhase, distance, declared, missionVars>>

AdviceNext ==
  \/ PatrolFlies \/ PatrolDeclares \/ Predict
  \/ \E a \in Present : Descend(a) \/ Leaves(a) \/ Declare(a)

AdviceSpec == AdviceInit /\ [][AdviceNext]_adviceVars
-----------------------------------------------------------------------------
(* The two orchestrators speak of the same traffic: the runway has a slot   *)
(* for whoever is in the order, nobody the order keeps in place is held,    *)
(* and whoever is moved back is told where to wait or that there is no room.*)
AdviceAgrees ==
  LET r == Resequencing
      h == Holdings(r.emergency)
      waiting == {x.id : x \in h.holds} \cup h.refused
  IN  /\ {RunwaySequence[i].aircraft : i \in DOMAIN RunwaySequence}
           = {r.order[i] : i \in DOMAIN r.order}
      /\ waiting \cap StabilisedAircraft = {} /\ r.emergency \notin waiting
      /\ r.displaced \subseteq waiting
      /\ \A x, y \in h.holds : x.pattern = y.pattern /\ x.level = y.level => x = y

(* The order is fair: the others keep the order of first come, first        *)
(* served, the stabilised are not moved back, and whoever is told to be     *)
(* displaced is behind the emergency, which is not yet over.                *)
OrderIsFair ==
  LET r == Resequencing
  IN  /\ \A a, b \in ArrivalStream \ {r.emergency} :
           Place(r.order, a) < Place(r.order, b) <=> Place(r.baseline, a) < Place(r.baseline, b)
      /\ r.displaced \cap StabilisedAircraft = {}
      /\ \A a \in ArrivalStream : "DISPLACED_BY_EMERGENCY" \in r.reasons[a] =>
           Place(r.order, r.emergency) < Place(r.order, a) /\ ~ r.complete

(* Priority never costs the emergency a place: it is put in at the earliest *)
(* it can reach (resequencing_orchestrator.py, _insert_emergency).          *)
EmergencyNeverMovesBack ==
  LET r == Resequencing
  IN  r.emergency # NoAircraft =>
        Place(r.order, r.emergency) <= Place(r.baseline, r.emergency)
=============================================================================
