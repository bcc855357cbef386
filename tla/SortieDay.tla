----------------------------- MODULE SortieDay -----------------------------
(***************************************************************************)
(* The day of a sortie (regulation/sortie.py, schedule.py): scheduled      *)
(* traffic and patrols share the runway, a fighter takes off, declares an  *)
(* emergency on station, a way home is planned (RouteSearch), arrivals     *)
(* around its landing are held (RunwayUse) and the rest of the day is laid *)
(* out again around it.  One action per stage of SortieScenario.build; the *)
(* planning takes one step per turn of its search.                         *)
(***************************************************************************)
EXTENDS RunwayUse, RouteSearch

CONSTANTS
  Timetables,     \* the scheduled flights of a window, as operations
  WindowFrom, WindowTo,
  Patrols,        \* sorties of the same window besides the fighter
  PatrolTypes,    \* their types, in turn
  Fighter,        \* type of the fighter
  TakeoffOffset, OnStation,
  Pace            \* ten seconds per mile on the way home

ASSUME DayAssumption ==
  /\ WindowFrom \in Nat /\ WindowTo \in Nat /\ WindowFrom < WindowTo
  /\ Patrols \in Nat /\ TakeoffOffset \in Nat /\ OnStation \in Nat
  /\ Fighter \in DOMAIN Fleet /\ Pace \in Nat \ {0}
  /\ Timetables \subseteq Seq(Operations)
  /\ PatrolTypes \in Seq(DOMAIN Fleet) /\ (Patrols > 0 => PatrolTypes # <<>>)

VARIABLES
  stage,       \* the next part of the build
  traffic,     \* civil operations and patrols
  withSortie,  \* the day with the fighter's departure
  final,       \* what is left of it, with the emergency put in
  sortie,      \* times of the sortie
  holds,       \* arrivals kept waiting
  refused      \* arrivals no pattern has room for

dayVars == <<stage, traffic, withSortie, final, sortie, holds, refused>>
sortieVars == <<dayVars, routeVars>>

Fgt == "ROKAF01"
Never == -1

(* to_runway_ops: the scheduled time is the earliest. *)
ToRunwayOps(flights) == SortedByEarliest(flights)

(* Each patrol goes out early in the window and comes back late in it,      *)
(* under two names.                                                         *)
PatrolOps ==
  LET span == WindowTo - WindowFrom
      at(hundredths) == WindowFrom + (span * hundredths) \div 100
      op(i, departs, t) ==
        [id |-> <<i, departs>>, type |-> PatrolTypes[(i % Len(PatrolTypes)) + 1],
         departs |-> departs, earliest |-> t, emergency |-> FALSE]
  IN  [n \in 1 .. 2 * Patrols |->
         LET i == (n - 1) \div 2
         IN  IF n % 2 = 1 THEN op(i, TRUE, at(8 + 18 * i)) ELSE op(i, FALSE, at(55 + 14 * i))]

(* No airline flies under the fighter's callsign or a patrol's, no patrol   *)
(* under the fighter's.                                                     *)
ASSUME CallsignAssumption ==
  /\ \A civil \in Timetables : \A i \in DOMAIN civil :
       civil[i].id # Fgt /\ \A n \in DOMAIN PatrolOps : PatrolOps[n].id # civil[i].id
  /\ \A n \in DOMAIN PatrolOps : PatrolOps[n].id # Fgt

FighterOp(departs, t) ==
  [id |-> Fgt, type |-> Fighter, departs |-> departs, earliest |-> t, emergency |-> ~ departs]

DayInit ==
  /\ \E civil \in Timetables : traffic = ToRunwayOps(civil) \o PatrolOps
  /\ stage = "launch"
  /\ withSortie = <<>> /\ final = <<>> /\ holds = {} /\ refused = {}
  /\ sortie = [phase |-> "GROUND", takeoff |-> Never, onStation |-> Never,
               offStation |-> Never, declared |-> Never, landed |-> Never,
               emergency |-> FALSE]
  /\ RouteInit

(* Stages 1 to 3: the fighter's departure takes its turn in the traffic. *)
Launch ==
  /\ stage = "launch"
  /\ LET ready == FighterOp(TRUE, WindowFrom + TakeoffOffset)
         day == FirstComeFirstServed(Append(traffic, ready), WindowFrom)
     IN  /\ withSortie' = day
         /\ sortie' = [sortie EXCEPT !.takeoff = TimeOf(day, Fgt)]
  /\ stage' = "station"
  /\ UNCHANGED <<traffic, final, holds, refused, routeVars>>

(* Stages 4 to 7: on station seven minutes later, then the emergency. *)
DeclareRecovery ==
  LET on == sortie.takeoff + 42
      t == on + OnStation
  IN  /\ stage = "station"
      /\ sortie' = [sortie EXCEPT !.phase = "ON_STATION", !.onStation = on,
                      !.declared = t, !.offStation = t, !.emergency = TRUE]
      /\ stage' = "recovery"
      /\ UNCHANGED <<traffic, withSortie, final, holds, refused, routeVars>>

(* Stage 8: a turn of the planner. *)
PlanRecovery == stage = "recovery" /\ RouteNext /\ UNCHANGED dayVars

(* Ten minutes when there is no way home to measure. *)
Eta == sortie.declared + IF route = NoRoute THEN 60 ELSE RouteLength(route) * Pace

(* Stages 9 and 10: arrivals within eight minutes of the fighter are held   *)
(* for as long as it needs the runway.                                      *)
Contested ==
  LET arrivals == Arrivals(withSortie)
      near(s) == s.op.id # Fgt /\ s.time - Eta < 48 /\ Eta - s.time < 48
  IN  AtPlaces(arrivals, {i \in DOMAIN arrivals : near(arrivals[i])})

Need(s) == Larger(0, Eta + Fleet[Fighter].occupancy - s.time)

HoldRequests ==
  LET needing == AtPlaces(Contested, {i \in DOMAIN Contested : Need(Contested[i]) > 0})
  IN  [i \in DOMAIN needing |->
         [id |-> needing[i].op.id, type |-> needing[i].op.type, need |-> Need(needing[i])]]

PlanHolds ==
  /\ stage = "recovery" /\ ~ Planning
  /\ LET stacked == Stack(HoldRequests)
     IN  holds' = stacked.holds /\ refused' = stacked.refused
  /\ stage' = "landing"
  /\ UNCHANGED <<traffic, withSortie, final, sortie, routeVars>>

Remaining ==
  LET left == AtPlaces(withSortie,
                {i \in DOMAIN withSortie : /\ withSortie[i].op.id # Fgt
                                          /\ withSortie[i].time >= sortie.declared})
  IN  [i \in DOMAIN left |-> left[i].op]

(* Stages 11 to 13: the emergency is put in, the others follow. *)
LandEmergency ==
  /\ stage = "landing"
  /\ LET rest == InsertEmergency(Append(Remaining, FighterOp(FALSE, Eta)), Fgt,
                                 sortie.declared)
     IN  /\ final' = rest
         /\ sortie' = [sortie EXCEPT !.landed = TimeOf(rest, Fgt), !.phase = "LANDED"]
  /\ stage' = "over"
  /\ UNCHANGED <<traffic, withSortie, holds, refused, routeVars>>

DayNext == Launch \/ DeclareRecovery \/ PlanRecovery \/ PlanHolds \/ LandEmergency

(* The planner's loop goes on once it has begun: build() is one call. *)
DaySpec == DayInit /\ [][DayNext]_sortieVars /\ WF_sortieVars(PlanRecovery)
-----------------------------------------------------------------------------
Over == stage = "over"

Ids(schedule) == {schedule[i].op.id : i \in DOMAIN schedule}

(* Two operations one of which leads the other are never closer than the    *)
(* runway stays occupied, whatever was put between them; a light aircraft   *)
(* that may not line up behind a heavy one leaves two minutes after it.     *)
Clears(schedule) ==
  /\ \A i, j \in DOMAIN schedule :
       i < j => schedule[j].time >= schedule[i].time +
                  IF schedule[i].op.departs THEN TimeToRoll(schedule[i].op, 3000)
                  ELSE Fleet[schedule[i].op.type].occupancy
  /\ \A i \in 1 .. Len(schedule) - 1 :
       LET l == schedule[i].op
           f == schedule[i + 1].op
       IN  l.departs /\ f.departs /\ LineUpProhibited(l, f) =>
             schedule[i + 1].time >= schedule[i].time + 12

(* The emergency costs nobody the runway: whoever had not used it when the  *)
(* emergency was declared has one slot in the new plan, nobody else has,    *)
(* no plan puts two aircraft on the runway, and the emergency waits for     *)
(* nothing but the way home.                                                *)
NobodyLosesTheRunway ==
  /\ Clears(withSortie) /\ Clears(final)
  /\ Over =>
       /\ Ids(final) = {Fgt} \cup {Remaining[i].id : i \in DOMAIN Remaining}
       /\ Len(final) = 1 + Len(Remaining)
       /\ sortie.landed = Eta

(* Each hold answers one request, for long enough to let the emergency      *)
(* through, and every other request is refused, also where two arrivals     *)
(* have one callsign (schedule.py draws them unchecked); one aircraft per   *)
(* level of a pattern, and a refusal only when every level is taken         *)
(* (HoldingBook.assign, stack; SortieScenario._plan_holds).                 *)
HoldsAreApart ==
  /\ \A h, k \in holds : h.pattern = k.pattern /\ h.level = k.level => h = k
  /\ refused # {} => Cardinality(holds) = Capacity
  /\ stage \in {"landing", "over"} =>
       LET requests == HoldRequests
       IN  \E answered \in [holds -> DOMAIN requests] :
             /\ \A h, k \in holds : answered[h] = answered[k] => h = k
             /\ \A h \in holds : /\ h.id = requests[answered[h]].id
                                 /\ h.delay >= requests[answered[h]].need
             /\ refused = {requests[i].id :
                             i \in {j \in DOMAIN requests : \A h \in holds : answered[h] # j}}

(* The search for a way home ends, with or without one. *)
PlanningEnds == stage = "recovery" ~> ~ Planning
=============================================================================
