---------------------------- MODULE AdviceProofs ----------------------------
(***************************************************************************)
(* Proofs about the patrol (PatrolMission, Airspace) and the advisories on *)
(* one Step (ApproachAdvice, RunwayUse), for every plan of cells, every    *)
(* track, every number of arrivals, every fleet and every set of holding   *)
(* patterns.                                                               *)
(***************************************************************************)
EXTENDS ApproachAdvice, RunwayProofs, FiniteSetTheorems, SequenceTheorems, TLAPS

-----------------------------------------------------------------------------
(* The units over the corridor.                                             *)

(* A position that a track may hold. *)
Flown(p) == p.level \in Nat /\ p.level >= Elevation

(* The bands in figures: the corridor's own area reaches level 65 and       *)
(* includes it, everything else of Cheongju ends below.                     *)
LEMMA Bands ==
  /\ Published["T17"] = [lower |-> 12, upper |-> 65]
  /\ Published["CTR_CORE"] = [lower |-> 2, upper |-> 52]
  /\ Published["RING_5_10"] = [lower |-> 12, upper |-> 52]
  /\ Published["SEONGMU"] = [lower |-> 2, upper |-> 42]
  /\ ChainSteps = <<[unit |-> Twr, band |-> [lower |-> 2, upper |-> 52]],
                    [unit |-> Gca, band |-> [lower |-> 12, upper |-> 65]],
                    [unit |-> Osan, band |-> [lower |-> 65, upper |-> 145]],
                    [unit |-> Acc, band |-> [lower |-> 145, upper |-> 9999]]>>
BY DEF Published, T17, ControlZoneBand, UpperT17, Band, Resolve, Elevation, ChainSteps, Unlimited

(* The chain at and below the corridor's limit, and above it (unit_at). *)
LEMMA UnitsOfTheChain ==
  ASSUME NEW level \in Nat, level >= Elevation
  PROVE  /\ level < HandoffLevel => UnitAt(level) \in {Twr, Gca}
         /\ level > HandoffLevel => UnitAt(level) \in {Osan, Acc}
<1> DEFINE covering == {i \in DOMAIN ChainSteps : Covers(ChainSteps[i], level)}
<1>1. Len(ChainSteps) = 4 /\ DOMAIN ChainSteps = 1 .. 4
  BY Bands
<1>2. /\ ChainSteps[1].unit = Twr /\ ChainSteps[2].unit = Gca
      /\ ChainSteps[3].unit = Osan /\ ChainSteps[4].unit = Acc
      /\ ChainSteps[1].band = [lower |-> 2, upper |-> 52]
      /\ ChainSteps[2].band = [lower |-> 12, upper |-> 65]
      /\ ChainSteps[3].band = [lower |-> 65, upper |-> 145]
      /\ ChainSteps[4].band = [lower |-> 145, upper |-> 9999]
  BY Bands
<1>3. /\ 1 \in covering <=> 2 <= level /\ level < 52
      /\ 2 \in covering <=> 12 <= level /\ level < 65
      /\ 3 \in covering <=> 65 <= level /\ level < 145
      /\ 4 \in covering <=> 145 <= level /\ level < 9999
  BY <1>1, <1>2 DEF Covers
<1>4. covering \subseteq 1 .. 4
  BY <1>1
<1>5. UnitAt(level) = ChainSteps[IF covering = {} THEN 4
                        ELSE CHOOSE i \in covering : \A j \in covering : i <= j].unit
  BY <1>1 DEF UnitAt
<1> HIDE DEF covering
<1>6. CASE covering = {}
  BY <1>2, <1>3, <1>5, <1>6 DEF Elevation, HandoffLevel
<1>7. CASE covering # {}
  <2>1. \E i \in covering : \A j \in covering : i <= j
    <3>1. covering \subseteq Nat
      BY <1>4
    <3>2. QED
      BY <1>7, <3>1, LeastExists
  <2>2. PICK i : i = CHOOSE k \in covering : \A j \in covering : k <= j
    OBVIOUS
  <2>3. i \in covering
    BY <2>1, <2>2
  <2>4. UnitAt(level) = ChainSteps[i].unit
    BY <1>5, <1>7, <2>2
  <2>5. i \in 1 .. 4
    BY <1>4, <2>3
  <2>6. QED
    BY <1>2, <1>3, <2>3, <2>4, <2>5 DEF Elevation, HandoffLevel
<1>8. QED
  BY <1>6, <1>7

(* Over the corridor Cheongju has the track up to the limit, the units      *)
(* above it have it beyond: nothing of the lateral unit is in between.      *)
LEMMA CorridorUnits ==
  ASSUME NEW p, Flown(p), p.cell \in Footprint["T17"]
  PROVE  /\ p.level <= HandoffLevel => Controller(p) \in {Twr, Gca}
         /\ p.level > HandoffLevel => Controller(p) \in {Osan, Acc}
<1>1. \A v \in {"T18", "T19", "T20"} : ~ Inside(v, p)
  BY CorridorAssumption DEF Inside
<1>2. Owner(p) # Lateral
  <2> DEFINE covering == {i \in DOMAIN Neighbours : Inside(Neighbours[i], p)}
  <2>1. covering \subseteq {1}
    BY <1>1 DEF Neighbours
  <2> HIDE DEF covering
  <2>2. Owner(p) = CASE UnderControl(p) -> Gca
                     [] ~ UnderControl(p) /\ covering = {} -> Nobody
                     [] OTHER -> UnitOf(Neighbours[CHOOSE i \in covering : \A j \in covering : i <= j])
    BY DEF Owner, covering
  <2>3. CASE UnderControl(p)
    BY <2>2, <2>3 DEF Gca, Lateral
  <2>4. CASE ~ UnderControl(p) /\ covering = {}
    BY <2>2, <2>4 DEF Nobody, Lateral
  <2>5. CASE ~ UnderControl(p) /\ covering # {}
    <3>1. covering = {1}
      BY <2>1, <2>5
    <3>2. (CHOOSE i \in covering : \A j \in covering : i <= j) = 1
      BY <3>1
    <3>3. Owner(p) = UnitOf(Neighbours[1])
      BY <2>2, <2>5, <3>2
    <3>4. QED
      BY <3>3 DEF Neighbours, UnitOf, Osan, Lateral
  <2>6. QED
    BY <2>3, <2>4, <2>5
<1>3. Controller(p) = IF UnderControl(p)
                      THEN IF Covers(ChainSteps[1], p.level) /\ p.cell \in ControlZone THEN Twr ELSE Gca
                      ELSE UnitAt(p.level)
  BY <1>2 DEF Controller
<1>4. p.level = HandoffLevel => UnderControl(p)
  BY Bands DEF Flown, UnderControl, Inside, HandoffLevel
<1>5. p.level > HandoffLevel => ~ UnderControl(p)
  BY Bands DEF Flown, UnderControl, Inside, HandoffLevel
<1>6. QED
  BY <1>3, <1>4, <1>5, UnitsOfTheChain DEF Flown, HandoffLevel

-----------------------------------------------------------------------------
(* The patrol.                                                              *)

(* A mark of a sortie, once set, is a time that has come. *)
Marked(mark, t) == mark = Unset \/ mark \in 0 .. t

Phases == {"GROUND", "CLIMBOUT", "TRANSIT_OUT", "ON_STATION", "RECOVERY", "APPROACH", "LANDED"}

(* The marks follow one another, and nobody is marked as gone home before a *)
(* declaration; on the ground nothing but a declaration can be marked.      *)
InOrder(s, t) ==
  /\ Marked(s.takeoff, t) /\ Marked(s.on, t) /\ Marked(s.off, t)
  /\ Marked(s.declared, t) /\ Marked(s.landed, t)
  /\ s.takeoff = Unset =>
       s.on = Unset /\ s.off = Unset /\ s.landed = Unset
  /\ s.on # Unset => s.takeoff <= s.on
  /\ s.off # Unset =>
       /\ s.on # Unset /\ s.on <= s.off
       /\ s.declared # Unset
       /\ s.phase \in {"ON_STATION", "RECOVERY", "APPROACH", "LANDED"}
  /\ s.phase = "GROUND" <=> s.takeoff = Unset

Sorties == [phase : Phases, takeoff : Int, on : Int, off : Int, declared : Int, landed : Int,
            emergency : BOOLEAN]

(* The inductive invariant of the patrol: who holds the track is who was    *)
(* handed it last.                                                          *)
MissionInv ==
  /\ now \in Nat /\ Flown(position)
  /\ sortie \in Sorties /\ InOrder(sortie, now)
  /\ custody # NoTransfer => custody.to = Controller(position)

LEMMA InitMission == MissionInit => MissionInv
<1> SUFFICES ASSUME MissionInit PROVE MissionInv
  OBVIOUS
<1>1. Flown(position)
  BY MissionAssumption DEF MissionInit, Flown
<1>2. sortie \in Sorties /\ InOrder(sortie, now)
  BY DEF MissionInit, Sorties, Phases, InOrder, Marked, Unset
<1>3. QED
  BY <1>1, <1>2 DEF MissionInit, MissionInv

(* What a sample does to the sortie (advance). *)
LEMMA AdvancedFields ==
  ASSUME NEW s \in Sorties, NEW p, NEW t \in Nat
  PROVE  LET a == Advanced(s, p, t)
         IN  /\ a \in Sorties
             /\ a.phase = PhaseAt(s, p) /\ a.takeoff = s.takeoff /\ a.declared = s.declared
             /\ a.landed = s.landed /\ a.emergency = s.emergency
             /\ a.on = IF PhaseAt(s, p) = "ON_STATION" /\ s.on = Unset THEN t ELSE s.on
             /\ a.off = IF s.on # Unset /\ s.off = Unset /\ PhaseAt(s, p) \in {"RECOVERY", "APPROACH"}
                        THEN t ELSE s.off
<1>1. PhaseAt(s, p) \in Phases
  BY DEF PhaseAt, Phases
<1> DEFINE on == IF PhaseAt(s, p) = "ON_STATION" /\ s.on = Unset THEN t ELSE s.on
           off == IF s.on # Unset /\ s.off = Unset /\ PhaseAt(s, p) \in {"RECOVERY", "APPROACH"}
                  THEN t ELSE s.off
<1>2. Advanced(s, p, t) = [s EXCEPT !.phase = PhaseAt(s, p), !.on = on, !.off = off]
  BY DEF Advanced
<1>3. on \in Int /\ off \in Int
  BY DEF Sorties
<1> HIDE DEF on, off
<1>4. /\ Advanced(s, p, t) \in Sorties
      /\ Advanced(s, p, t).phase = PhaseAt(s, p)
      /\ Advanced(s, p, t).takeoff = s.takeoff
      /\ Advanced(s, p, t).declared = s.declared
      /\ Advanced(s, p, t).landed = s.landed
      /\ Advanced(s, p, t).emergency = s.emergency
      /\ Advanced(s, p, t).on = on
      /\ Advanced(s, p, t).off = off
  BY <1>1, <1>2, <1>3 DEF Sorties
<1>5. QED
  BY <1>4 DEF on, off

(* A sample leaves the marks in order: it marks the return only of a sortie *)
(* whose recovery has been declared, and no later one is taken for outbound.*)
LEMMA AdvancedInOrder ==
  ASSUME NEW s \in Sorties, NEW p, NEW t \in Nat, NEW u, u = Advanced(s, p, t),
         s.takeoff \in 0 .. t, s.on \in 0 .. t \cup {Unset}, s.off \in 0 .. t \cup {Unset},
         s.declared \in 0 .. t \cup {Unset}, s.landed \in 0 .. t \cup {Unset},
         s.on # Unset => s.takeoff <= s.on,
         s.off # Unset => /\ s.on # Unset /\ s.on <= s.off
                          /\ s.declared # Unset
  PROVE  u \in Sorties /\ InOrder(u, t)
<1>1. /\ u \in Sorties
      /\ u.phase = PhaseAt(s, p) /\ u.takeoff = s.takeoff /\ u.declared = s.declared
      /\ u.landed = s.landed
      /\ u.on = IF PhaseAt(s, p) = "ON_STATION" /\ s.on = Unset THEN t ELSE s.on
      /\ u.off = IF s.on # Unset /\ s.off = Unset /\ PhaseAt(s, p) \in {"RECOVERY", "APPROACH"}
                 THEN t ELSE s.off
  BY AdvancedFields
<1>2. PhaseAt(s, p) # "GROUND"
  BY DEF PhaseAt, Unset
<1>3. s.off # Unset => PhaseAt(s, p) \in {"ON_STATION", "RECOVERY", "APPROACH", "LANDED"}
  <2>1. s.takeoff # Unset
    BY DEF Unset
  <2>2. CASE s.landed # Unset
    BY <2>2 DEF PhaseAt
  <2>3. CASE s.landed = Unset /\ InArea(p)
    BY <2>1, <2>3 DEF PhaseAt
  <2>4. CASE s.landed = Unset /\ ~ InArea(p)
    BY <2>1, <2>4 DEF PhaseAt
  <2>5. QED
    BY <2>2, <2>3, <2>4
<1>4. PhaseAt(s, p) \in {"RECOVERY", "APPROACH"} => s.declared # Unset
  BY DEF PhaseAt
<1>5. s \in Sorties
  OBVIOUS
<1> HIDE DEF PhaseAt
<1>6. QED
  BY <1>1, <1>2, <1>3, <1>4 DEF InOrder, Marked, Unset, Sorties

LEMMA TransferFields ==
  ASSUME NEW before, NEW after, NEW pending
  PROVE  LET e == Transfer(before, after, pending)
         IN  IF Controller(before) = Controller(after) THEN e = NoTransfer
             ELSE /\ e # NoTransfer
                  /\ e.from = Controller(before) /\ e.to = Controller(after)
<1> DEFINE a == Controller(before)
           b == Controller(after)
           direction == CASE Lateral \in {a, b} -> "LATERAL"
                          [] Lateral \notin {a, b} /\ after.level > before.level -> "CLIMB"
                          [] OTHER -> "DESCEND"
<1>1. Transfer(before, after, pending) =
        IF a = b THEN NoTransfer ELSE [from |-> a, to |-> b, met |-> ~ pending, direction |-> direction]
  BY DEF Transfer
<1>2. direction # "NONE"
  OBVIOUS
<1> HIDE DEF direction
<1>3. QED
  BY <1>1, <1>2 DEF NoTransfer

(* A step of the patrol alone. *)
MissionStep ==
  \/ TakeOff \/ Land
  \/ \E pending : Fly(pending)
  \/ \E emergency \in BOOLEAN : DeclareRecovery(emergency)

LEMMA FlyMoves ==
  ASSUME MissionInv, NEW pending, Fly(pending)
  PROVE  /\ now' = now + 1 /\ Flown(position')
         /\ sortie' = Advanced(sortie, position', now + 1)
         /\ IF Controller(position) = Controller(position') THEN custody' = custody
            ELSE /\ custody' # NoTransfer
                 /\ custody'.from = Controller(position) /\ custody'.to = Controller(position')
<1>1. PICK leg \in Legs : /\ leg[1] = position
                          /\ position' = leg[2]
                          /\ now' = now + 1
                          /\ sortie' = Advanced(sortie, leg[2], now + 1)
                          /\ LET event == Transfer(position, leg[2], pending)
                             IN  custody' = IF event = NoTransfer THEN custody ELSE event
  BY DEF Fly
<1>2. Flown(position')
  BY <1>1, MissionAssumption DEF Flown
<1>3. PICK event : event = Transfer(position, position', pending)
  OBVIOUS
<1>4. custody' = IF event = NoTransfer THEN custody ELSE event
  BY <1>1, <1>3
<1>5. IF Controller(position) = Controller(position') THEN event = NoTransfer
      ELSE /\ event # NoTransfer
           /\ event.from = Controller(position) /\ event.to = Controller(position')
  BY <1>3, TransferFields
<1>6. QED
  BY <1>1, <1>2, <1>4, <1>5

LEMMA MissionStepKeepsInv ==
  ASSUME MissionInv, MissionStep
  PROVE  MissionInv'
<1>1. now \in Nat /\ sortie \in Sorties /\ InOrder(sortie, now)
  BY DEF MissionInv
<1>2. CASE TakeOff
  <2>1. PICK s : s = [sortie EXCEPT !.takeoff = now]
    OBVIOUS
  <2>2. sortie.takeoff = Unset /\ sortie.phase = "GROUND"
    BY <1>1, <1>2 DEF TakeOff, InOrder
  <2>3. /\ s \in Sorties /\ s.takeoff = now /\ s.on = Unset /\ s.off = Unset
        /\ s.declared \in 0 .. now \cup {Unset} /\ s.landed = Unset
    BY <1>1, <2>1, <2>2 DEF InOrder, Sorties, Marked
  <2>4. sortie' = Advanced(s, position, now) /\ now' = now
    BY <1>2, <2>1 DEF TakeOff
  <2>5. sortie' \in Sorties /\ InOrder(sortie', now')
    BY <1>1, <2>3, <2>4, AdvancedInOrder
  <2>6. QED
    BY <1>2, <2>5 DEF TakeOff, MissionInv, Flown, InOrder, Marked
<1>3. CASE Land
  <2>1. PICK s : s = [sortie EXCEPT !.landed = now]
    OBVIOUS
  <2>2. sortie.takeoff # Unset
    BY <1>1, <1>3 DEF Land, InOrder
  <2>3. /\ s \in Sorties /\ s.takeoff = sortie.takeoff /\ s.on = sortie.on /\ s.off = sortie.off
        /\ s.declared = sortie.declared /\ s.landed = now
    BY <1>1, <2>1 DEF Sorties
  <2>4. sortie' = Advanced(s, position, now) /\ now' = now
    BY <1>3, <2>1 DEF Land
  <2>5. sortie' \in Sorties /\ InOrder(sortie', now')
    BY <1>1, <2>2, <2>3, <2>4, AdvancedInOrder DEF InOrder, Marked, Unset
  <2>6. QED
    BY <1>3, <2>5 DEF Land, MissionInv, Flown, InOrder, Marked
<1>4. ASSUME NEW pending, Fly(pending) PROVE MissionInv'
  <2>1. /\ now' = now + 1 /\ Flown(position')
        /\ sortie' = Advanced(sortie, position', now + 1)
        /\ IF Controller(position) = Controller(position') THEN custody' = custody
           ELSE /\ custody' # NoTransfer
                /\ custody'.from = Controller(position) /\ custody'.to = Controller(position')
    BY <1>4, FlyMoves
  <2>2. sortie.takeoff # Unset
    BY <1>4 DEF Fly
  <2>3. /\ sortie.takeoff \in 0 .. now + 1 /\ sortie.on \in 0 .. now + 1 \cup {Unset}
        /\ sortie.off \in 0 .. now + 1 \cup {Unset} /\ sortie.declared \in 0 .. now + 1 \cup {Unset}
        /\ sortie.landed \in 0 .. now + 1 \cup {Unset}
    BY <1>1, <2>2 DEF InOrder, Marked
  <2>4. sortie' \in Sorties /\ InOrder(sortie', now')
    BY <1>1, <2>1, <2>3, AdvancedInOrder DEF InOrder
  <2>5. custody' # NoTransfer => custody'.to = Controller(position')
    BY <2>1 DEF MissionInv
  <2>6. Controller(position)' = Controller(position')
    OBVIOUS
  <2>7. QED
    BY <1>1, <2>1, <2>4, <2>5 DEF MissionInv, Flown, InOrder, Marked
<1>5. ASSUME NEW emergency \in BOOLEAN, DeclareRecovery(emergency) PROVE MissionInv'
  <2> DEFINE either == sortie.emergency \/ emergency
  <2>0. either \in BOOLEAN
    OBVIOUS
  <2> HIDE DEF either
  <2>1. PICK s : s = [sortie EXCEPT !.declared = now, !.emergency = either]
    OBVIOUS
  <2>2. sortie' = s /\ UNCHANGED <<position, now, custody>>
    BY <1>5, <2>1 DEF DeclareRecovery, either
  <2>3. /\ s \in Sorties /\ s.takeoff = sortie.takeoff /\ s.on = sortie.on /\ s.off = sortie.off
        /\ s.declared = now /\ s.landed = sortie.landed /\ s.phase = sortie.phase
    <3>1. /\ sortie.phase \in Phases /\ sortie.takeoff \in Int /\ sortie.on \in Int
          /\ sortie.off \in Int /\ sortie.landed \in Int
      BY <1>1 DEF Sorties
    <3>2. s = [phase |-> sortie.phase, takeoff |-> sortie.takeoff, on |-> sortie.on,
               off |-> sortie.off, declared |-> now, landed |-> sortie.landed,
               emergency |-> either]
      BY <1>1, <2>1 DEF Sorties
    <3>3. QED
      BY <1>1, <2>0, <3>1, <3>2 DEF Sorties
  <2>4. InOrder(sortie', now')
    <3>1. Marked(s.declared, now) /\ s.declared # Unset
      BY <1>1, <2>3 DEF Marked, Unset
    <3>2. InOrder(s, now)
      BY <1>1, <2>3, <3>1 DEF InOrder
    <3>3. QED
      BY <2>2, <3>2
  <2>5. QED
    BY <1>1, <2>2, <2>3, <2>4 DEF MissionInv, Flown
<1>6. QED
  BY <1>2, <1>3, <1>4, <1>5 DEF MissionStep

-----------------------------------------------------------------------------
(* The patrol among the other aircraft.                                     *)

LEMMA AdviceStepOfMission ==
  ASSUME [AdviceNext]_adviceVars
  PROVE  MissionStep \/ UNCHANGED missionVars
<1>1. CASE UNCHANGED adviceVars
  BY <1>1 DEF adviceVars
<1>2. CASE PatrolFlies \/ PatrolDeclares
  <2>1. Fly(Patrol \in inConflict) => \E pending : Fly(pending)
    OBVIOUS
  <2>2. QED
    BY <1>2, <2>1 DEF PatrolFlies, PatrolDeclares, MissionStep
<1>3. CASE Predict
  BY <1>3 DEF Predict
<1>4. ASSUME NEW a \in Present, Descend(a) \/ Leaves(a) \/ Declare(a)
      PROVE  MissionStep \/ UNCHANGED missionVars
  BY <1>4 DEF Descend, Leaves, Declare, MissionStep
<1>5. QED
  BY <1>1, <1>2, <1>3, <1>4 DEF AdviceNext

LEMMA MissionUnchanged ==
  ASSUME MissionInv, UNCHANGED missionVars
  PROVE  MissionInv'
BY DEF MissionInv, missionVars, Flown

(* The patrol's marks and custody are in order whatever the arrivals do. *)
THEOREM MissionIsInOrder == AdviceSpec => []MissionInv
<1>1. AdviceInit => MissionInv
  BY InitMission DEF AdviceInit
<1>2. MissionInv /\ [AdviceNext]_adviceVars => MissionInv'
  BY AdviceStepOfMission, MissionStepKeepsInv, MissionUnchanged
<1>3. QED
  BY <1>1, <1>2, PTL DEF AdviceSpec

(* What SortieIsOrdered asks of one step. *)
MarksStand ==
  /\ sortie.on # Unset => sortie'.on = sortie.on
  /\ IF sortie.off # Unset THEN sortie'.off = sortie.off
     ELSE sortie'.off # Unset =>
            /\ sortie.declared # Unset /\ sortie.declared <= sortie'.off
            /\ ~ InArea(position')

LEMMA AdvancedMarks ==
  ASSUME NEW s \in Sorties, NEW p, NEW t \in Nat, NEW u, u = Advanced(s, p, t),
         s.takeoff # Unset, Marked(s.declared, t)
  PROVE  /\ s.on # Unset => u.on = s.on
         /\ IF s.off # Unset THEN u.off = s.off
            ELSE u.off # Unset =>
                   /\ s.on # Unset /\ s.landed = Unset
                   /\ s.declared # Unset /\ s.declared <= u.off /\ ~ InArea(p)
<1>1. /\ u.on = IF PhaseAt(s, p) = "ON_STATION" /\ s.on = Unset THEN t ELSE s.on
      /\ u.off = IF s.on # Unset /\ s.off = Unset /\ PhaseAt(s, p) \in {"RECOVERY", "APPROACH"}
                 THEN t ELSE s.off
  BY AdvancedFields
<1>2. PhaseAt(s, p) \in {"RECOVERY", "APPROACH"} /\ s.off = Unset =>
        s.declared # Unset /\ s.landed = Unset /\ ~ InArea(p)
  <2>1. CASE s.landed # Unset
    BY <2>1 DEF PhaseAt
  <2>2. CASE s.landed = Unset /\ InArea(p)
    BY <2>2 DEF PhaseAt
  <2>3. CASE s.landed = Unset /\ ~ InArea(p)
    BY <2>3 DEF PhaseAt
  <2>4. QED
    BY <2>1, <2>2, <2>3
<1>3. s.declared # Unset => s.declared <= t
  BY DEF Marked
<1> HIDE DEF PhaseAt
<1>4. QED
  BY <1>1, <1>2, <1>3

LEMMA StepKeepsMarks ==
  ASSUME MissionInv, MissionStep
  PROVE  MarksStand
<1>1. now \in Nat /\ sortie \in Sorties /\ InOrder(sortie, now)
  BY DEF MissionInv
<1>2. CASE TakeOff
  <2>1. PICK s : s = [sortie EXCEPT !.takeoff = now]
    OBVIOUS
  <2>2. sortie.on = Unset /\ sortie.off = Unset
    BY <1>1, <1>2 DEF TakeOff, InOrder
  <2>3. /\ s \in Sorties /\ s.takeoff # Unset /\ s.on = Unset /\ s.off = Unset
        /\ Marked(s.declared, now)
    BY <1>1, <2>1, <2>2 DEF InOrder, Sorties, Unset
  <2>4. sortie' = Advanced(s, position, now)
    BY <1>2, <2>1 DEF TakeOff
  <2>5. sortie'.off = Unset
    BY <1>1, <2>3, <2>4, AdvancedMarks
  <2>6. QED
    BY <2>2, <2>5 DEF MarksStand
<1>3. CASE Land
  <2>1. PICK s : s = [sortie EXCEPT !.landed = now]
    OBVIOUS
  <2>2. sortie.takeoff # Unset
    BY <1>1, <1>3 DEF Land, InOrder
  <2>3. /\ s \in Sorties /\ s.takeoff # Unset /\ s.on = sortie.on /\ s.off = sortie.off
        /\ s.landed # Unset /\ Marked(s.declared, now)
    BY <1>1, <2>1, <2>2 DEF InOrder, Sorties, Unset
  <2>4. sortie' = Advanced(s, position, now)
    BY <1>3, <2>1 DEF Land
  <2>5. /\ s.on # Unset => sortie'.on = s.on
        /\ sortie'.off = s.off
    BY <1>1, <2>3, <2>4, AdvancedMarks
  <2>6. QED
    BY <2>3, <2>5 DEF MarksStand
<1>4. ASSUME NEW pending, Fly(pending) PROVE MarksStand
  <2>1. sortie' = Advanced(sortie, position', now + 1) /\ sortie.takeoff # Unset
    BY <1>4, FlyMoves DEF Fly
  <2>2. Marked(sortie.declared, now + 1) /\ now + 1 \in Nat
    BY <1>1 DEF InOrder, Marked
  <2>3. QED
    BY <1>1, <2>1, <2>2, AdvancedMarks DEF MarksStand
<1>5. ASSUME NEW emergency \in BOOLEAN, DeclareRecovery(emergency) PROVE MarksStand
  <2>1. PICK either : sortie' = [sortie EXCEPT !.declared = now, !.emergency = either]
    BY <1>5 DEF DeclareRecovery
  <2>2. sortie'.on = sortie.on /\ sortie'.off = sortie.off
    BY <1>1, <2>1 DEF Sorties
  <2>3. QED
    BY <2>2 DEF MarksStand
<1>6. QED
  BY <1>2, <1>3, <1>4, <1>5 DEF MissionStep

(* Whatever is declared, however often and when, a fighter that has left    *)
(* its area for home is never taken for one on its way out, and the marks   *)
(* of its sortie stand as they were set (mission.py: phase_at, advance,     *)
(* declare_recovery).                                                       *)
THEOREM OrderedSortie == AdviceSpec => SortieIsOrdered
<1> DEFINE Order ==
      /\ sortie.on # Unset => sortie.takeoff # Unset /\ sortie.takeoff <= sortie.on
      /\ sortie.off # Unset =>
           /\ sortie.on # Unset /\ sortie.on <= sortie.off
           /\ sortie.declared # Unset
           /\ sortie.phase \in {"ON_STATION", "RECOVERY", "APPROACH", "LANDED"}
<1>1. MissionInv => Order
  BY DEF MissionInv, InOrder, Marked, Unset
<1>2. MissionInv /\ [AdviceNext]_adviceVars => [MarksStand]_sortie
  <2>1. MissionInv /\ MissionStep => MarksStand
    BY StepKeepsMarks
  <2>2. UNCHANGED missionVars => UNCHANGED sortie
    BY DEF missionVars
  <2> HIDE DEF MarksStand
  <2>3. QED
    BY <2>1, <2>2, AdviceStepOfMission
<1>3. SortieIsOrdered <=> []Order /\ [][MarksStand]_sortie
  BY DEF SortieIsOrdered, MarksStand
<1> HIDE DEF Order, MarksStand
<1>4. QED
  BY <1>1, <1>2, <1>3, MissionIsInOrder, PTL DEF AdviceSpec

(* What HandoffsAgree asks of one step. *)
LEMMA HandoffStep ==
  ASSUME MissionInv, MissionStep
  PROVE  LET cheongju == {Twr, Gca}
             above == {Osan, Acc}
             crossing == CrossesHandoff(position, position')
             handed(from, to) ==
               custody' # custody /\ custody'.from \in from /\ custody'.to \in to
         IN  /\ {position.cell, position'.cell} \subseteq Footprint["T17"] =>
                  /\ (crossing = "OUTBOUND") <=> handed(cheongju, above)
                  /\ (crossing = "INBOUND") <=> handed(above, cheongju)
             /\ custody' # NoTransfer => custody'.to = Controller(position')
<1> DEFINE cheongju == {Twr, Gca}
           above == {Osan, Acc}
           crossing == CrossesHandoff(position, position')
           handed(from, to) == custody' # custody /\ custody'.from \in from /\ custody'.to \in to
<1>1. MissionInv'
  BY MissionStepKeepsInv
<1>2. Flown(position) /\ Flown(position')
  BY <1>1 DEF MissionInv, Flown
<1>3. custody' # NoTransfer => custody'.to = Controller(position')
  BY <1>1 DEF MissionInv
<1>4. ASSUME position.cell \in Footprint["T17"], position'.cell \in Footprint["T17"]
      PROVE  /\ (crossing = "OUTBOUND") <=> handed(cheongju, above)
             /\ (crossing = "INBOUND") <=> handed(above, cheongju)
  <2>1. PICK a : a = Controller(position)
    OBVIOUS
  <2>2. PICK b : b = Controller(position')
    OBVIOUS
  <2>3. /\ position.level <= HandoffLevel => a \in cheongju
        /\ position.level > HandoffLevel => a \in above
        /\ position'.level <= HandoffLevel => b \in cheongju
        /\ position'.level > HandoffLevel => b \in above
    BY <1>2, <1>4, <2>1, <2>2, CorridorUnits
  <2>4. IF a = b THEN custody' = custody
        ELSE custody' # NoTransfer /\ custody'.from = a /\ custody'.to = b
    <3>1. CASE \E pending : Fly(pending)
      BY <2>1, <2>2, <3>1, FlyMoves
    <3>2. CASE ~ \E pending : Fly(pending)
      <4>1. position' = position /\ custody' = custody
        BY <3>2 DEF MissionStep, TakeOff, Land, DeclareRecovery
      <4>2. QED
        BY <2>1, <2>2, <4>1
    <3>3. QED
      BY <3>1, <3>2
  <2>5. custody # NoTransfer => custody.to = a
    BY <2>1 DEF MissionInv
  <2>6. a # b => custody' # custody
    BY <2>4, <2>5
  <2>7. cheongju \cap above = {}
    BY DEF Twr, Gca, Osan, Acc
  <2>8. crossing = IF position.level > HandoffLevel /\ position'.level <= HandoffLevel THEN "INBOUND"
                   ELSE IF position.level <= HandoffLevel /\ position'.level > HandoffLevel
                        THEN "OUTBOUND" ELSE "NONE"
    <3>1. position.level \in Nat /\ position'.level \in Nat
      BY <1>2 DEF Flown
    <3>2. QED
      BY <3>1 DEF CrossesHandoff, HandoffLevel
  <2>9. /\ position.level \in Nat /\ position'.level \in Nat
    BY <1>2 DEF Flown
  <2> HIDE DEF cheongju, above, crossing
  <2>10. QED
    BY <2>3, <2>4, <2>6, <2>7, <2>8, <2>9 DEF HandoffLevel
<1>5. QED
  BY <1>3, <1>4

(* Over the corridor the chain of units and the crossing of T17's limit     *)
(* tell the same story, and who holds the track was handed it last          *)
(* (handoff.py: controller, transfer, scan; sector.py: crosses_handoff).    *)
THEOREM AgreedHandoffs == AdviceSpec => HandoffsAgree
<1> DEFINE Agrees ==
      LET cheongju == {Twr, Gca}
          above == {Osan, Acc}
          crossing == CrossesHandoff(position, position')
          handed(from, to) ==
            custody' # custody /\ custody'.from \in from /\ custody'.to \in to
      IN  /\ {position.cell, position'.cell} \subseteq Footprint["T17"] =>
               /\ (crossing = "OUTBOUND") <=> handed(cheongju, above)
               /\ (crossing = "INBOUND") <=> handed(above, cheongju)
          /\ custody' # NoTransfer => custody'.to = Controller(position')
<1>1. MissionInv /\ [AdviceNext]_adviceVars => [Agrees]_<<position, custody>>
  <2>1. MissionInv /\ MissionStep => Agrees
    BY HandoffStep
  <2>2. UNCHANGED missionVars => UNCHANGED <<position, custody>>
    BY DEF missionVars
  <2> HIDE DEF Agrees
  <2>3. QED
    BY <2>1, <2>2, AdviceStepOfMission
<1>2. QED
  BY <1>1, MissionIsInOrder, PTL DEF AdviceSpec, HandoffsAgree

-----------------------------------------------------------------------------
(* The sorting keys.                                                         *)

(* The pairs of S that one of the sorting keys puts in this order. *)
EarlierId(S) == {p \in S \X S : IdOf(p[1]) < IdOf(p[2])}
EarlierKey(S) == {p \in S \X S : SortKeyBefore(p[1], p[2])}
Closer(S) == {p \in S \X S :
                \/ distance[p[1]] < distance[p[2]]
                \/ distance[p[1]] = distance[p[2]] /\ IdOf(p[1]) < IdOf(p[2])}

-----------------------------------------------------------------------------
(* The traffic.                                                             *)

AllIds == {Ids[i] : i \in DOMAIN Ids}

(* Who is present has an id and a distance. *)
AdviceInv ==
  /\ MissionInv
  /\ Away[position.cell] \in Nat
  /\ Present \subseteq AllIds
  /\ DOMAIN distance = Present
  /\ \A a \in Present : distance[a] \in Nat

LEMMA IdsTellApart ==
  /\ \A a \in AllIds : IdOf(a) \in Nat /\ a \in DOMAIN Type
  /\ \A a, b \in AllIds : IdOf(a) = IdOf(b) => a = b
  /\ NoAircraft \notin AllIds /\ Patrol \in AllIds
  /\ IsFiniteSet(AllIds)
<1> DEFINE n == Len(Others) + 1
<1>1. /\ n \in Nat /\ DOMAIN Ids = 1 .. n
      /\ Ids[n] = Patrol
      /\ \A i \in 1 .. n : Ids[i] \in DOMAIN Type
  BY AdviceAssumption DEF Ids
<1> HIDE DEF n
<1>2. ASSUME NEW a \in AllIds
      PROVE  IdOf(a) \in 1 .. n /\ Ids[IdOf(a)] = a
  BY <1>1 DEF AllIds, IdOf
<1>3. \A a \in AllIds : a \in DOMAIN Type
  BY <1>1 DEF AllIds
<1>4. Patrol \in AllIds
  <2>1. n \in 1 .. n
    BY AdviceAssumption DEF n
  <2>2. QED
    BY <1>1, <2>1 DEF AllIds
<1>5. IsFiniteSet(AllIds)
  <2> DEFINE f == [a \in AllIds |-> IdOf(a)]
  <2>1. f \in Injection(AllIds, 1 .. n)
    BY <1>2 DEF Injection, IsInjective
  <2>2. IsFiniteSet(1 .. n)
    BY <1>1, FS_Interval
  <2> HIDE DEF f
  <2>3. QED
    BY <2>1, <2>2, FS_Injection
<1>6. QED
  BY <1>1, <1>2, <1>3, <1>4, <1>5, AdviceAssumption

LEMMA SubsetsAreFinite ==
  ASSUME NEW S, S \subseteq AllIds
  PROVE  IsFiniteSet(S) /\ Cardinality(S) \in Nat
BY IdsTellApart, FS_Subset, FS_CardinalityType

LEMMA ByIdLists ==
  ASSUME NEW S, S \subseteq AllIds
  PROVE  ListsBy(ById(S), S, EarlierId(S))
<1>1. StrictlyOrders(EarlierId(S), S)
  <2>1. \A a \in S : IdOf(a) \in Nat
    BY IdsTellApart
  <2>2. \A a, b \in S : a # b => IdOf(a) # IdOf(b)
    BY IdsTellApart
  <2>3. QED
    BY <2>1, <2>2 DEF StrictlyOrders, EarlierId
<1>2. PICK o : o = ById(S)
  OBVIOUS
<1>3. o = [r \in 1 .. Cardinality(S) |->
            CHOOSE a \in S : Cardinality({b \in S \ {a} : IdOf(b) < IdOf(a)}) = r - 1]
  BY <1>2, Zenon DEF ById, Sorted
<1>4. \A a \in S : {b \in S \ {a} : IdOf(b) < IdOf(a)} = {b \in S \ {a} : <<b, a>> \in EarlierId(S)}
  BY DEF EarlierId
<1>5. ASSUME NEW r \in 1 .. Cardinality(S),
             \E a \in S : Cardinality({b \in S \ {a} : <<b, a>> \in EarlierId(S)}) = r - 1
      PROVE  o[r] \in S /\ Cardinality({b \in S \ {o[r]} : <<b, o[r]>> \in EarlierId(S)}) = r - 1
  <2>1. \E a \in S : Cardinality({b \in S \ {a} : IdOf(b) < IdOf(a)}) = r - 1
    BY <1>4, <1>5
  <2>2. o[r] = CHOOSE a \in S : Cardinality({b \in S \ {a} : IdOf(b) < IdOf(a)}) = r - 1
    BY <1>3, Zenon
  <2>3. o[r] \in S /\ Cardinality({b \in S \ {o[r]} : IdOf(b) < IdOf(o[r])}) = r - 1
    BY <2>1, <2>2
  <2>4. QED
    BY <1>4, <2>3
<1>6. o = [r \in 1 .. Cardinality(S) |-> o[r]]
  <2> DEFINE c(r) == CHOOSE a \in S : Cardinality({b \in S \ {a} : IdOf(b) < IdOf(a)}) = r - 1
  <2>1. o = [r \in 1 .. Cardinality(S) |-> c(r)]
    BY <1>3
  <2> HIDE DEF c
  <2>2. QED
    BY <2>1
<1>7. IsFiniteSet(S)
  BY SubsetsAreFinite
<1>8. ListsBy(o, S, EarlierId(S))
  BY <1>1, <1>5, <1>6, <1>7, SortedLists
<1>9. QED
  BY <1>2, <1>8

LEMMA KeysOrder ==
  ASSUME AdviceInv, NEW S, S \subseteq Present
  PROVE  StrictlyOrders(EarlierKey(S), S) /\ StrictlyOrders(Closer(S), S)
<1>1. \A a \in S : IdOf(a) \in Nat /\ distance[a] \in Nat
  BY IdsTellApart DEF AdviceInv
<1>2. \A a, b \in S : a # b => IdOf(a) # IdOf(b)
  BY IdsTellApart DEF AdviceInv
<1>3. \A a \in S : PhaseRank(a) \in 0 .. 3
  BY DEF PhaseRank
<1>4. StrictlyOrders(EarlierKey(S), S)
  <2>1. \A a, b \in S : <<a, b>> \in EarlierKey(S) <=> SortKeyBefore(a, b)
    BY DEF EarlierKey
  <2>2. \A a \in S : ~ SortKeyBefore(a, a)
    BY <1>1, <1>3 DEF SortKeyBefore
  <2>3. \A a, b \in S : a # b => SortKeyBefore(a, b) \/ SortKeyBefore(b, a)
    BY <1>1, <1>2, <1>3 DEF SortKeyBefore
  <2>4. \A a, b, c \in S : SortKeyBefore(a, b) /\ SortKeyBefore(b, c) => SortKeyBefore(a, c)
    BY <1>1, <1>3 DEF SortKeyBefore
  <2>5. QED
    BY <2>1, <2>2, <2>3, <2>4 DEF StrictlyOrders
<1>5. StrictlyOrders(Closer(S), S)
  <2>1. \A a, b \in S : <<a, b>> \in Closer(S) <=>
                          \/ distance[a] < distance[b]
                          \/ distance[a] = distance[b] /\ IdOf(a) < IdOf(b)
    BY DEF Closer
  <2>2. QED
    BY <1>1, <1>2, <2>1 DEF StrictlyOrders
<1>6. QED
  BY <1>4, <1>5

LEMMA BaselineLists ==
  ASSUME AdviceInv
  PROVE  ListsBy(BaselineOrder, ArrivalStream, EarlierKey(ArrivalStream))
<1> DEFINE S == ArrivalStream
<1>1. S \subseteq Present /\ IsFiniteSet(S)
  BY SubsetsAreFinite DEF ArrivalStream, AdviceInv
<1> HIDE DEF S
<1>2. PICK o : o = BaselineOrder
  OBVIOUS
<1>3. o = [r \in 1 .. Cardinality(S) |->
            CHOOSE a \in S : Cardinality({b \in S \ {a} : SortKeyBefore(b, a)}) = r - 1]
  BY <1>2, Zenon DEF BaselineOrder, Sorted, S
<1>4. \A a \in S : {b \in S \ {a} : SortKeyBefore(b, a)} = {b \in S \ {a} : <<b, a>> \in EarlierKey(S)}
  BY DEF EarlierKey
<1>5. ASSUME NEW r \in 1 .. Cardinality(S),
             \E a \in S : Cardinality({b \in S \ {a} : <<b, a>> \in EarlierKey(S)}) = r - 1
      PROVE  o[r] \in S /\ Cardinality({b \in S \ {o[r]} : <<b, o[r]>> \in EarlierKey(S)}) = r - 1
  <2>1. \E a \in S : Cardinality({b \in S \ {a} : SortKeyBefore(b, a)}) = r - 1
    BY <1>4, <1>5
  <2>2. o[r] = CHOOSE a \in S : Cardinality({b \in S \ {a} : SortKeyBefore(b, a)}) = r - 1
    BY <1>3, Zenon
  <2>3. o[r] \in S /\ Cardinality({b \in S \ {o[r]} : SortKeyBefore(b, o[r])}) = r - 1
    BY <2>1, <2>2
  <2>4. QED
    BY <1>4, <2>3
<1>6. o = [r \in 1 .. Cardinality(S) |-> o[r]]
  <2> DEFINE c(r) == CHOOSE a \in S : Cardinality({b \in S \ {a} : SortKeyBefore(b, a)}) = r - 1
  <2>1. o = [r \in 1 .. Cardinality(S) |-> c(r)]
    BY <1>3
  <2> HIDE DEF c
  <2>2. QED
    BY <2>1
<1>7. ListsBy(o, S, EarlierKey(S))
  BY <1>1, <1>5, <1>6, KeysOrder, SortedLists
<1>8. QED
  BY <1>2, <1>7 DEF S

(* The runway has a slot for whoever is on the way to it, and no other. *)
LEMMA RunwayServesAll ==
  ASSUME AdviceInv
  PROVE  {RunwaySequence[i].aircraft : i \in DOMAIN RunwaySequence} = ArrivalStream
<1> DEFINE S == ArrivalStream
           before(b, a) == \/ distance[b] < distance[a]
                           \/ distance[b] = distance[a] /\ IdOf(b) < IdOf(a)
<1>1. S \subseteq Present /\ IsFiniteSet(S)
  BY SubsetsAreFinite DEF ArrivalStream, AdviceInv
<1> HIDE DEF S
<1>2. PICK o : o = Sorted(S, before)
  OBVIOUS
<1>3. o = [r \in 1 .. Cardinality(S) |->
            CHOOSE a \in S : Cardinality({b \in S \ {a} : before(b, a)}) = r - 1]
  BY <1>2, Zenon DEF Sorted
<1>4. \A a \in S : {b \in S \ {a} : before(b, a)} = {b \in S \ {a} : <<b, a>> \in Closer(S)}
  BY DEF Closer
<1>0. DOMAIN RunwaySequence = DOMAIN o /\ \A i \in DOMAIN o : RunwaySequence[i].aircraft = o[i]
  BY <1>2 DEF RunwaySequence, S
<1> HIDE DEF before
<1>5. ASSUME NEW r \in 1 .. Cardinality(S),
             \E a \in S : Cardinality({b \in S \ {a} : <<b, a>> \in Closer(S)}) = r - 1
      PROVE  o[r] \in S /\ Cardinality({b \in S \ {o[r]} : <<b, o[r]>> \in Closer(S)}) = r - 1
  <2>1. \E a \in S : Cardinality({b \in S \ {a} : before(b, a)}) = r - 1
    BY <1>4, <1>5
  <2>2. o[r] = CHOOSE a \in S : Cardinality({b \in S \ {a} : before(b, a)}) = r - 1
    BY <1>3, Zenon
  <2>3. o[r] \in S /\ Cardinality({b \in S \ {o[r]} : before(b, o[r])}) = r - 1
    BY <2>1, <2>2
  <2>4. QED
    BY <1>4, <2>3
<1>6. o = [r \in 1 .. Cardinality(S) |-> o[r]]
  <2> DEFINE c(r) == CHOOSE a \in S : Cardinality({b \in S \ {a} : before(b, a)}) = r - 1
  <2>1. o = [r \in 1 .. Cardinality(S) |-> c(r)]
    BY <1>3
  <2> HIDE DEF c
  <2>2. QED
    BY <2>1
<1>7. ListsBy(o, S, Closer(S))
  BY <1>1, <1>5, <1>6, KeysOrder, SortedLists
<1>8. DOMAIN o = 1 .. Cardinality(S)
  BY <1>7 DEF ListsBy
<1>9. {RunwaySequence[i].aircraft : i \in DOMAIN RunwaySequence} = {o[i] : i \in 1 .. Cardinality(S)}
  BY <1>0, <1>8
<1>10. {o[i] : i \in 1 .. Cardinality(S)} = S
  BY <1>7 DEF ListsBy
<1>11. QED
  BY <1>9, <1>10 DEF S

-----------------------------------------------------------------------------
(* The emergency among the arrivals.                                        *)

(* The emergency is one of the aircraft present, hence on its way in. *)
LEMMA EmergencyIsPresent ==
  ASSUME AdviceInv, EmergencyAircraft # NoAircraft
  PROVE  EmergencyAircraft \in Present /\ EmergencyAircraft \in ArrivalStream
<1> DEFINE urgent == declared \cap Present
<1>1. urgent # {} /\ EmergencyAircraft = ById(urgent)[1]
  BY DEF EmergencyAircraft
<1>2. urgent \subseteq AllIds /\ urgent \subseteq Present
  BY DEF AdviceInv
<1> HIDE DEF urgent
<1>3. ListsBy(ById(urgent), urgent, EarlierId(urgent))
  BY <1>2, ByIdLists
<1>4. 1 \in 1 .. Cardinality(urgent)
  BY <1>1, <1>2, SubsetsAreFinite, FS_EmptySet
<1>5. EmergencyAircraft \in urgent
  BY <1>1, <1>3, <1>4 DEF ListsBy
<1>6. QED
  BY <1>2, <1>5 DEF ArrivalStream

(* In a list every member has one place. *)
LEMMA PlacesInList ==
  ASSUME NEW S, NEW R, NEW o, ListsBy(o, S, R), Cardinality(S) \in Nat
  PROVE  /\ \A a \in S : Place(o, a) \in 1 .. Cardinality(S) /\ o[Place(o, a)] = a
         /\ \A i \in 1 .. Cardinality(S) : o[i] \in S /\ Place(o, o[i]) = i
<1>1. \A i, j \in 1 .. Cardinality(S) : o[i] = o[j] => i = j
  <2> SUFFICES ASSUME NEW i \in 1 .. Cardinality(S), NEW j \in 1 .. Cardinality(S), o[i] = o[j]
               PROVE  i = j
    OBVIOUS
  <2>1. /\ <<o[i], o[i]>> \in R <=> i < i
        /\ <<o[i], o[j]>> \in R <=> i < j
        /\ <<o[j], o[i]>> \in R <=> j < i
    BY DEF ListsBy
  <2>2. QED
    BY <2>1
<1>2. DOMAIN o = 1 .. Cardinality(S)
  BY DEF ListsBy
<1>3. ASSUME NEW a \in S
      PROVE  Place(o, a) \in 1 .. Cardinality(S) /\ o[Place(o, a)] = a
  <2>1. \E i \in DOMAIN o : o[i] = a
    BY <1>2 DEF ListsBy
  <2>2. QED
    BY <1>2, <2>1 DEF Place
<1>4. ASSUME NEW i \in 1 .. Cardinality(S)
      PROVE  o[i] \in S /\ Place(o, o[i]) = i
  <2>1. o[i] \in S
    BY DEF ListsBy
  <2>2. QED
    BY <1>1, <1>3, <2>1
<1>5. QED
  BY <1>3, <1>4

(* First come, first served has the stabilised arrivals in front. *)
LEMMA StabilisedInFront ==
  ASSUME AdviceInv, NEW i \in 1 .. Cardinality(ArrivalStream),
         NEW j \in 1 .. Cardinality(ArrivalStream), i < j,
         BaselineOrder[j] \in StabilisedAircraft
  PROVE  BaselineOrder[i] \in StabilisedAircraft
<1>1. ListsBy(BaselineOrder, ArrivalStream, EarlierKey(ArrivalStream))
  BY BaselineLists
<1>2. PICK a : a = BaselineOrder[i]
  OBVIOUS
<1>3. PICK b : b = BaselineOrder[j]
  OBVIOUS
<1>4. a \in ArrivalStream /\ b \in ArrivalStream /\ <<a, b>> \in EarlierKey(ArrivalStream)
  BY <1>1, <1>2, <1>3 DEF ListsBy
<1>5. SortKeyBefore(a, b)
  BY <1>4 DEF EarlierKey
<1>6. PhaseRank(a) <= PhaseRank(b)
  <2>1. PhaseRank(a) \in 0 .. 3 /\ PhaseRank(b) \in 0 .. 3
    BY DEF PhaseRank
  <2>2. QED
    BY <1>5, <2>1 DEF SortKeyBefore
<1>7. flightPhase[b] \in Stabilised
  BY <1>3 DEF StabilisedAircraft
<1>8. PhaseRank(b) <= 1
  BY <1>7 DEF PhaseRank, Stabilised
<1>9. PhaseRank(a) \in 0 .. 3
  BY DEF PhaseRank
<1>10. PhaseRank(a) \in 0 .. 1
  <2>1. PhaseRank(b) \in 0 .. 3
    BY DEF PhaseRank
  <2>2. QED
    BY <1>6, <1>8, <1>9, <2>1
<1>11. flightPhase[a] \in Stabilised
  BY <1>10 DEF PhaseRank, Stabilised
<1>12. QED
  BY <1>2, <1>4, <1>11 DEF StabilisedAircraft

(* An arrival that the baseline has at place j, the emergency at place p,   *)
(* is at this place of the new order: cut arrivals are kept in front.       *)
RestPlace(j, p) == IF j < p THEN j ELSE j - 1
NewPlace(j, p, cut) == IF RestPlace(j, p) <= cut THEN RestPlace(j, p) ELSE RestPlace(j, p) + 1

(* The order o is the baseline b of n arrivals with the emergency taken     *)
(* from place p and put behind all that are stabilised and no other.        *)
Reordered(o, b, n, p, cut, e) ==
  /\ o \in [1 .. n -> ArrivalStream]
  /\ o[cut + 1] = e
  /\ \A j \in 1 .. n \ {p} :
       /\ o[NewPlace(j, p, cut)] = b[j]
       /\ b[j] \in StabilisedAircraft <=> RestPlace(j, p) <= cut

LEMMA InsertedBehindStabilised ==
  ASSUME AdviceInv, NEW e, e = EmergencyAircraft, e # NoAircraft,
         NEW b, b = BaselineOrder, NEW n, n = Cardinality(ArrivalStream)
  PROVE  /\ n \in Nat \ {0} /\ Place(b, e) \in 1 .. n
         /\ \E cut \in 0 .. n - 1 :
              Reordered(InsertedEmergency(b, e), b, n, Place(b, e), cut, e)
<1>1. ListsBy(b, ArrivalStream, EarlierKey(ArrivalStream)) /\ n \in Nat
  <2>1. ArrivalStream \subseteq AllIds
    BY DEF AdviceInv, ArrivalStream
  <2>2. QED
    BY <2>1, BaselineLists, SubsetsAreFinite
<1>2. e \in ArrivalStream
  BY EmergencyIsPresent
<1>3. PICK p \in 1 .. n : p = Place(b, e) /\ b[p] = e
  BY <1>1, <1>2, PlacesInList
<1>4. n \in Nat \ {0} /\ n - 1 \in Nat
  BY <1>1, <1>3
<1>5. b \in [1 .. n -> ArrivalStream]
  BY <1>1 DEF ListsBy
<1>6. PICK rest \in [1 .. n - 1 -> ArrivalStream] :
        /\ rest = SubSeq(b, 1, p - 1) \o SubSeq(b, p + 1, Len(b))
        /\ \A i \in 1 .. n - 1 : rest[i] = IF i < p THEN b[i] ELSE b[i + 1]
  <2>1. n \in Nat
    BY <1>4
  <2>2. PICK s \in [1 .. n - 1 -> ArrivalStream] :
          /\ s = SubSeq(b, 1, p - 1) \o SubSeq(b, p + 1, Len(b))
          /\ LacksPlace(s, n, b, p)
    BY <1>5, <2>1, TakenFromSequence
  <2>3. QED
    BY <2>2 DEF LacksPlace
<1>7. Len(rest) = n - 1
  BY <1>4, FunctionIsSequence
<1> DEFINE keptOf(r) == {m \in 0 .. Len(r) : \A i \in 1 .. m : r[i] \in StabilisedAircraft}
           cutOf(r) == CHOOSE m \in keptOf(r) : \A l \in keptOf(r) : l <= m
           insertedInto(r) == SubSeq(r, 1, cutOf(r)) \o <<e>> \o SubSeq(r, cutOf(r) + 1, Len(r))
           kept == keptOf(rest)
<1>8. PICK cut : cut = CHOOSE m \in kept : \A l \in kept : l <= m
  OBVIOUS
<1>9. kept \subseteq 0 .. n - 1 /\ 0 \in kept
  BY <1>4, <1>7
<1>10. cut \in kept /\ \A l \in kept : l <= cut
  <2> HIDE DEF kept
  <2>1. \E m \in kept : \A l \in kept : l <= m
    BY <1>4, <1>9, GreatestExists
  <2>2. QED
    BY <1>8, <2>1
<1>11. cut \in 0 .. n - 1 /\ \A i \in 1 .. cut : rest[i] \in StabilisedAircraft
  BY <1>9, <1>10
<1>12. InsertedEmergency(b, e) = SubSeq(rest, 1, cut) \o <<e>> \o SubSeq(rest, cut + 1, Len(rest))
  <2>1. InsertedEmergency(b, e) =
          insertedInto(SubSeq(b, 1, Place(b, e) - 1) \o SubSeq(b, Place(b, e) + 1, Len(b)))
    BY Zenon DEF InsertedEmergency
  <2>2. insertedInto(rest) = SubSeq(rest, 1, cut) \o <<e>> \o SubSeq(rest, cut + 1, Len(rest))
    <3> HIDE DEF keptOf
    <3>1. QED
      BY <1>8
  <2> HIDE DEF insertedInto
  <2>3. QED
    BY <1>3, <1>6, <2>1, <2>2
<1>13. PICK o \in [1 .. n -> ArrivalStream] :
         /\ o = InsertedEmergency(b, e)
         /\ PutBehind(o, n - 1, rest, e, cut)
  <2>1. (n - 1) + 1 = n
    BY <1>4
  <2>2. PICK s \in [1 .. (n - 1) + 1 -> ArrivalStream] :
          /\ s = SubSeq(rest, 1, cut) \o <<e>> \o SubSeq(rest, cut + 1, Len(rest))
          /\ PutBehind(s, n - 1, rest, e, cut)
    BY <1>2, <1>4, <1>6, <1>11, PutIntoSequence
  <2>3. s \in [1 .. n -> ArrivalStream]
    BY <2>1
  <2>4. QED
    BY <1>12, <2>2, <2>3
<1> HIDE DEF kept
<1>14. \A i \in 1 .. n : o[i] = IF i <= cut THEN rest[i] ELSE IF i = cut + 1 THEN e ELSE rest[i - 1]
  <2>1. (n - 1) + 1 = n
    BY <1>4
  <2>2. QED
    BY <1>13, <2>1 DEF PutBehind
<1>15. ASSUME NEW i \in 1 .. n - 1, rest[i] \in StabilisedAircraft
       PROVE  i <= cut
  <2>1. ASSUME NEW k \in 1 .. i PROVE rest[k] \in StabilisedAircraft
    <3>1. CASE k = i
      BY <1>15, <3>1
    <3>2. CASE k # i
      <4>1. k < i /\ k \in 1 .. n - 1
        BY <1>4, <3>2
      <4>2. PICK x : x = IF i < p THEN i ELSE i + 1
        OBVIOUS
      <4>3. PICK y : y = IF k < p THEN k ELSE k + 1
        OBVIOUS
      <4>4. rest[i] = b[x] /\ rest[k] = b[y]
        BY <1>6, <4>1, <4>2, <4>3
      <4>5. x \in 1 .. n /\ y \in 1 .. n /\ y < x
        BY <1>3, <1>4, <4>1, <4>2, <4>3
      <4>6. BaselineOrder[x] \in StabilisedAircraft
        BY <1>15, <4>4
      <4>7. BaselineOrder[y] \in StabilisedAircraft
        BY <4>5, <4>6, StabilisedInFront
      <4>8. QED
        BY <4>7, <4>4
    <3>3. QED
      BY <3>1, <3>2
  <2>2. i \in kept
    BY <1>4, <1>7, <2>1 DEF kept
  <2>3. QED
    BY <1>10, <2>2
<1>16. o[cut + 1] = e
  BY <1>4, <1>11, <1>14
<1>17. ASSUME NEW j \in 1 .. n \ {p}
       PROVE  /\ o[NewPlace(j, p, cut)] = b[j]
              /\ b[j] \in StabilisedAircraft <=> RestPlace(j, p) <= cut
  <2>1. PICK r : r = RestPlace(j, p)
    OBVIOUS
  <2>2. r \in 1 .. n - 1 /\ rest[r] = b[j]
    <3>1. CASE j < p
      <4>1. r = j /\ r \in 1 .. n - 1 /\ r < p
        BY <1>3, <1>4, <2>1, <3>1 DEF RestPlace
      <4>2. QED
        BY <1>6, <4>1
    <3>2. CASE ~ (j < p)
      <4>1. r = j - 1 /\ r \in 1 .. n - 1 /\ ~ (r < p) /\ r + 1 = j
        BY <1>3, <1>4, <2>1, <3>2 DEF RestPlace
      <4>2. QED
        BY <1>6, <4>1
    <3>3. QED
      BY <3>1, <3>2
  <2>3. NewPlace(j, p, cut) = IF r <= cut THEN r ELSE r + 1
    BY <2>1 DEF NewPlace
  <2>4. o[NewPlace(j, p, cut)] = rest[r]
    <3>1. CASE r <= cut
      <4>1. NewPlace(j, p, cut) = r /\ r \in 1 .. n
        BY <1>4, <2>2, <2>3, <3>1
      <4>2. QED
        BY <1>14, <3>1, <4>1
    <3>2. CASE ~ (r <= cut)
      <4>1. /\ NewPlace(j, p, cut) = r + 1 /\ r + 1 \in 1 .. n
            /\ ~ (r + 1 <= cut) /\ r + 1 # cut + 1 /\ (r + 1) - 1 = r
        BY <1>4, <1>11, <2>2, <2>3, <3>2
      <4>2. QED
        BY <1>14, <4>1
    <3>3. QED
      BY <3>1, <3>2
  <2>5. rest[r] \in StabilisedAircraft <=> r <= cut
    <3>1. r <= cut => r \in 1 .. cut
      BY <1>11, <2>2
    <3>2. QED
      BY <1>11, <1>15, <2>2, <3>1
  <2>6. QED
    BY <2>1, <2>2, <2>4, <2>5
<1>18. Reordered(o, b, n, p, cut, e)
  BY <1>13, <1>16, <1>17 DEF Reordered
<1>19. QED
  BY <1>3, <1>4, <1>11, <1>13, <1>18

(* The places of the new order are those of the old, in the same sequence,  *)
(* with the emergency's in between.                                         *)
LEMMA NewPlaces ==
  ASSUME NEW n \in Nat \ {0}, NEW p \in 1 .. n, NEW cut \in 0 .. n - 1
  PROVE  /\ \A j \in 1 .. n \ {p} : NewPlace(j, p, cut) \in 1 .. n /\ NewPlace(j, p, cut) # cut + 1
         /\ \A k \in 1 .. n : k # cut + 1 => \E j \in 1 .. n \ {p} : NewPlace(j, p, cut) = k
         /\ \A i, j \in 1 .. n \ {p} : NewPlace(i, p, cut) < NewPlace(j, p, cut) <=> i < j
<1>1. ASSUME NEW j \in 1 .. n \ {p}
      PROVE  NewPlace(j, p, cut) \in 1 .. n /\ NewPlace(j, p, cut) # cut + 1
  BY DEF NewPlace, RestPlace
<1>2. ASSUME NEW k \in 1 .. n, k # cut + 1
      PROVE  \E j \in 1 .. n \ {p} : NewPlace(j, p, cut) = k
  <2>1. PICK r : r = IF k <= cut THEN k ELSE k - 1
    OBVIOUS
  <2>2. r \in 1 .. n - 1 /\ k = IF r <= cut THEN r ELSE r + 1
    BY <1>2, <2>1
  <2>3. PICK j : j = IF r < p THEN r ELSE r + 1
    OBVIOUS
  <2>4. j \in 1 .. n \ {p} /\ r = IF j < p THEN j ELSE j - 1
    BY <2>2, <2>3
  <2>5. NewPlace(j, p, cut) = k
    BY <2>2, <2>4 DEF NewPlace, RestPlace
  <2>6. QED
    BY <2>4, <2>5
<1>3. ASSUME NEW i \in 1 .. n \ {p}, NEW j \in 1 .. n \ {p}
      PROVE  NewPlace(i, p, cut) < NewPlace(j, p, cut) <=> i < j
  <2>1. PICK r : r = RestPlace(i, p)
    OBVIOUS
  <2>2. PICK s : s = RestPlace(j, p)
    OBVIOUS
  <2>3. r \in 1 .. n /\ s \in 1 .. n /\ (r < s <=> i < j)
    BY <2>1, <2>2 DEF RestPlace
  <2>4. /\ NewPlace(i, p, cut) = IF r <= cut THEN r ELSE r + 1
        /\ NewPlace(j, p, cut) = IF s <= cut THEN s ELSE s + 1
    BY <2>1, <2>2 DEF NewPlace
  <2>5. QED
    BY <2>3, <2>4
<1>4. QED
  BY <1>1, <1>2, <1>3

(* Where everybody is in the two orders. *)
LEMMA PlacesReordered ==
  ASSUME AdviceInv, EmergencyAircraft # NoAircraft
  PROVE  LET r == Resequencing
             e == EmergencyAircraft
             n == Cardinality(ArrivalStream)
         IN  /\ n \in Nat \ {0}
             /\ {r.order[i] : i \in DOMAIN r.order} = ArrivalStream
             /\ \A a \in ArrivalStream : Place(r.baseline, a) \in 1 .. n /\ r.baseline[Place(r.baseline, a)] = a
             /\ \A a, c \in ArrivalStream : a # c => Place(r.baseline, a) # Place(r.baseline, c)
             /\ \E cut \in 0 .. n - 1 :
                  /\ Place(r.order, e) = cut + 1
                  /\ \A a \in ArrivalStream \ {e} :
                       /\ Place(r.order, a) = NewPlace(Place(r.baseline, a), Place(r.baseline, e), cut)
                       /\ a \in StabilisedAircraft <=>
                            RestPlace(Place(r.baseline, a), Place(r.baseline, e)) <= cut
<1>1. PICK e : e = EmergencyAircraft
  OBVIOUS
<1>2. PICK b : b = BaselineOrder
  OBVIOUS
<1>3. PICK o : o = InsertedEmergency(b, e)
  OBVIOUS
<1>4. PICK n : n = Cardinality(ArrivalStream)
  OBVIOUS
<1>5. Resequencing.order = o /\ Resequencing.baseline = b
  BY <1>1, <1>2, <1>3 DEF Resequencing
<1>6. n \in Nat \ {0} /\ Place(b, e) \in 1 .. n
  BY <1>1, <1>2, <1>4, InsertedBehindStabilised
<1>7. PICK p \in 1 .. n : p = Place(b, e)
  BY <1>6
<1>8. PICK cut \in 0 .. n - 1 : Reordered(o, b, n, p, cut, e)
  BY <1>1, <1>2, <1>3, <1>4, <1>7, InsertedBehindStabilised
<1>9. ListsBy(b, ArrivalStream, EarlierKey(ArrivalStream))
  BY <1>2, BaselineLists
<1>10. /\ \A a \in ArrivalStream : Place(b, a) \in 1 .. n /\ b[Place(b, a)] = a
       /\ \A i \in 1 .. n : b[i] \in ArrivalStream /\ Place(b, b[i]) = i
  BY <1>4, <1>6, <1>9, PlacesInList
<1>11. e \in ArrivalStream
  BY <1>1, EmergencyIsPresent
<1>12. \A a \in ArrivalStream \ {e} : Place(b, a) \in 1 .. n \ {p}
  BY <1>7, <1>10, <1>11
<1>13. /\ o \in [1 .. n -> ArrivalStream]
       /\ o[cut + 1] = e
       /\ \A j \in 1 .. n \ {p} :
            /\ o[NewPlace(j, p, cut)] = b[j]
            /\ b[j] \in StabilisedAircraft <=> RestPlace(j, p) <= cut
  BY <1>8 DEF Reordered
<1>14. /\ \A j \in 1 .. n \ {p} : NewPlace(j, p, cut) \in 1 .. n /\ NewPlace(j, p, cut) # cut + 1
       /\ \A k \in 1 .. n : k # cut + 1 => \E j \in 1 .. n \ {p} : NewPlace(j, p, cut) = k
  BY <1>6, NewPlaces
<1>15. cut + 1 \in 1 .. n
  BY <1>6
<1>16. DOMAIN o = 1 .. n
  BY <1>13
<1>17. \A j \in 1 .. n \ {p} : b[j] # e
  BY <1>7, <1>10
<1>18. Place(o, e) = cut + 1
  <2>1. \A k \in 1 .. n : o[k] = e => k = cut + 1
    BY <1>13, <1>14, <1>17
  <2>2. QED
    BY <1>13, <1>15, <1>16, <2>1 DEF Place
<1>19. ASSUME NEW a \in ArrivalStream \ {e}
       PROVE  /\ Place(o, a) = NewPlace(Place(b, a), p, cut)
              /\ a \in StabilisedAircraft <=> RestPlace(Place(b, a), p) <= cut
  <2>1. PICK j \in 1 .. n \ {p} : j = Place(b, a) /\ b[j] = a
    BY <1>10, <1>12
  <2>2. PICK k \in 1 .. n : k = NewPlace(j, p, cut) /\ o[k] = a
    BY <1>13, <1>14, <2>1
  <2>3. ASSUME NEW l \in 1 .. n, o[l] = a
        PROVE  l = k
    <3>1. l # cut + 1
      BY <1>13, <2>3
    <3>2. PICK i \in 1 .. n \ {p} : NewPlace(i, p, cut) = l
      BY <1>14, <3>1
    <3>3. b[i] = a
      BY <1>13, <2>3, <3>2
    <3>4. i = j
      BY <1>10, <2>1, <3>3
    <3>5. QED
      BY <2>2, <3>2, <3>4
  <2>4. Place(o, a) = k
    BY <1>16, <2>2, <2>3 DEF Place
  <2>5. QED
    BY <1>13, <2>1, <2>2, <2>4
<1>20. {o[i] : i \in DOMAIN o} = ArrivalStream
  <2>1. ASSUME NEW a \in ArrivalStream PROVE \E i \in 1 .. n : o[i] = a
    <3>1. CASE a = e
      BY <1>13, <1>15, <3>1
    <3>2. CASE a # e
      <4>1. PICK j \in 1 .. n \ {p} : j = Place(b, a) /\ b[j] = a
        BY <1>10, <1>12, <3>2
      <4>2. QED
        BY <1>13, <1>14, <4>1
    <3>3. QED
      BY <3>1, <3>2
  <2>2. QED
    BY <1>13, <1>16, <2>1
<1>21. \A a, c \in ArrivalStream : a # c => Place(b, a) # Place(b, c)
  BY <1>10
<1>22. QED
  BY <1>1, <1>4, <1>5, <1>6, <1>7, <1>10, <1>18, <1>19, <1>20, <1>21

-----------------------------------------------------------------------------
(* The traffic in every state.                                              *)

LEMMA InitAdvice == AdviceInit => AdviceInv
<1> SUFFICES ASSUME AdviceInit PROVE AdviceInv
  OBVIOUS
<1> DEFINE present == {Others[i] : i \in DOMAIN Others} \cup {Patrol}
<1>1. MissionInv /\ position = Apron
  BY InitMission DEF AdviceInit, MissionInit
<1>2. Away[position.cell] \in Nat
  BY <1>1, AdviceAssumption
<1>3. present \subseteq AllIds
  <2>1. ASSUME NEW i \in DOMAIN Others PROVE Others[i] \in AllIds
    <3>1. i \in DOMAIN Ids /\ Ids[i] = Others[i]
      BY AdviceAssumption DEF Ids
    <3>2. QED
      BY <3>1 DEF AllIds
  <2>2. QED
    BY <2>1, IdsTellApart
<1>4. PICK d \in [present \ {Patrol} -> Remaining] :
        /\ flightPhase = [a \in present |-> IF a = Patrol THEN "CLIMB" ELSE "DESCENT"]
        /\ distance = [a \in present |-> IF a = Patrol THEN 0 ELSE d[a]]
  BY DEF AdviceInit
<1> HIDE DEF present
<1>5. Present = present /\ DOMAIN distance = present
  BY <1>4 DEF Present
<1>6. \A a \in present : distance[a] \in Nat
  BY <1>4, AdviceAssumption
<1>7. QED
  BY <1>1, <1>2, <1>3, <1>5, <1>6 DEF AdviceInv

(* Nobody comes, distances stay natural. *)
LEMMA AdviceStep ==
  ASSUME AdviceInv, [AdviceNext]_adviceVars
  PROVE  AdviceInv'
<1>1. MissionInv'
  BY AdviceStepOfMission, MissionStepKeepsInv, MissionUnchanged DEF AdviceInv
<1>2. Away[position'.cell] \in Nat
  <2>1. CASE UNCHANGED position
    BY <2>1 DEF AdviceInv
  <2>2. ASSUME NEW pending, Fly(pending) PROVE Away[position'.cell] \in Nat
    BY <2>2, AdviceAssumption DEF Fly
  <2>3. MissionStep => UNCHANGED position \/ \E pending : Fly(pending)
    BY DEF MissionStep, TakeOff, Land, DeclareRecovery
  <2>4. QED
    BY <2>1, <2>2, <2>3, AdviceStepOfMission DEF missionVars
<1>3. Present \subseteq AllIds /\ DOMAIN distance = Present /\ \A a \in Present : distance[a] \in Nat
  BY DEF AdviceInv
<1> DEFINE Traffic == /\ DOMAIN flightPhase' \subseteq AllIds
                      /\ DOMAIN distance' = DOMAIN flightPhase'
                      /\ \A a \in DOMAIN flightPhase' : distance'[a] \in Nat
<1>10. ASSUME PatrolDeclares PROVE Traffic
  BY <1>3, <1>10 DEF PatrolDeclares, Present
<1>4. ASSUME PatrolFlies PROVE Traffic
  <2>1. /\ DOMAIN flightPhase' = Present /\ Patrol \in Present
        /\ distance' = [distance EXCEPT ![Patrol] = Away[position'.cell]]
    BY <1>4 DEF PatrolFlies, Present
  <2>2. QED
    BY <1>2, <1>3, <2>1
<1>5. ASSUME NEW a \in Present, Descend(a) PROVE Traffic
  <2>1. /\ DOMAIN flightPhase' = Present
        /\ distance' = [distance EXCEPT ![a] = @ \div 2]
    BY <1>5 DEF Descend, Present
  <2>2. distance[a] \div 2 \in Nat
    BY <1>3
  <2>3. QED
    BY <1>3, <2>1, <2>2
<1>6. ASSUME NEW a \in Present, Leaves(a) PROVE Traffic
  <2>1. /\ flightPhase' = [b \in DOMAIN flightPhase \ {a} |-> flightPhase[b]]
        /\ distance' = [b \in DOMAIN distance \ {a} |-> distance[b]]
    BY <1>6 DEF Leaves, Without
  <2>2. QED
    BY <1>3, <2>1 DEF Present
<1>7. ASSUME Predict \/ UNCHANGED adviceVars \/ \E a \in Present : Declare(a)
      PROVE  Traffic
  <2>1. UNCHANGED <<flightPhase, distance>>
    BY <1>7 DEF Predict, adviceVars, Declare
  <2>2. QED
    BY <1>3, <2>1 DEF Present
<1>8. Traffic
  <2> HIDE DEF Traffic
  <2>1. QED
    BY <1>4, <1>10, <1>5, <1>6, <1>7 DEF AdviceNext
<1>9. QED
  BY <1>1, <1>2, <1>8 DEF AdviceInv, Present

(* Every aircraft of the picture has an id and a distance in every Step. *)
THEOREM AdviceIsInOrder == AdviceSpec => []AdviceInv
<1>1. QED
  BY InitAdvice, AdviceStep, PTL DEF AdviceSpec

-----------------------------------------------------------------------------
(* The order is fair.                                                       *)

(* Who is told to be displaced is. *)
LEMMA ToldDisplaced ==
  ASSUME NEW a \in ArrivalStream, "DISPLACED_BY_EMERGENCY" \in Resequencing.reasons[a]
  PROVE  a \in Resequencing.displaced
<1>1. PICK e : e = EmergencyAircraft
  OBVIOUS
<1>2. PICK moved : moved = Displaced(BaselineOrder, InsertedEmergency(BaselineOrder, e), e)
  OBVIOUS
<1>3. Resequencing.displaced = moved
  BY <1>1, <1>2 DEF Resequencing
<1>4. Resequencing.reasons[a] = Reasons(a, e, moved)
  BY <1>1, <1>2 DEF Resequencing
<1>5. "DISPLACED_BY_EMERGENCY" \in Reasons(a, e, moved) => a \in moved
  BY DEF Reasons
<1>6. QED
  BY <1>3, <1>4, <1>5

(* Without an emergency the order is that of first come, first served. *)
LEMMA NobodyInserted ==
  ASSUME AdviceInv, EmergencyAircraft = NoAircraft
  PROVE  /\ Resequencing.order = Resequencing.baseline
         /\ Resequencing.baseline = BaselineOrder
         /\ Resequencing.emergency = NoAircraft
         /\ Resequencing.displaced = {}
<1>1. InsertedEmergency(BaselineOrder, NoAircraft) = BaselineOrder
  BY Zenon DEF InsertedEmergency
<1>2. Displaced(BaselineOrder, BaselineOrder, NoAircraft) = {}
  <2>1. \A a \in ArrivalStream : Place(BaselineOrder, a) \in Int
    <3>1. ArrivalStream \subseteq AllIds
      BY DEF AdviceInv, ArrivalStream
    <3>2. Cardinality(ArrivalStream) \in Nat
      BY <3>1, SubsetsAreFinite
    <3>3. QED
      BY <3>2, BaselineLists, PlacesInList
  <2>2. QED
    BY <2>1 DEF Displaced
<1>3. QED
  BY <1>1, <1>2 DEF Resequencing

(* Only arrivals that are not yet stabilised and were in front of the       *)
(* emergency are moved back, and they are then behind it.                   *)
LEMMA MovedBehindEmergency ==
  ASSUME AdviceInv, EmergencyAircraft # NoAircraft, NEW a \in Resequencing.displaced
  PROVE  /\ a \in ArrivalStream \ {EmergencyAircraft} /\ a \notin StabilisedAircraft
         /\ EmergencyAircraft \notin StabilisedAircraft
         /\ Place(Resequencing.order, EmergencyAircraft) < Place(Resequencing.order, a)
<1>1. PICK e : e = EmergencyAircraft
  OBVIOUS
<1>2. PICK n \in Nat \ {0} : n = Cardinality(ArrivalStream)
  BY PlacesReordered
<1>3. PICK b : b = Resequencing.baseline
  OBVIOUS
<1>4. PICK o : o = Resequencing.order
  OBVIOUS
<1>5. /\ \A c \in ArrivalStream : Place(b, c) \in 1 .. n /\ b[Place(b, c)] = c
      /\ \A c, d \in ArrivalStream : c # d => Place(b, c) # Place(b, d)
      /\ \E cut \in 0 .. n - 1 :
           /\ Place(o, e) = cut + 1
           /\ \A c \in ArrivalStream \ {e} :
                /\ Place(o, c) = NewPlace(Place(b, c), Place(b, e), cut)
                /\ c \in StabilisedAircraft <=> RestPlace(Place(b, c), Place(b, e)) <= cut
  BY <1>1, <1>2, <1>3, <1>4, PlacesReordered
<1>6. PICK cut \in 0 .. n - 1 :
        /\ Place(o, e) = cut + 1
        /\ \A c \in ArrivalStream \ {e} :
             /\ Place(o, c) = NewPlace(Place(b, c), Place(b, e), cut)
             /\ c \in StabilisedAircraft <=> RestPlace(Place(b, c), Place(b, e)) <= cut
  BY <1>5
<1>7. a \in ArrivalStream /\ a # e /\ Place(o, a) > Place(b, a)
  <2>1. o = InsertedEmergency(BaselineOrder, e) /\ b = BaselineOrder
    BY <1>1, <1>3, <1>4 DEF Resequencing
  <2>2. Resequencing.displaced = Displaced(b, o, e)
    BY <1>1, <2>1 DEF Resequencing
  <2>3. QED
    BY <2>2 DEF Displaced
<1>8. e \in ArrivalStream
  BY <1>1, EmergencyIsPresent
<1>9. PICK p \in 1 .. n : p = Place(b, e) /\ b[p] = e
  BY <1>5, <1>8
<1>10. PICK j \in 1 .. n : j = Place(b, a) /\ b[j] = a
  BY <1>5, <1>7
<1>11. j # p
  BY <1>7, <1>9, <1>10
<1>12. NewPlace(j, p, cut) > j /\ Place(o, a) = NewPlace(j, p, cut)
  BY <1>6, <1>7, <1>9, <1>10
<1>13. j < p /\ j > cut /\ NewPlace(j, p, cut) > cut + 1 /\ ~ (RestPlace(j, p) <= cut)
  BY <1>11, <1>12 DEF NewPlace, RestPlace
<1>14. a \notin StabilisedAircraft
  BY <1>6, <1>7, <1>9, <1>10, <1>13
<1>15. e \notin StabilisedAircraft
  <2>1. b = BaselineOrder
    BY <1>3 DEF Resequencing
  <2>2. e \in StabilisedAircraft => a \in StabilisedAircraft
    BY <1>2, <1>9, <1>10, <1>13, <2>1, StabilisedInFront
  <2>3. QED
    BY <1>14, <2>2
<1>16. QED
  BY <1>1, <1>4, <1>6, <1>7, <1>12, <1>13, <1>14, <1>15

LEMMA OthersKeepTheirOrder ==
  ASSUME AdviceInv,
         NEW a \in ArrivalStream \ {EmergencyAircraft}, NEW c \in ArrivalStream \ {EmergencyAircraft}
  PROVE  Place(Resequencing.order, a) < Place(Resequencing.order, c)
           <=> Place(Resequencing.baseline, a) < Place(Resequencing.baseline, c)
<1>1. CASE EmergencyAircraft = NoAircraft
  BY <1>1, NobodyInserted
<1>2. CASE EmergencyAircraft # NoAircraft
  <2>1. PICK e : e = EmergencyAircraft
    OBVIOUS
  <2>2. PICK n \in Nat \ {0} : n = Cardinality(ArrivalStream)
    BY <1>2, PlacesReordered
  <2>3. PICK b : b = Resequencing.baseline
    OBVIOUS
  <2>4. PICK o : o = Resequencing.order
    OBVIOUS
  <2>5. /\ \A x \in ArrivalStream : Place(b, x) \in 1 .. n
        /\ \A x, y \in ArrivalStream : x # y => Place(b, x) # Place(b, y)
        /\ \E cut \in 0 .. n - 1 :
             \A x \in ArrivalStream \ {e} : Place(o, x) = NewPlace(Place(b, x), Place(b, e), cut)
    BY <1>2, <2>1, <2>2, <2>3, <2>4, PlacesReordered
  <2>6. PICK cut \in 0 .. n - 1 :
          \A x \in ArrivalStream \ {e} : Place(o, x) = NewPlace(Place(b, x), Place(b, e), cut)
    BY <2>5
  <2>7. e \in ArrivalStream
    BY <1>2, <2>1, EmergencyIsPresent
  <2>8. PICK p \in 1 .. n : p = Place(b, e)
    BY <2>5, <2>7
  <2>9. Place(b, a) \in 1 .. n \ {p} /\ Place(b, c) \in 1 .. n \ {p}
    BY <2>1, <2>5, <2>7, <2>8
  <2>10. /\ Place(o, a) = NewPlace(Place(b, a), p, cut)
         /\ Place(o, c) = NewPlace(Place(b, c), p, cut)
    BY <2>1, <2>6, <2>8
  <2>11. NewPlace(Place(b, a), p, cut) < NewPlace(Place(b, c), p, cut) <=> Place(b, a) < Place(b, c)
    BY <2>9, NewPlaces
  <2>12. QED
    BY <2>3, <2>4, <2>10, <2>11
<1>3. QED
  BY <1>1, <1>2

LEMMA FairInState == AdviceInv => OrderIsFair
<1> SUFFICES ASSUME AdviceInv PROVE OrderIsFair
  OBVIOUS
<1>1. PICK r : r = Resequencing
  OBVIOUS
<1>2. r.emergency = EmergencyAircraft /\ r.complete = SegmentComplete(EmergencyAircraft)
  BY <1>1 DEF Resequencing
<1>3. \A a, b \in ArrivalStream \ {r.emergency} :
        Place(r.order, a) < Place(r.order, b) <=> Place(r.baseline, a) < Place(r.baseline, b)
  BY <1>1, <1>2, OthersKeepTheirOrder
<1>4. CASE EmergencyAircraft = NoAircraft
  <2>1. r.displaced = {}
    BY <1>1, <1>4, NobodyInserted
  <2>2. \A a \in ArrivalStream : "DISPLACED_BY_EMERGENCY" \in r.reasons[a] => FALSE
    BY <1>1, <2>1, ToldDisplaced
  <2>3. QED
    BY <1>1, <1>3, <2>1, <2>2 DEF OrderIsFair
<1>5. CASE EmergencyAircraft # NoAircraft
  <2>1. \A a \in r.displaced : /\ a \in ArrivalStream /\ a \notin StabilisedAircraft
                               /\ EmergencyAircraft \notin StabilisedAircraft
                               /\ Place(r.order, EmergencyAircraft) < Place(r.order, a)
    BY <1>1, <1>5, MovedBehindEmergency
  <2>2. EmergencyAircraft \notin StabilisedAircraft => ~ r.complete
    BY <1>2, <1>5, EmergencyIsPresent DEF SegmentComplete, StabilisedAircraft
  <2>3. ASSUME NEW a \in ArrivalStream, "DISPLACED_BY_EMERGENCY" \in r.reasons[a]
        PROVE  Place(r.order, r.emergency) < Place(r.order, a) /\ ~ r.complete
    <3>1. a \in r.displaced
      BY <1>1, <2>3, ToldDisplaced
    <3>2. QED
      BY <1>2, <2>1, <2>2, <3>1
  <2>4. r.displaced \cap StabilisedAircraft = {}
    BY <2>1
  <2>5. QED
    BY <1>1, <1>3, <2>3, <2>4 DEF OrderIsFair
<1>6. QED
  BY <1>4, <1>5

(* The emergency is put behind the stabilised and costs nobody else a place *)
(* among the others, and who is told to be displaced is behind it while it  *)
(* is not over (resequencing_orchestrator.py: _insert_emergency, _entries). *)
THEOREM FairOrder == AdviceSpec => []OrderIsFair
<1>1. QED
  BY FairInState, AdviceIsInOrder, PTL

-----------------------------------------------------------------------------
(* The two orchestrators speak of the same traffic.                         *)

(* Who is held or refused is on its way down and not the emergency. *)
LEMMA WaitingAreDescending ==
  ASSUME AdviceInv, NEW e \in AllIds
  PROVE  Accounts(Holdings(e), {a \in Present \ {e} : flightPhase[a] = "DESCENT"})
<1> DEFINE S == {a \in Present \ {e} : flightPhase[a] = "DESCENT"}
           n == Cardinality(S)
<1>1. S \subseteq AllIds
  BY DEF AdviceInv
<1> HIDE DEF S
<1>2. PICK o : o = ById(S)
  OBVIOUS
<1>3. ListsBy(o, S, EarlierId(S)) /\ n \in Nat
  BY <1>1, <1>2, ByIdLists, SubsetsAreFinite
<1>4. PICK q : q = HoldRequests(e)
  OBVIOUS
<1>5. o \in [1 .. n -> S] /\ DOMAIN o = 1 .. n /\ {o[i] : i \in 1 .. n} = S
  BY <1>3 DEF ListsBy
<1>6. q = [i \in DOMAIN o |->
             [id |-> o[i], type |-> Type[o[i]], need |-> Fleet[Type[e]].occupancy]]
  BY <1>2, <1>4, Zenon DEF HoldRequests, S
<1>7. Fleet[Type[e]].occupancy \in Int
  BY FleetAssumption, IdsTellApart, AdviceAssumption
<1>8. \A a \in S : a \in DOMAIN Type /\ Type[a] \in DOMAIN Fleet
  BY <1>1, IdsTellApart, AdviceAssumption
<1> HIDE DEF n
<1>9. q \in [1 .. n -> RequestsOf(DOMAIN Type)]
  BY <1>5, <1>6, <1>7, <1>8 DEF RequestsOf
<1>10. {q[i].id : i \in 1 .. n} = S
  BY <1>5, <1>6
<1>11. Holdings(e) = Stack(q)
  BY <1>4, IdsTellApart DEF Holdings
<1>12. Accounts(Stack(q), {q[i].id : i \in 1 .. n})
  BY <1>3, <1>9, StackAccounts
<1>13. QED
  BY <1>10, <1>11, <1>12 DEF S

(* What AdviceAgrees says of an order r and of holds h, in terms of who is  *)
(* on the way in and who waits.                                             *)
Agreed(r, h, waiting) ==
  /\ {r.order[i] : i \in DOMAIN r.order} = ArrivalStream
  /\ {x.id : x \in h.holds} \cup h.refused = waiting
  /\ waiting \cap StabilisedAircraft = {} /\ r.emergency \notin waiting
  /\ r.displaced \subseteq waiting
  /\ \A x, y \in h.holds : x.pattern = y.pattern /\ x.level = y.level => x = y

LEMMA AgreedIsEnough ==
  ASSUME AdviceInv, NEW waiting, Agreed(Resequencing, Holdings(EmergencyAircraft), waiting)
  PROVE  AdviceAgrees
<1>1. PICK r : r = Resequencing
  OBVIOUS
<1>2. PICK h : h = Holdings(r.emergency)
  OBVIOUS
<1>3. r.emergency = EmergencyAircraft
  BY <1>1 DEF Resequencing
<1>4. Agreed(r, h, waiting)
  BY <1>1, <1>2, <1>3
<1>5. {RunwaySequence[i].aircraft : i \in DOMAIN RunwaySequence} = {r.order[i] : i \in DOMAIN r.order}
  BY <1>4, RunwayServesAll DEF Agreed
<1>6. QED
  BY <1>1, <1>2, <1>4, <1>5, Zenon DEF AdviceAgrees, Agreed

LEMMA AgreesInState == AdviceInv => AdviceAgrees
<1> SUFFICES ASSUME AdviceInv PROVE AdviceAgrees
  OBVIOUS
<1>1. PICK r : r = Resequencing
  OBVIOUS
<1>2. PICK e : e = EmergencyAircraft
  OBVIOUS
<1>3. PICK h : h = Holdings(e)
  OBVIOUS
<1>4. r.emergency = e
  BY <1>1, <1>2 DEF Resequencing
<1>5. CASE e = NoAircraft
  <2>1. h = [holds |-> {}, refused |-> {}]
    BY <1>3, <1>5 DEF Holdings
  <2>2. r.order = BaselineOrder /\ r.displaced = {}
    BY <1>1, <1>2, <1>5, NobodyInserted
  <2>3. {r.order[i] : i \in DOMAIN r.order} = ArrivalStream
    <3>1. DOMAIN r.order = 1 .. Cardinality(ArrivalStream)
      BY <2>2, BaselineLists DEF ListsBy
    <3>2. {r.order[i] : i \in 1 .. Cardinality(ArrivalStream)} = ArrivalStream
      BY <2>2, BaselineLists DEF ListsBy
    <3>3. QED
      BY <3>1, <3>2
  <2>4. h.holds = {} /\ h.refused = {}
    BY <2>1
  <2>5. Agreed(r, h, {})
    BY <2>2, <2>3, <2>4 DEF Agreed
  <2>6. QED
    BY <1>1, <1>2, <1>3, <2>5, AgreedIsEnough
<1>6. CASE e # NoAircraft
  <2>1. {r.order[i] : i \in DOMAIN r.order} = ArrivalStream
    BY <1>1, <1>2, <1>6, PlacesReordered
  <2>2. e \in AllIds
    BY <1>2, <1>6, EmergencyIsPresent DEF AdviceInv
  <2>3. PICK waiting : waiting = {a \in Present \ {e} : flightPhase[a] = "DESCENT"}
    OBVIOUS
  <2>4. /\ {x.id : x \in h.holds} \cup h.refused = waiting
        /\ \A x, y \in h.holds : x.pattern = y.pattern /\ x.level = y.level => x = y
    BY <1>3, <2>2, <2>3, WaitingAreDescending DEF Accounts
  <2>5. waiting \cap StabilisedAircraft = {} /\ e \notin waiting
    BY <2>3 DEF StabilisedAircraft, Stabilised
  <2>6. r.displaced \subseteq waiting
    <3>1. SUFFICES ASSUME NEW a \in r.displaced PROVE a \in waiting
      OBVIOUS
    <3>2. a \in ArrivalStream \ {e} /\ a \notin StabilisedAircraft
      BY <1>1, <1>2, <1>6, <3>1, MovedBehindEmergency
    <3>3. a \in Present /\ flightPhase[a] \in Approaching
      BY <1>2, <3>2 DEF ArrivalStream
    <3>4. flightPhase[a] = "DESCENT"
      BY <3>2, <3>3 DEF StabilisedAircraft, Stabilised, Approaching
    <3>5. QED
      BY <2>3, <3>2, <3>3, <3>4
  <2>7. Agreed(r, h, waiting)
    BY <1>4, <2>1, <2>4, <2>5, <2>6 DEF Agreed
  <2>8. QED
    BY <1>1, <1>2, <1>3, <2>7, AgreedIsEnough
<1>7. QED
  BY <1>5, <1>6

(* The order of arrivals and the rules that apply to it speak of the same   *)
(* traffic: a runway slot for whoever is in the order, a hold or a refusal  *)
(* for whoever is moved back, none for whom the order keeps in place, and   *)
(* nobody held where another is (resequencing_orchestrator.py,              *)
(* regulatory_orchestrator.py; hold.py: stack).                             *)
THEOREM AgreedAdvice == AdviceSpec => []AdviceAgrees
<1>1. QED
  BY AgreesInState, AdviceIsInOrder, PTL
=============================================================================
