------------------------------ MODULE Airspace ------------------------------
(***************************************************************************)
(* Who controls an aircraft (regulation/sector.py, handoff.py): the        *)
(* published volumes of the terminal area as footprints and bands, their   *)
(* owner, the chain of units by altitude with its lateral exit, and the    *)
(* transfers a track makes.  A position is a cell of the plan and a level  *)
(* in hundreds of feet.                                                    *)
(***************************************************************************)
EXTENDS Integers, Sequences

CONSTANTS
  Footprint,    \* per volume and operating area, the cells it covers
  ControlZone   \* cells within the radius of the control zone

(* The corridor's polygon shares an edge with T19 and no area with any block *)
(* of the lateral unit (reference/airspace.json, tma.blocks).               *)
ASSUME CorridorAssumption ==
  \A v \in {"T18", "T19", "T20"} : Footprint["T17"] \cap Footprint[v] = {}

(* resolve_altitude_ft: a height above ground counts from the aerodrome. *)
Elevation == 2
Resolve(reference, hundreds) ==
  CASE reference = "SFC" -> Elevation
    [] reference = "AGL" -> Elevation + hundreds
    [] OTHER -> hundreds   \* AMSL, flight level

Band(lower, upper) == [lower |-> lower, upper |-> upper]

T17 == Band(Resolve("AGL", 10), Resolve("AMSL", 65))
ControlZoneBand == Band(Resolve("SFC", 0), Resolve("AGL", 50))
UpperT17 == Band(Resolve("AMSL", 65), Resolve("FL", 145))

Published ==
  [T17 |-> T17, CTR_CORE |-> ControlZoneBand,
   RING_5_10 |-> Band(Resolve("AGL", 10), Resolve("AGL", 50)),
   SEONGMU |-> Band(Resolve("SFC", 0), Resolve("AGL", 40)),
   T17_UPPER |-> UpperT17,
   T18 |-> Band(Resolve("AGL", 10), Resolve("FL", 175)),
   T19 |-> Band(Resolve("AGL", 10), Resolve("FL", 145)),
   T20 |-> Band(Resolve("AMSL", 55), Resolve("FL", 145))]

(* Volumes are closed at both ends, the steps of the chain are not. *)
Inside(v, p) ==
  p.cell \in Footprint[v] /\ Published[v].lower <= p.level /\ p.level <= Published[v].upper

Gca == "CHEONGJU GCA"
Twr == "CHEONGJU TWR"
Osan == "OSAN APP"
Lateral == "JUNGWON APP"
Acc == "ACC"
Nobody == "OUTSIDE"

\* Mutant: the excluded zone and the rings alone, the corridor forgotten.
UnderControlRings(p) ==
  /\ \E v \in {"CTR_CORE", "RING_5_10"} : Inside(v, p)
  /\ ~ Inside("SEONGMU", p)

(* The terminal class C with the corridor, less the excluded zone. *)
UnderControl(p) ==
  /\ \E v \in {"T17", "CTR_CORE", "RING_5_10"} : Inside(v, p)
  /\ ~ Inside("SEONGMU", p)

Neighbours == <<"T17_UPPER", "T18", "T19", "T20">>
UnitOf(v) == IF v = "T17_UPPER" THEN Osan ELSE Lateral

Owner(p) ==
  LET covering == {i \in DOMAIN Neighbours : Inside(Neighbours[i], p)}
  IN  CASE UnderControl(p) -> Gca
        [] ~ UnderControl(p) /\ covering = {} -> Nobody
        [] OTHER -> UnitOf(Neighbours[CHOOSE i \in covering : \A j \in covering : i <= j])

(* T17's upper limit, crossed by a track. *)
HandoffLevel == 65
CrossesHandoff(before, after) ==
  CASE before.level > HandoffLevel /\ after.level <= HandoffLevel -> "INBOUND"
    [] before.level <= HandoffLevel /\ after.level > HandoffLevel -> "OUTBOUND"
    [] OTHER -> "NONE"

(* The chain: tower, approach, the sector above, the area centre. *)
Unlimited == 9999
ChainSteps ==
  <<[unit |-> Twr, band |-> ControlZoneBand], [unit |-> Gca, band |-> T17],
    [unit |-> Osan, band |-> UpperT17],
    [unit |-> Acc, band |-> Band(UpperT17.upper, Unlimited)]>>

Covers(step, level) == step.band.lower <= level /\ level < step.band.upper

(* By altitude alone; the last unit when no step covers it. *)
UnitAt(level) ==
  LET covering == {i \in DOMAIN ChainSteps : Covers(ChainSteps[i], level)}
  IN  ChainSteps[IF covering = {} THEN Len(ChainSteps)
                 ELSE CHOOSE i \in covering : \A j \in covering : i <= j].unit

(* The lateral unit first, then Cheongju's own area, then the chain. *)
Controller(p) ==
  CASE Owner(p) = Lateral -> Lateral
    [] Owner(p) # Lateral /\ UnderControl(p) ->
         IF Covers(ChainSteps[1], p.level) /\ p.cell \in ControlZone THEN Twr ELSE Gca
    [] OTHER -> UnitAt(p.level)

(* A transfer happens when the controller changes; with a conflict pending  *)
(* it happens all the same and is marked.                                   *)
NoTransfer == [from |-> Nobody, to |-> Nobody, met |-> TRUE, direction |-> "NONE"]
Transfer(before, after, pending) ==
  LET a == Controller(before)
      b == Controller(after)
  IN  IF a = b THEN NoTransfer
      ELSE [from |-> a, to |-> b, met |-> ~ pending,
            direction |-> CASE Lateral \in {a, b} -> "LATERAL"
                            [] Lateral \notin {a, b} /\ after.level > before.level -> "CLIMB"
                            [] OTHER -> "DESCEND"]
=============================================================================
