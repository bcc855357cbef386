--------------------------- MODULE PatrolMission ---------------------------
(***************************************************************************)
(* One fighter from take-off to landing: the phase of its sortie           *)
(* (regulation/mission.py) and the custody of its track (handoff.py scan), *)
(* both read from the same samples of its position.                        *)
(***************************************************************************)
EXTENDS Airspace

CONSTANTS
  Legs,        \* pairs of positions one sample apart
  Apron,       \* where the fighter stands before take-off
  Area,        \* id of its operating area
  AreaBand,    \* the area's levels
  LastTick     \* bound on the samples of a run

(* Nothing flies below the aerodrome. *)
ASSUME MissionAssumption ==
  /\ LastTick \in Nat
  /\ Apron.level \in Nat /\ Apron.level >= Elevation
  /\ \A leg \in Legs : \A i \in 1 .. 2 : leg[i].level \in Nat /\ leg[i].level >= Elevation

VARIABLES
  position,    \* the last sample
  now,         \* its time
  sortie,      \* phase and times of the sortie
  custody      \* the last transfer of the track

missionVars == <<position, now, sortie, custody>>

Unset == -1

InArea(p) == p.cell \in Footprint[Area] /\ AreaBand.lower <= p.level /\ p.level <= AreaBand.upper

MissionInit ==
  /\ position = Apron /\ now = 0
  /\ sortie = [phase |-> "GROUND", takeoff |-> Unset, on |-> Unset, off |-> Unset,
               declared |-> Unset, landed |-> Unset, emergency |-> FALSE]
  /\ custody = NoTransfer

\* Mutant: the sortie is over when the fighter leaves its area.
PhaseAtByArea(s, p) ==
  CASE s.landed # Unset -> "LANDED"
    [] s.landed = Unset /\ s.takeoff = Unset -> "GROUND"
    [] s.landed = Unset /\ s.takeoff # Unset /\ InArea(p) -> "ON_STATION"
    [] OTHER -> CASE s.on # Unset /\ UnderControl(p) -> "APPROACH"
                  [] s.on # Unset /\ ~ UnderControl(p) -> "RECOVERY"
                  [] s.on = Unset /\ UnderControl(p) -> "CLIMBOUT"
                  [] OTHER -> "TRANSIT_OUT"

(* The area first, then a declared recovery, then the way out. *)
PhaseAt(s, p) ==
  LET returning == s.declared # Unset \/ s.off # Unset
  IN  CASE s.landed # Unset -> "LANDED"
        [] s.landed = Unset /\ s.takeoff = Unset -> "GROUND"
        [] s.landed = Unset /\ s.takeoff # Unset /\ InArea(p) -> "ON_STATION"
        [] OTHER -> CASE returning /\ UnderControl(p) -> "APPROACH"
                      [] returning /\ ~ UnderControl(p) -> "RECOVERY"
                      [] ~ returning /\ UnderControl(p) -> "CLIMBOUT"
                      [] OTHER -> "TRANSIT_OUT"

(* advance: the phase and the times it marks. *)
Advanced(s, p, t) ==
  LET phase == PhaseAt(s, p)
      arrives == phase = "ON_STATION" /\ s.on = Unset
      leaves == s.on # Unset /\ s.off = Unset /\ phase \in {"RECOVERY", "APPROACH"}
  IN  [s EXCEPT !.phase = phase,
                !.on = IF arrives THEN t ELSE @,
                !.off = IF leaves THEN t ELSE @]

TakeOff ==
  /\ sortie.phase = "GROUND"
  /\ sortie' = Advanced([sortie EXCEPT !.takeoff = now], position, now)
  /\ UNCHANGED <<position, now, custody>>

(* The next sample of the track; `pending` when a conflict is unresolved.   *)
Fly(pending) ==
  /\ now < LastTick /\ sortie.takeoff # Unset /\ sortie.landed = Unset
  /\ \E leg \in Legs :
       /\ leg[1] = position
       /\ position' = leg[2]
       /\ now' = now + 1
       /\ sortie' = Advanced(sortie, leg[2], now + 1)
       /\ LET event == Transfer(position, leg[2], pending)
          IN  custody' = IF event = NoTransfer THEN custody ELSE event

(* declare_recovery, at any time and any number of times: a later one       *)
(* overwrites the time, and an emergency stays one.                          *)
DeclareRecovery(emergency) ==
  /\ sortie' = [sortie EXCEPT !.declared = now, !.emergency = @ \/ emergency]
  /\ UNCHANGED <<position, now, custody>>

Land ==
  /\ sortie.phase = "APPROACH" /\ position = Apron
  /\ sortie' = Advanced([sortie EXCEPT !.landed = now], position, now)
  /\ UNCHANGED <<position, now, custody>>
-----------------------------------------------------------------------------
(* Over the corridor the chain of units and the sector model's crossing of  *)
(* T17's upper limit tell the same story, at the limit itself too; and who  *)
(* holds the track is who was handed it last.                               *)
HandoffsAgree ==
  [][LET cheongju == {Twr, Gca}
         above == {Osan, Acc}
         crossing == CrossesHandoff(position, position')
         handed(from, to) ==
           custody' # custody /\ custody'.from \in from /\ custody'.to \in to
     IN  /\ {position.cell, position'.cell} \subseteq Footprint["T17"] =>
              /\ (crossing = "OUTBOUND") <=> handed(cheongju, above)
              /\ (crossing = "INBOUND") <=> handed(above, cheongju)
         /\ custody' # NoTransfer => custody'.to = Controller(position')]_<<position, custody>>

(* Whatever is declared, however often and when: a fighter that has left    *)
(* its area for home is not taken for one going out, the time it left is     *)
(* marked by a sample outside the area, behind the declaration in force      *)
(* then, and a later declaration neither moves nor takes back a mark         *)
(* (mission.py, phase_at, advance, declare_recovery).                        *)
SortieIsOrdered ==
  /\ [](/\ sortie.on # Unset => sortie.takeoff # Unset /\ sortie.takeoff <= sortie.on
        /\ sortie.off # Unset =>
             /\ sortie.on # Unset /\ sortie.on <= sortie.off
             /\ sortie.declared # Unset
             /\ sortie.phase \in {"ON_STATION", "RECOVERY", "APPROACH", "LANDED"})
  /\ [][/\ sortie.on # Unset => sortie'.on = sortie.on
        /\ IF sortie.off # Unset THEN sortie'.off = sortie.off
           ELSE sortie'.off # Unset =>
                  /\ sortie.declared # Unset /\ sortie.declared <= sortie'.off
                  /\ ~ InArea(position')]_sortie
=============================================================================
