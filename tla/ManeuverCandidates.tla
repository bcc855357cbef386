------------------------ MODULE ManeuverCandidates ------------------------
(***************************************************************************)
(* What may be done about a conflict: the Candidates generated from the    *)
(* profile's templates, their validation on copied states, the verdicts    *)
(* with the evidence the result types accept, and the ranking.             *)
(***************************************************************************)
EXTENDS FlightMotion, SequencesExt

CONSTANTS
  HeadingChange, AltitudeChange, SpeedChange,  \* magnitudes of the templates
  AssignmentStep,                              \* altitudes are assigned in these
  ExecutionTime,                               \* time a command has to take effect
  MinimumAltitude, MaxSpeedChange,
  ValidationHorizon, MaxRecommendations

(* What the constructors of the three profiles demand. *)
GenerationProfileAccepted ==
  /\ {HeadingChange, AltitudeChange, SpeedChange} \subseteq Nat \ {0}
  /\ 2 * HeadingChange < Points
ValidationProfileAccepted ==
  /\ {ExecutionTime, MaxSpeedChange, ValidationHorizon} \subseteq Nat \ {0}
  /\ MinimumAltitude \in Nat
RankingProfileAccepted == MaxRecommendations \in Nat \ {0}

ASSUME CandidateAssumption ==
  /\ GenerationProfileAccepted /\ ValidationProfileAccepted /\ RankingProfileAccepted
  /\ AssignmentStep \in Nat \ {0}

NoAircraft == "none"

Template(id, role, type, cost, delay, path) ==
  [id |-> id, role |-> role, type |-> type, cost |-> cost, delay |-> delay, path |-> path]

(* In the order of their identifiers; the baseline comes last. *)
Templates == <<Template(1, "PREFERRED", "ALTITUDE", 10, 0, 0),
               Template(2, "PREFERRED", "HEADING", 25, 0, 15),
               Template(3, "OTHER", "SPEED", 20, 30, 0),
               Template(4, "OTHER", "ALTITUDE", 30, 0, 0)>>
BaselineId == 5

Low(a, b) == IF a <= b THEN a ELSE b
High(a, b) == IF a >= b THEN a ELSE b
RoundedDown(v) == (v \div AssignmentStep) * AssignmentStep

\* Variant: a climb is rounded down.
AssignableDown(v, climbing, ceiling) == RoundedDown(v)

(* Rounded in the direction of the manoeuvre, then kept below the ceiling. *)
AssignableAltitude(v, climbing, ceiling) ==
  LET snapped == IF climbing /\ v % AssignmentStep # 0
                 THEN RoundedDown(v) + AssignmentStep
                 ELSE RoundedDown(v)
  IN  IF snapped > ceiling THEN RoundedDown(ceiling) ELSE snapped

(* The value a template commands for the aircraft it moves. *)
Commanded(template, s, performance) ==
  CASE template.type = "HEADING" -> Normalized(s.heading + HeadingChange)
    [] template.type = "ALTITUDE" /\ template.role = "PREFERRED" ->
         AssignableAltitude(Low(s.alt + AltitudeChange, performance.ceiling),
                            TRUE, performance.ceiling)
    [] template.type = "ALTITUDE" /\ template.role = "OTHER" ->
         AssignableAltitude(High(0, s.alt - AltitudeChange), FALSE, performance.ceiling)
    [] template.type = "SPEED" -> High(performance.minSpeed, s.speed - SpeedChange)

Candidate(template, preferred, other, states, performance) ==
  LET target == IF template.role = "PREFERRED" THEN preferred ELSE other
  IN  [id |-> template.id, target |-> target, type |-> template.type,
       value |-> Commanded(template, states[target], performance[target]),
       cost |-> template.cost, delay |-> template.delay, path |-> template.path]

Baseline == [id |-> BaselineId, target |-> NoAircraft, type |-> "NO_ACTION", value |-> 0,
             cost |-> 0, delay |-> 0, path |-> 0]

Generated(preferred, other, states, performance) ==
  Append([i \in DOMAIN Templates |->
            Candidate(Templates[i], preferred, other, states, performance)], Baseline)

-----------------------------------------------------------------------------
(* The state after the manoeuvre: what is validated and what is flown. *)
AppliedTo(s, c) ==
  CASE c.type = "HEADING" -> [s EXCEPT !.heading = c.value]
    [] c.type = "ALTITUDE" -> [s EXCEPT !.alt = c.value, !.climb = 0]
    [] c.type = "SPEED" -> [s EXCEPT !.speed = c.value]
    [] c.type = "NO_ACTION" -> s

PerformanceFeasible(c, s, performance) ==
  CASE c.type = "HEADING" -> Turn(s.heading, c.value) <= performance.turnRate * ExecutionTime
    [] c.type = "ALTITUDE" ->
         /\ c.value <= performance.ceiling
         /\ Magnitude(c.value - s.alt) <= ExecutionTime *
              (IF c.value >= s.alt THEN performance.climbRate ELSE performance.descentRate)
    [] c.type = "SPEED" ->
         /\ performance.minSpeed <= c.value /\ c.value <= performance.maxSpeed
         /\ Magnitude(c.value - s.speed) <= MaxSpeedChange
    [] OTHER -> TRUE

(* An aircraft that is below the minimum already may not go further down. *)
MinimumAltitudeViolated(c, s) ==
  /\ c.type = "ALTITUDE"
  /\ IF s.alt < MinimumAltitude THEN c.value < s.alt ELSE c.value < MinimumAltitude

\* Variant: other pairs are not looked at.
VerdictOfPair(c, primary, secondary, feasible, violated) ==
  IF ~feasible \/ violated THEN "UNSAFE"
  ELSE IF primary = "SAFE" THEN "SAFE"
  ELSE IF c.type = "NO_ACTION" THEN "UNSAFE" ELSE "INEFFECTIVE"

\* Variant: the pair itself is looked at first.
VerdictPrimaryFirst(c, primary, secondary, feasible, violated) ==
  IF primary = "SAFE" THEN "SAFE"
  ELSE IF secondary # {} \/ ~feasible \/ violated THEN "UNSAFE"
  ELSE IF c.type = "NO_ACTION" THEN "UNSAFE" ELSE "INEFFECTIVE"

Verdict(c, primary, secondary, feasible, violated) ==
  IF secondary # {} \/ ~feasible \/ violated THEN "UNSAFE"
  ELSE IF primary = "SAFE" THEN "SAFE"
  ELSE IF c.type = "NO_ACTION" THEN "UNSAFE" ELSE "INEFFECTIVE"

Reasons(c, primary, secondary, feasible, violated) ==
  {IF primary = "SAFE" THEN "PRIMARY_CONFLICT_RESOLVED" ELSE "PRIMARY_CONFLICT_REMAINS"}
  \cup (IF secondary # {} THEN {"SECONDARY_CONFLICT_DETECTED"} ELSE {})
  \cup (IF feasible THEN {} ELSE {"PERFORMANCE_ENVELOPE_EXCEEDED"})
  \cup (IF violated THEN {"RULE_VIOLATION"} ELSE {})
  \cup (IF c.type = "NO_ACTION" THEN {"NO_ACTION_BASELINE"} ELSE {})

Validated(c, pair, states, performance) ==
  LET isolated == IF c.target = NoAircraft THEN states
                  ELSE [states EXCEPT ![c.target] = AppliedTo(@, c)]
      events == Assessed(isolated, ValidationHorizon)
      primary == events[pair].status
      secondary == {p \in DOMAIN events \ {pair} : events[p].status = "PREDICTED"}
      feasible == \/ c.target = NoAircraft
                  \/ PerformanceFeasible(c, states[c.target], performance[c.target])
      violated == c.target # NoAircraft /\ MinimumAltitudeViolated(c, states[c.target])
  IN  [id |-> c.id, primary |-> primary, secondary |-> secondary,
       feasible |-> feasible, violated |-> violated,
       reasons |-> Reasons(c, primary, secondary, feasible, violated),
       verdict |-> Verdict(c, primary, secondary, feasible, violated)]

(* What the constructor of a result demands: the reasons say what the       *)
(* evidence says, and the verdict follows from it.                          *)
EvidenceConsistent(r) ==
  LET failed == r.secondary # {} \/ ~r.feasible \/ r.violated
      baseline == "NO_ACTION_BASELINE" \in r.reasons
  IN  /\ ("PRIMARY_CONFLICT_RESOLVED" \in r.reasons) = (r.primary = "SAFE")
      /\ ("PRIMARY_CONFLICT_REMAINS" \in r.reasons) = (r.primary # "SAFE")
      /\ ("SECONDARY_CONFLICT_DETECTED" \in r.reasons) = (r.secondary # {})
      /\ ("PERFORMANCE_ENVELOPE_EXCEEDED" \in r.reasons) = ~r.feasible
      /\ ("RULE_VIOLATION" \in r.reasons) = r.violated
      /\ CASE r.verdict = "SAFE" -> r.primary = "SAFE" /\ ~failed
           [] r.verdict = "INEFFECTIVE" -> r.primary # "SAFE" /\ ~failed /\ ~baseline
           [] r.verdict = "UNSAFE" -> failed \/ (r.primary # "SAFE" /\ baseline)

ResultAccepted(r, pair) == pair \notin r.secondary /\ EvidenceConsistent(r)

(* Manoeuvre, Candidate and batch: one baseline, that moves nobody; the     *)
(* others move an aircraft of the pair.                                     *)
ManeuverAccepted(c) ==
  CASE c.type = "HEADING" -> c.value \in 1 .. Points
    [] c.type = "ALTITUDE" -> c.value >= 0
    [] c.type = "SPEED" -> c.value > 0
    [] OTHER -> TRUE

CandidateAccepted(c) ==
  /\ ManeuverAccepted(c)
  /\ IF c.type = "NO_ACTION" THEN c.target = NoAircraft /\ {c.cost, c.delay, c.path} = {0}
     ELSE c.target # NoAircraft

BatchAccepted(batch, pair) ==
  /\ Cardinality({i \in DOMAIN batch : batch[i].type = "NO_ACTION"}) = 1
  /\ \A i \in DOMAIN batch :
       /\ CandidateAccepted(batch[i])
       /\ batch[i].target \in pair \cup {NoAircraft}
       /\ \A j \in DOMAIN batch : batch[i].id = batch[j].id => i = j

ValidationAccepted(batch, results, pair) ==
  /\ DOMAIN results = {batch[i].id : i \in DOMAIN batch}
  /\ \A id \in DOMAIN results : ResultAccepted(results[id], pair)

-----------------------------------------------------------------------------
(* Cost, then delay, then path, then identifier. *)
RanksBefore(c, d) ==
  LET key(k) == <<k.cost, k.delay, k.path, k.id>>
  IN  \E i \in 1 .. 4 : /\ key(c)[i] < key(d)[i]
                        /\ \A j \in 1 .. i - 1 : key(c)[j] = key(d)[j]

(* The place of a Candidate among the safe ones, the first place being 1. *)
Rank(c, safe) == 1 + Cardinality({d \in safe : RanksBefore(d, c)})

Recommended(batch, results) ==
  LET safe == {c \in ToSet(batch) : c.type # "NO_ACTION" /\ results[c.id].verdict = "SAFE"}
  IN  {c \in safe : Rank(c, safe) <= MaxRecommendations}

RecommendationAccepted(c, results) ==
  /\ c.type # "NO_ACTION"
  /\ results[c.id].verdict = "SAFE"
  /\ results[c.id].reasons = {"PRIMARY_CONFLICT_RESOLVED"}

SetAccepted(recommended, results) ==
  \A c \in recommended :
    /\ RecommendationAccepted(c, results)
    /\ \A d \in recommended : c.id = d.id \/ Rank(c, recommended) = Rank(d, recommended) => c = d
=============================================================================
