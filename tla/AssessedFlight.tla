--------------------------- MODULE AssessedFlight ---------------------------
(***************************************************************************)
(* The traffic between two decisions: aircraft that fly from anchor to     *)
(* anchor, the Steps that assess and predict them and hand out the due     *)
(* events, the Candidates that are validated on a Step's traffic, and the  *)
(* approved manoeuvre, which is one more anchor among the recorded ones.   *)
(*                                                                         *)
(* Every holder of derived state notices a reset of the shared clock on    *)
(* its own, when it is used: stale is the set of those that have not yet.  *)
(* The queue and the chain of decisions are modules of their own; here the *)
(* pair to be solved is a worst one of the latest assessment.              *)
(***************************************************************************)
EXTENDS ManeuverCandidates

CONSTANTS
  Aircraft,
  Scenarios,       \* each: aircraft -> its anchors, the initial state first
  Presence,        \* aircraft -> half open windows; none: always there
  Performance,     \* aircraft -> envelope
  Events,          \* the scenario's events, in the order of their times
  Interval,        \* ticks of one slot of either scheduler
  AssessmentHorizon, Horizons,
  StepSizes, MaxTick

(* What the constructors of a state, an aircraft of a scenario, its presence, *)
(* its envelope, the events and the scenario demand.                          *)
States ==
  [at : Nat, x : Int, y : Int, alt : Int, heading : 1 .. Points, speed : Nat, climb : Int,
   emergency : BOOLEAN, stabilised : BOOLEAN]
AircraftAccepted(anchors, windows) ==
  /\ anchors \in Seq(States) /\ anchors # <<>>
  /\ \A i \in 1 .. Len(anchors) - 1 : anchors[i].at < anchors[i + 1].at
  /\ windows = {} \/ \E w \in windows : w[1] <= anchors[1].at
PresenceAccepted(windows) ==
  /\ windows \subseteq Int \X Int
  /\ \A v, w \in windows : v[1] < v[2] /\ (v # w => v[2] <= w[1] \/ w[2] <= v[1])
EnvelopeAccepted(e) ==
  /\ {e.maxSpeed, e.climbRate, e.descentRate, e.turnRate, e.ceiling} \subseteq Nat \ {0}
  /\ e.minSpeed \in 0 .. e.maxSpeed
ScenarioEvents ==
  [at : Nat, target : Aircraft, type : {"ENTRY_CONFORMANCE_DEVIATION", "EMERGENCY_DECLARED"}]
TimelineAccepted ==
  /\ Events \in Seq(ScenarioEvents)
  /\ \A i \in 1 .. Len(Events) - 1 : Events[i].at <= Events[i + 1].at
ScenarioAccepted ==
  /\ \A plan \in Scenarios, a \in Aircraft : AircraftAccepted(plan[a], Presence[a])
  /\ TimelineAccepted
HorizonsAccepted == Horizons # {} /\ Horizons \subseteq Nat \ {0}

ASSUME FlightAssumption ==
  /\ IsFiniteSet(Aircraft)
  /\ Aircraft \cap {NoAircraft, "timeline", "prediction", "conflict", "step"} = {}
  /\ Interval \in Nat \ {0} /\ MaxTick \in Nat /\ StepSizes \subseteq Nat
  /\ HorizonsAccepted /\ AssessmentHorizon \in Nat \ {0} /\ ScenarioAccepted
  /\ \A a \in Aircraft : PresenceAccepted(Presence[a]) /\ EnvelopeAccepted(Performance[a])

VARIABLES
  scenario,       \* never changes
  clockState, tick,
  stale,          \* holders that have not noticed the last reset
  applied,        \* aircraft -> approved anchors of this clock run
  nextIndex,      \* of the timeline
  lastSlot,       \* of either scheduler, -1: none
  predictionRun, conflictRun,
  step,           \* the latest Step
  review,         \* the latest Candidates, results and published recommendations
  delivered,      \* history: indices of the events handed out in this run
  flown           \* history: the manoeuvre approved last in this run

vars == <<scenario, clockState, tick, stale, applied, nextIndex, lastSlot, predictionRun,
          conflictRun, step, review, delivered, flown>>

None == [at |-> -1]
Holders == Aircraft \cup {"timeline", "prediction", "conflict", "step"}

-----------------------------------------------------------------------------
(* One aircraft. *)
AppliedStates(a) == IF a \in stale THEN <<>> ELSE applied[a]

Anchors(a, approved) == scenario[a] \o approved

PresentAt(a, t) ==
  /\ t >= scenario[a][1].at
  /\ Presence[a] = {} \/ \E w \in Presence[a] : w[1] <= t /\ t < w[2]

(* The latest anchor that is not in the future. *)
MotionAnchor(anchors, t) ==
  LET past == {i \in DOMAIN anchors : anchors[i].at <= t}
  IN  anchors[CHOOSE i \in past : \A j \in past : anchors[j].at <= anchors[i].at]

CurrentState(anchors, t) == Advanced(MotionAnchor(anchors, t), t)

(* The active states of all runtimes at one time. *)
Snapshot(approved, t) ==
  [a \in {c \in Aircraft : PresentAt(c, t)} |-> CurrentState(Anchors(a, approved[a]), t)]

Approved == [a \in Aircraft |-> AppliedStates(a)]

-----------------------------------------------------------------------------
(* The clock, which code of the same process may drive. *)
Play ==
  /\ clockState' = "RUNNING"
  /\ UNCHANGED <<scenario, tick, stale, applied, nextIndex, lastSlot, predictionRun,
                 conflictRun, step, review, delivered, flown>>

Pause ==
  /\ clockState = "RUNNING"
  /\ clockState' = "PAUSED"
  /\ UNCHANGED <<scenario, tick, stale, applied, nextIndex, lastSlot, predictionRun,
                 conflictRun, step, review, delivered, flown>>

Reset ==
  /\ clockState' = "READY" /\ tick' = 0 /\ stale' = Holders
  /\ delivered' = {} /\ flown' = None
  /\ UNCHANGED <<scenario, applied, nextIndex, lastSlot, predictionRun, conflictRun, step,
                 review>>

Tick(k) ==
  /\ clockState = "RUNNING" /\ k > 0 /\ tick + k <= MaxTick
  /\ tick' = tick + k
  /\ UNCHANGED <<scenario, clockState, stale, applied, nextIndex, lastSlot, predictionRun,
                 conflictRun, step, review, delivered, flown>>

-----------------------------------------------------------------------------
(* One Step: the clock, the snapshot, the due events, both schedulers, the  *)
(* risks and the priorities.  The first Step after a reset withdraws what   *)
(* was published.                                                           *)
\* Variant: the timeline does not notice a reset.
FirstPendingKept == nextIndex

FirstPending == IF "timeline" \in stale THEN 1 ELSE nextIndex

NowPending(t) ==
  LET later == {i \in FirstPending .. Len(Events) : Events[i].at > t}
  IN  IF later = {} THEN High(FirstPending, Len(Events) + 1)
      ELSE CHOOSE i \in later : \A j \in later : i <= j

SlotDue(scheduler, t) == scheduler \in stale \/ t \div Interval > lastSlot[scheduler]

StepIsNew(t) == "step" \in stale \/ step.at # t

Priorities(states) == [a \in DOMAIN states |-> PriorityOf(a, states[a], Events)]

Step(k) ==
  LET t == tick + k
      states == Snapshot(Approved, t)
  IN  /\ clockState = "RUNNING" /\ t <= MaxTick /\ StepIsNew(t)
      /\ tick' = t
      /\ nextIndex' = NowPending(t)
      /\ delivered' = delivered \cup (FirstPending .. NowPending(t) - 1)
      /\ lastSlot' = [s \in DOMAIN lastSlot |-> IF SlotDue(s, t) THEN t \div Interval
                                                ELSE lastSlot[s]]
      /\ predictionRun' =
           IF SlotDue("prediction", t)
           THEN [at |-> t, points |-> [a \in DOMAIN states |-> Predicted(states[a], t, Horizons)]]
           ELSE predictionRun
      /\ conflictRun' =
           IF SlotDue("conflict", t)
           THEN [at |-> t, states |-> states,
                 events |-> Assessed([a \in DOMAIN states |-> Aligned(states[a], t)],
                                     AssessmentHorizon)]
           ELSE conflictRun
      /\ step' = [at |-> t, states |-> states, priorities |-> Priorities(states)]
      /\ applied' = Approved
      /\ review' = IF "step" \in stale THEN None ELSE review
      /\ stale' = {}
      /\ UNCHANGED <<scenario, clockState, flown>>

-----------------------------------------------------------------------------
(* Candidates for a worst pair of the latest assessment. *)
StepIsCurrent == "step" \notin stale /\ step.at = tick

Resolvable == {p \in DOMAIN conflictRun.events :
                 RiskOf(conflictRun.events[p]) \in {"HIGH", "CRITICAL"}}
WorstPairs == {p \in Resolvable : \A q \in Resolvable :
                 RiskRank[RiskOf(conflictRun.events[q])] <= RiskRank[RiskOf(conflictRun.events[p])]}

Movable(a) == ~step.states[a].emergency /\ ~step.states[a].stabilised
Margin(a) == High(Performance[a].climbRate, Performance[a].descentRate)
PreferredTargets(p) ==
  {a \in p : Movable(a) /\ \A b \in p : Movable(b) => Margin(b) <= Margin(a)}

ResultsOf(batch, p) ==
  [id \in {batch[i].id : i \in DOMAIN batch} |->
     Validated(CHOOSE c \in ToSet(batch) : c.id = id, p, step.states, Performance)]

Recommend ==
  /\ clockState = "RUNNING" /\ StepIsCurrent /\ "conflict" \notin stale /\ conflictRun # None
  /\ review.at # tick
  /\ \E p \in WorstPairs :
       /\ p \subseteq DOMAIN step.states
       /\ \E preferred \in PreferredTargets(p) :
            LET other == CHOOSE a \in p : a # preferred
                batch == Generated(preferred, other, step.states, Performance)
                results == ResultsOf(batch, p)
            IN  review' = [at |-> tick, pair |-> p, states |-> step.states, batch |-> batch,
                           results |-> results, recommended |-> Recommended(batch, results)]
  /\ UNCHANGED <<scenario, clockState, tick, stale, applied, nextIndex, lastSlot, predictionRun,
                 conflictRun, step, delivered, flown>>

(* A recommended manoeuvre is approved and flown from the state of now; the *)
(* recommendation may be of an earlier Step.                                *)
NoAnchorAt(a, t) ==
  \A i \in DOMAIN Anchors(a, AppliedStates(a)) : Anchors(a, AppliedStates(a))[i].at # t

Approve ==
  /\ clockState = "RUNNING" /\ StepIsCurrent /\ review # None
  /\ flown.at < review.at
  /\ \E c \in review.recommended :
       LET approved == AppliedStates(c.target)
       IN  /\ PresentAt(c.target, tick) /\ NoAnchorAt(c.target, tick)
           /\ applied' = [applied EXCEPT ![c.target] =
                 Append(approved, AppliedTo(CurrentState(Anchors(c.target, approved), tick), c))]
           /\ flown' = [at |-> tick, validated |-> review.at, states |-> review.states, by |-> c]
  /\ stale' = stale \ Aircraft
  /\ UNCHANGED <<scenario, clockState, tick, nextIndex, lastSlot, predictionRun, conflictRun,
                 step, review, delivered>>

-----------------------------------------------------------------------------
Init ==
  /\ scenario \in Scenarios
  /\ clockState = "READY" /\ tick = 0 /\ stale = {}
  /\ applied = [a \in Aircraft |-> <<>>]
  /\ nextIndex = 1 /\ lastSlot = [s \in {"prediction", "conflict"} |-> -1]
  /\ predictionRun = None /\ conflictRun = None /\ step = None /\ review = None
  /\ delivered = {} /\ flown = None

Next ==
  \/ Play \/ Pause \/ Reset
  \/ \E k \in StepSizes : Tick(k) \/ Step(k)
  \/ Recommend \/ Approve

Spec == Init /\ [][Next]_vars

-----------------------------------------------------------------------------
(* Nothing but the motion of t0 moves the aircraft until t: no recorded     *)
(* anchor takes over in between and none was approved at t0 or later.       *)
Undisturbed(a, t0, t) ==
  /\ \A i \in DOMAIN scenario[a] : ~(t0 < scenario[a][i].at /\ scenario[a][i].at <= t)
  /\ \A i \in DOMAIN AppliedStates(a) : AppliedStates(a)[i].at < t0

(* Where an aircraft is now. *)
Here(a) == CurrentState(Anchors(a, AppliedStates(a)), tick)

(***************************************************************************)
(* A SAFE verdict holds in flight.  When a manoeuvre is flown in the very   *)
(* tick it was validated in, no two aircraft of the validated traffic that  *)
(* climb alike lose separation until the horizon of the validation is over, *)
(* a recorded anchor takes over, or one of them leaves.                     *)
(* (validator.py, apply_candidate_maneuver_to_state, current_state)         *)
(***************************************************************************)
VerdictHoldsInFlight ==
  flown # None /\ flown.validated = flown.at /\ tick <= flown.at + ValidationHorizon =>
    \A a, b \in DOMAIN flown.states :
      /\ a # b /\ PresentAt(a, tick) /\ PresentAt(b, tick)
      /\ \A c \in {a, b} : \A i \in DOMAIN scenario[c] :
           ~(flown.at < scenario[c][i].at /\ scenario[c][i].at <= tick)
      /\ Here(a).climb = Here(b).climb
      => Separated(Here(a), Here(b))

(***************************************************************************)
(* A predicted conflict does not fade by itself: while neither aircraft is  *)
(* disturbed and they have not met yet, the next assessment of a level pair *)
(* predicts it again, at a risk no lower.  (closest_approach.py,            *)
(* risk/evaluator.py, conflict/scheduler.py)                                *)
(***************************************************************************)
Escalates(p, before, after) ==
  /\ before.events[p].status = "PREDICTED"
  /\ \A a \in p : before.states[a].climb = 0 /\ Undisturbed(a, before.at, after.at)
  /\ (after.at - before.at) * before.events[p].time[2] <= before.events[p].time[1]
  => RiskRank[RiskOf(after.events[p])] >= RiskRank[RiskOf(before.events[p])]

ConflictEscalates ==
  [][/\ conflictRun # None /\ "conflict" \notin stale /\ conflictRun'.at > conflictRun.at
     => \A p \in DOMAIN conflictRun.events \cap DOMAIN conflictRun'.events :
          Escalates(p, conflictRun, conflictRun')]_vars

(***************************************************************************)
(* What is predicted is flown: at each horizon of the latest prediction an  *)
(* undisturbed aircraft is exactly where it was predicted.                  *)
(* (prediction/baseline.py and simulation/synthetic.py compute it twice)    *)
(***************************************************************************)
PredictionIsFlown ==
  predictionRun # None /\ "prediction" \notin stale =>
    \A a \in DOMAIN predictionRun.points : \A point \in predictionRun.points[a] :
      point.at = tick /\ PresentAt(a, tick) /\ Undisturbed(a, predictionRun.at, tick)
      => <<point.x, point.y, point.alt>> = <<Here(a).x, Here(a).y, Here(a).alt>>

(***************************************************************************)
(* Events and priorities tell one story: a Step has handed out exactly the  *)
(* events due in this clock run, and an aircraft has the emergency priority *)
(* if and only if its emergency was handed out or its state declares it.    *)
(* (scenario/timeline.py against priority/evaluator.py)                     *)
(***************************************************************************)
EventsAgree ==
  step # None /\ "step" \notin stale =>
    /\ delivered = {i \in DOMAIN Events : Events[i].at <= step.at}
    /\ \A a \in DOMAIN step.states :
         step.priorities[a] = "EMERGENCY" <=>
           \/ step.states[a].emergency
           \/ \E i \in delivered :
                Events[i].target = a /\ Events[i].type = "EMERGENCY_DECLARED"

(***************************************************************************)
(* No constructor refuses the evidence: every run, batch, result and        *)
(* recommendation that is computed is one the result types accept; a        *)
(* refusal would end a command in the middle.                               *)
(* (domain/resolution_validation.py, domain/recommendation.py)              *)
(***************************************************************************)
EvidenceIsAccepted ==
  /\ conflictRun # None => RunAccepted(conflictRun, AssessmentHorizon)
  /\ review # None =>
       /\ BatchAccepted(review.batch, review.pair)
       /\ ValidationAccepted(review.batch, review.results, review.pair)
       /\ SetAccepted(review.recommended, review.results)

(***************************************************************************)
(* What is recommended can be ordered: an altitude is one that is assigned, *)
(* no higher than the ceiling and at least the change away unless the       *)
(* ceiling or the ground is in the way; nobody is sent below the minimum,   *)
(* or further below it; and no SAFE Candidate left out is cheaper.          *)
(* (generator.py _assignable_altitude_ft, validator.py, service.py)         *)
(***************************************************************************)
CanBeOrdered(c, s, performance) ==
  c.type = "ALTITUDE" =>
    /\ c.value % AssignmentStep = 0 /\ c.value <= performance.ceiling
    /\ \/ Magnitude(c.value - s.alt) >= AltitudeChange
       \/ c.value + AssignmentStep > performance.ceiling
       \/ c.value = 0 /\ s.alt < AltitudeChange
    /\ c.value >= Low(MinimumAltitude, s.alt)

RecommendedCanBeOrdered ==
  review # None =>
    /\ \A c \in review.recommended :
         CanBeOrdered(c, review.states[c.target], Performance[c.target])
    /\ \A c \in ToSet(review.batch) \ review.recommended, d \in review.recommended :
         c.type # "NO_ACTION" /\ review.results[c.id].verdict = "SAFE" => c.cost >= d.cost
=============================================================================
