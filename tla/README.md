# SENTRY ATM: a verification project in TLA+

SENTRY ATM is a decision support for one controller.  A simulated sector is stepped by
explicit ticks; conflicts are detected, the worst one is turned into a recommended
manoeuvre, a controller accepts, modifies or rejects it, and only then is an aircraft
given the manoeuvre.  The promise the program is built around is that **the machine
proposes, a person decides, and nothing flies that was not decided on the evidence of
that very moment**.  There is no transaction and no lock behind that promise: six objects
keep one result each, compare each other's timestamps, and observe a clock that anybody
who holds it may tick, pause or reset.  This project models those objects, checks them
with TLC and proves the results that matter with TLAPS.

Paths below are relative to `src/src/sentry_atm/`.

## Inventory

| Component | State | Operations | Interacts through | Hard behaviour | What makes it correct |
|---|---|---|---|---|---|
| Simulation clock (`simulation/clock.py`) | tick count, reset count, READY/RUNNING/PAUSED | play, pause, reset, tick | shared by reference with every other object | anyone may move it between two calls; resets are observed lazily | nobody acts on evidence of another tick or run |
| Traffic engine, synthetic aircraft (`simulation/engine.py`, `synthetic.py`) | recorded and applied motion anchors, presence windows | snapshot, tick, apply_state_anchor | read by Step and Application | departures at the tick of a decision, one anchor per tick, later recorded anchors supersede | one manoeuvre per tick, on authority only |
| Schedulers, timeline (`conflict/scheduler.py`, `prediction/scheduler.py`, `scenario/timeline.py`) | last slot, last run, delivered events | run_if_due, poll_due_events | called by Step | slots by integer division, Steps off the slots | a slot runs once, an event is due once |
| Detection, risk, priority (`conflict/`, `risk/`, `priority/`) | none | assess, evaluate | Step and Application | - | classification tables |
| Exception queue (`exception_queue/service.py`) | items by subject, last Snapshot, revision | refresh, acknowledge, reset | Step and Application refresh it; clients acknowledge | three sources of time, subjects that are no longer assessed, lazy reset | ordered times, acknowledgements hold, runs do not mix |
| Candidates, validation, ranking (`resolution/`, `recommendation/`) | none | generate, validate, recommend | Resolution | - | only SAFE Candidates are recommended |
| Step Orchestrator (`runtime/orchestrator.py`) | last result | step | drives all of the above | raises after the clock has moved | one Step per tick, none of an old run |
| Resolution, Decision, Revalidation, Application Orchestrators (`runtime/*_orchestrator.py`) | last result and its tick each | resolve, decide, revalidate, apply_and_revalidate, authorize_apply_and_revalidate | read each other's last result | calls in any order, raising in the middle, evidence that has aged | human authority over each manoeuvre |
| Decision service (`controller_decision/service.py`) | append-only Audit Log | decide, reset | orchestrator, and its own API | decisions recorded past the orchestrator | one final decision per Set; the newest decision is the one in force |
| Session commands and read model (`runtime/session.py`, `api/session.py`) | none of their own; the stage is derived | eleven commands | HTTP, one request at a time | commands that step first and are refused afterwards; stages derived from what is left behind | the review only moves forward; what is shown is what was flown |
| Browser screens (`infrastructure/http/static/*.js`) | last session read, busy, timer, autoPaused | poll, advance, decide | HTTP against the one session | two screens and two timers interleave | the timer stops for the controller and starts again, a person's pause holds, both screens come to show the session |
| Approach sequencing, regulatory advice (`runtime/resequencing_orchestrator.py`, `regulatory_orchestrator.py`) | none | resequence, advise | read one Step, each on its own | two of them order the same arrivals by different keys | one order, one runway, and holds that agree; stabilised and emergency aircraft keep their place |
| Regulation library (`regulation/`) | the day of a sortie, its phases, the controller in charge | build, plan, insert_emergency, assign, scan | the scenario builder and the advice | limits of volumes, recursive slot times, swaps within a limit, a search over routes | separation on the whole final, nobody loses the runway, shortest way home |
| HTTP adapters (`infrastructure/http/`) | none | dispatch, decode, access control | one request at a time into the session and three services | relays that look local, retries, requests refused half-way | only an operator's command changes the view, retries are refused |
| Playback (`api/playback.py`) | one cached manifest | get_playback | a simulation of its own | cues at fractional offsets | a cue is in the frame of its offset, if there is one; the operator's two both or neither |
| Persistence, geometry API, release tooling | none of the session's | reference data, checks of a build | - | - | - |

`PROJECT.json` lists every component with its status, and under `hazards` what in this
code is hard to test, at the line where it bites, with the properties aimed at it.

## Modules

    HumanAuthority            what is promised: now, at most one grant, what has flown
      ^ refinement (HA in DecisionChain, checked and proved)
    DecisionChain             the six orchestrators under direct calls in any order
      ^ EXTENDS, its actions composed into commands
    SessionCommands           the command service of a session and the derived stage
      | implements (RS in SessionCommands, checked and proved)
      v
    ReviewStages              the stages a client of the session may rely on
      ^ EXTENDS, as the server
    Screens                   the console and the demonstration screen, the network
    ExceptionQueue            the queue service, its clients, lazily observed resets

    SessionView               how one answer is put together of what objects hold
      ^ EXTENDS
    Gateway                   routes, access, decoding, commands, service clients

    FlightMotion              motion, closest approach, prediction
      ^ ManeuverCandidates    alternatives, verdicts, ranking
        ^ AssessedFlight      clock, schedulers, timeline, Steps, approved anchors

    Separation                minima, wake, levels
      ^ RunwayUse             runway slots and holding patterns     RouteSearch
          ^ SortieDay  (RunwayUse and RouteSearch)  <-  Playback
      ^ ArrivalSequence       slots on final, priority, the search that swaps
    Airspace <- PatrolMission volumes, chain of handoffs; phases of a sortie
      ^ ApproachAdvice        the advisories on one Step, over the patrol's flight
    MC*.tla, *.cfg            constants for TLC
    SessionProofs (the chain, then the session)
    ClientProofs  (the screens and the queue, where clients act)
    NaturalOrder  <-  GatewayProofs,  FlightProofs
      ^ RunwayProofs          lists, the runway, the holding stack
          ^ AdviceProofs      the patrol and the advice
          ^ AirfieldProofs    the arrivals, then the sortie and its playback

**DecisionChain.** One variable per orchestrator holds its `last_result`, reduced to what
another guard or a property reads: tick, pair, target, verdict.  A missing result has tick
`Never`.  A Recommendation Set has an identifier unique per tick of a run, so the tick is
its name.  Time is the clock's tick count.  The traffic is data: a conflict run answers any
level of `Levels` for each pair that is present (`RiskRun`), and the safety validator any
set of SAFE Candidates.  What ties the two together is kept: the validator's verdict is the
detector's own answer for the very traffic with the manoeuvre in it, so after an application
under a verdict of the same tick no pair is HIGH or CRITICAL (`PostApplyRun`), while a
verdict of an earlier tick binds nothing.  Calls that raise before they assign anything are
no action; `ApplyWithoutEvidence` is the one that raises after it has set the anchor and
refreshed the queue.  Each call reads the clock and the Step it finds, so the `...At(t, s)`
operators hold a call's effect with both as parameters.  Resets are observed lazily in the
code, but every call of the chain first makes all the holders observe it; no call can tell
that from a reset of everything at once, which is how `Reset` is written.

**SessionCommands.** A command is `Checkpoint` (the derived stage, evidence not behind the
clock), then the command's own Step, then the orchestrator's call on the Step just made
(`ResolveAt(tickCount', step')`).  A command whose call is refused after its Step is an
action of its own (`GenerateRefused`, `DecideRefused`, `ApplyApprovedRefused`).  The local
server (`infrastructure/http/server.py`) is single-threaded and mounts only the session's
API, so a command is one action and the decision service has no other client here.
`ClockDrift` is code of the same process that holds the shared clock.

**ExceptionQueue.** Only what the service keeps per item (status and its three times) and
the time of its Snapshot.  Here the laziness of the reset is the subject: `observed` is the
Step Orchestrator's own count of resets, and until it acts on one the old run's items are
still there.  An acknowledgement carries a time chosen by the client; one ahead of the clock
makes the next refresh raise, which is `StepRefused`: the clock and the conflict slot have
moved, the Step has not been made.

**ReviewStages.** What the command service promises whoever drives it: elapsed seconds, the
stage, the verdict on the modified manoeuvre.  A Step decides the stage until a
recommendation exists, afterwards only commands do; `Apply` of a modification needs SAFE.
`SessionCommands` implements it (`ImplementsReviewStages`), which is what allows the two
screens to be checked over three variables instead of the whole chain.

**Screens.** Both pages are single-threaded scripts, so what a function does between two
`await`s is one action.  `view[s]` is `state.session` of a page, `call[s]` the command it
awaits with what is left to send (`state.busy` is `Busy(s)`), `poll[s]` the read of its
one-second timer.  `Serve` is the single-threaded server taking one request; `Answered`,
`ConsoleAnswer`, `DemoAnswer`, `ConsolePolled` and `DemoPolled` are the continuations after
the `await`s, which in the code as in the model check nothing again before they overwrite
`state.session`.  `decide()` has a second await (the advisory), the phase "advisory", in
which a poll may still replace the view its caller then goes on by (`Continuation`).  An
answer may be lost before or after its command was executed; the script cannot tell which.
With `overtakes` the answers of one page arrive in any order, without it in the order of
its requests.  `held` and `events` are history and bound.

**SessionView, Gateway.** `SessionView` is `get_current` and the lazy resets behind it:
`AllRead` is the state after the six orchestrators have been read in the code's order, each
noticing a reset only now, and the operators named after the fields compute them from it.
`Gateway` is the WSGI application in front: the order in which a request is refused (method,
query, origin, size, fields, then the command's own conditions), the commands over the
derived stage, and the service routes of the queue, the recommendation and the decision.
A request is one action because the server takes one at a time; the composition applications
that mount the service routes run in the same process, and `Drive` is code that moves the
shared clock.  The chain behind a command is the coarse one the view can tell apart
(`DecisionChain` has the fine one).  `WithoutTheAnswer` leaves the last answer out of the
fingerprint: no guard reads it.

**FlightMotion, ManeuverCandidates, AssessedFlight.** Kinematics in a plane
on a compass of twelve headings, each a whole-number vector, in units chosen so that one
tick, one unit of speed and one of distance fit.
Closest approach, its clamped time, the four levels, the prediction at the configured
horizons, the alternatives (turn, climb, descend, slow, nothing), the verdict with its
reasons in the order the constructor demands, the ranking and the acceptance checks of the
result types are those of the code; times of approach are pairs numerator and denominator,
so that no rounding hides a case.  `stale` is the set of holders that have not yet noticed a
reset.

**Separation, RunwayUse, RouteSearch, SortieDay.** The transcribed rule tables; the runway
laid out operation after operation, the emergency put in, the holding stack; the search for
a way home one turn of its loop per action; and `build()`, five actions for its thirteen
steps, which are pure in between.  A unit of time is ten seconds.

**ArrivalSequence.** `optimize_order` one turn per action, with the widening limit, and
`insert_priority`.  A speed is held as its inverse (ten seconds per mile), which makes every
slot time an integer and the comparison of gaps exact.  What is required in trail is the
larger of the wake minimum and the radar minimum with the extra for formations
(`RequiredInTrail`); distances are whole miles, in which the detector's tolerance of
0.0001 NM (`rules.py:272`) does not show.

**Airspace, PatrolMission, ApproachAdvice.** The published volumes with closed limits, the
chain of handoffs with half-open steps, the phases a sortie is in by position and marks, and
on top the two advisory orchestrators over a patrol and two other arrivals.  A recovery may
be declared at any time and any number of times, as `declare_recovery` has no condition: the
last time is kept, and an emergency once declared stays one.  Lateral
geometry is a small set of named cells; which volumes cover a cell is a constant.

**Playback.** The contract made of the day's steps and the frames that carry cues of exactly
their offset.  Offsets are in half units: the timetable is drawn from a continuous
distribution, a roll is a square root, the way home a distance over a speed, and the origin
of all offsets is the first sample of a track.  `Parts` says of three stretches of the day
(up to the declaration, from there to the landing, and to the last use of the runway)
whether each misses a whole unit, and `LeadIn` may be odd; a half stands for any fraction,
since what is asked of an offset is only whether a frame has it.  The decision follows the
declaration by whole seconds (`sortie.py`, steps 7, 9 and 10).

**HumanAuthority.** Three variables: an instant, at most one grant (one aircraft, one
instant) and the manoeuvres flown.  Under the mapping, an ACCEPT grants its recommended
aircraft at its tick, a MODIFY grants when its revalidation of that tick is SAFE, a REJECT
grants nothing, and applying is `Fly`.

## Runs

| Run | Question | Bounds |
|---|---|---|
| `chain` | Can any order of direct calls, clock moves and decisions submitted past the orchestrator fly what was not decided, twice, or on aged evidence? | 3 aircraft, 2 pairs sharing one aircraft, ticks 0..3, Steps of 0..2 s, slot of 2 s, 2 decisions, levels LOW and HIGH |
| `session` | Can any sequence of commands lead the review backwards, past the controller, or to two flights? | the same aircraft, ticks 0..8, commands' Steps scaled to 3, 1 and 2 s, ADVANCE of 1 or 2 s, levels LOW, MEDIUM, HIGH |
| `queue` | Do Steps, applications, client-dated acknowledgements and lazy resets keep the queue's times and runs apart? | one pair that leaves, one aircraft that stays, ticks 0..4, one reset |
| `screens` | With clicks at any moment and answers lost or overtaking, does the clock stop for the controller and only for him, start again, and do both screens end up true? | see below |
| `session_protected`, `session_resolved`, `advice_emergency` | What a comment or a document says and the code does not do; see the findings | as above |
| `gateway` | Do the answers tell one story, and does only what may change it change it, with requests repeated, ill formed, out of turn or relayed, beside service clients and code that moves the clock? | ticks 0..4, one reset, a flaw of each kind that is refused at another place, two pairs |
| `flight` | Does what was predicted and validated come true in flight, and does no constructor refuse what was computed? | 4 aircraft, 5 scenarios, 8 ticks, Steps of 0, 1 and 3, resets at any moment |
| `sortie` | Does a day with an emergency keep everybody on the runway, in a hold or on a legal route, and can it be played back? | 2,048 days: 32 timetables, with repeated callsigns among them, over all blockages of six links; one patrol, three levels to hold on |
| `arrivals` | Is everybody in trail on the whole final, whatever is swapped or put in? | 4 arrivals of 3 weights and 3 speeds, one of them a formation, 3 distances each, at most one emergency, limit 2, 4 turns |
| `advice` | Do the four advisories agree with one another, and both models of the airspace with the handoffs? | a patrol over 6 cells and every published limit, declarations at any time, two arrivals, 8 ticks |

Two pairs that share an aircraft give a choice of source exception and of target; a third
aircraft that leaves makes the pair of a decision vanish between the decision and its
application; a recorded anchor and an emergency fall inside the run; four ticks hold two
slots and a Step off the slots, enough for a result to be too old by one Step and for the
next one to be made.  Two decisions suffice for one to supersede the other.  `HIGH` stands
for every level that matters equally (CRITICAL differs only in the selection of the
source, which two levels would order the same way; the proofs cover all four).  The proofs
below are for every value of all these constants, so the bounds matter only to what is
not proved.

*Bounds of the later runs.*  `gateway`: four ticks hold a detection, a recommendation, a
decision and an application with one tick between them, and the reset lets a second run
begin with the first one's results still held.  `flight`: the horizon of the validation is
eight ticks, the whole run; the recorded anchor at tick 6 and the emergency at tick 7 fall
inside it; the presence windows leave and re-enter inside it.  `sortie`: two movements
around the take-off and four around the return are as many as can compete for the runway
with the fighter; three levels are one fewer than can be asked for, and a refusal does happen.
`arrivals`: with four arrivals a swap may move one twice, which is what the limit is about.
`advice`: every volume has a cell inside and levels on, above and below each limit that the
tracks cross.

*Bounds of `screens`.*  Three clicks or losses (`MaxEvents`), each of which can come at any
moment: two are enough for a decision with its continuation against a pause or a jump, the
third for a loss or for a second decision.  A scenario of two seconds at one second per
timer turn, one step to jump to.  `Observed` holds MONITORING and CONFLICT_DETECTED (the
screens treat DEVIATION_DETECTED as MONITORING).  The Steps of the console's commands
(5 and 15 s of a scenario of thousands) are scaled to 0, so that a decision does not end
the scenario.  The screens are loaded at READY or reloaded at a conflict, which leaves
the three events for the whole branch of a modification.  Each screen has one read
outstanding at a time: the browser may have more on a slow network, but each of them is
treated alike and the second adds no new kind of overtaking to one that may already
overtake a command.  Which buttons are offered follows the view; that a page redraws them
only after a change is left out.

*Fairness.*  `Screens` states most of it: weak fairness of the server, of the timers
(`setInterval` fires again whatever the last turn did) and of what a page does once an
answer or a refusal has arrived (`fetch` settles).  Persons owe nothing, and no
request need be lost.  With `MaxEvents` finitely many losses are possible, which is the
assumption behind `ScreensCatchUp`: after the last click and the last loss the screens come
to agree with the server and the clock stands, at a gate or at the end.  `SortieDay` is
weakly fair to the planner's loop alone (`PlanningEnds`): once begun, it runs to its end
inside one call.  All other properties are safety properties; a command or a call may always
fail to come.  Deadlock is checked except in `sortie`, `arrivals` and `advice`, whose days
end, and in `gateway`, whose process may be stopped at the bounds of its clock.

## What is proved

For every set of aircraft, pairs, scenario, slot length and bound:

* the chain (`SessionProofs`): types, `EvidenceInOrder`, `AnchorsAreAudited`,
  `OneManeuverPerTick`, `ModifiedFlightIsClear`, `OnlyAuthorisedAnchors`, and that the
  chain implements `HumanAuthority`;
* the session (`SessionProofs`): types, `OneManeuverPerRun`, `AppliedPairIsDecidedPair`,
  `ResolvedShowsTheFlight`, `OvertakenDecisionNeverFlies`, `ReviewMovesForward`, and the
  same refinement; and that the session implements `ReviewStages`;
* the screens (`ClientProofs`): types, `PersonKeepsThePause` and
  `OrderedAnswersResumeAfterTheChain`, for any duration, pace, steps and number of events;
* the queue (`ClientProofs`): types, `ItemsInOrder`, `SnapshotCoversStep` (within
  the invariant and as `CoveredStep`), `StepOfThisRun`, `AcknowledgementHolds`,
  `NewRunForgetsTheOld`;
* the gateway (`GatewayProofs`): `ViewTellsOneStory`, `PrimaryConflictIsKept`,
  `OnlyCommandsChangeTheView`, `RetriesAreRefused`, for any pairs, ticks, resets and clients;
* flight (`FlightProofs`): `VerdictHoldsInFlight`, `PredictionIsFlown`, `ConflictEscalates`,
  `EventsAgree`, `RecommendedCanBeOrdered`, `EvidenceIsAccepted`, for any positions, speeds,
  scenario, profile and slots;
* the arrivals (`AirfieldProofs`): for every pair of speeds, weights and length of final the
  gap asked for keeps the pair in trail on the whole of it (`GapKeepsInTrail`) and clear of
  what the detector calls a wake violation (`SpacingKeepsWake`), and every sequence laid
  out, searched or with an emergency put in keeps that gap (`SlotsAreSeparated`); the search
  never lengthens a sequence, keeps its limit and its emergencies (`SearchKeepsItsPromises`);
  priority costs only those behind it (`PriorityIsMeasured`); a derived cruising level
  passes the check of levels by direction;
* patrol and advice (`AdviceProofs`): `SortieIsOrdered`, `HandoffsAgree`, `OrderIsFair`,
  `AdviceAgrees`, for any track and plan of cells, any declarations, number of arrivals, fleet
  and patterns;
* the sortie (`AirfieldProofs`): `RecoveryIsShortest`, for any fixes, distances and blocked
  links; `NobodyLosesTheRunway`, for any timetable, patrols and fleet; `HoldsAreApart`, for
  any patterns and any timetable, also where callsigns repeat; `PlaybackShowsTheDay`, for
  every day that leaves two operations behind the emergency, any lead-in and any fractions.

With these, every invariant that a run checks is a theorem, and so is every action property
and refinement; what is left to TLC alone is liveness and the three violations.

### Assumptions

The named ASSUMEs of the modules, which TLC evaluates for the constants of each run.  Pairs
are sets of aircraft, the two orders are injective, times are natural numbers, the slot is
not empty.  Those that say something about the program's data:

* `CorridorAssumption` (`Airspace`): nothing of the neighbours T18, T19 and T20 lies over
  T17, as the polygons of `regulation/reference/airspace.json` have it.
* `MissionAssumption`: no sample is below the aerodrome.  `unit_at` needs it: below the
  floor of the control zone no step of the chain covers, and the fallback is the last
  step, ACC, for an aircraft that stands on the ground.
* `AdviceAssumption`: ids are distinct and the picture lists aircraft in their order; an
  aircraft has a type of the fleet.  `PatternsAssumption`: each pattern has a floor.
* `FleetAssumption`: a longer roll takes no less time, since `time_to_roll_distance_s` is
  the time of the take-off roll by the square root of the distance in runway lengths
  (`runway.py:110-120`).
* `RouteAssumption`: distances are symmetric and keep the triangle inequality; fixes are
  finitely many and the training area is none of them.  `separation_distance_nm` takes the
  curvature at the mean latitude of each pair, so that for points nearly in line it may
  miss the inequality: by 0.001 NM at most over the published waypoints.
* `CallsignAssumption`: neither an airline nor a patrol flies under the fighter's callsign,
  no airline under a patrol's; both are written into `SortieScenario`.
* `PlaybackAssumption`: the lead-in is any number of half units; the way home takes 30 s or
  more and the fighter's landing keeps the runway 50 s or more.  The nearest approach fix is
  8.7 NM from a training area, and every fast jet of `regulation/reference/aircraft.json`
  occupies the runway for 50 s.  Without the first the landing would come before the plan for
  it, and the contract would refuse its own cues.

Two are hypotheses of single theorems:

* `ReviewCanBeCommanded`, of `EvidenceIsAlwaysAccepted`: the pair under review is not below
  the ground by more than the climb of a template, and the slowest speed it can be told is
  positive.  The code allows a minimum speed of 0, for which the constructor of a command
  refuses what the generator makes.  (`RecommendedCanBeOrdered` says the
  same of altitudes: a change is smaller than the template's only where the ceiling or the
  ground is in the way.)
* `FinalIsLong`, of `PriorityMeasured`: no distance required between two arrivals is longer
  than the final they share.  The legs behind TURTU, where they join, add up to more than
  12 NM (`regulation/reference/procedures.json:250-256`, `sequencing.py:142-157`), and no
  pair needs more than 8 (a formation adds at most 2 to a radar minimum of 3).

### Arguments

*The chain's inductive invariant* `IInv`.  None of the properties is inductive alone: that an
anchor is audited needs that the decision held by the orchestrator is one of the log, at
the revision it remembers (`DecisionRecorded`); that the revalidated target is the decided one
needs `RevalidationOfDecision`; that one tick sees one manoeuvre needs that anchors of
the current tick exist only if the decision of this tick has been used.  The steps are split
into those that only review (`ReviewStep`: no anchor, no application), the revalidation, the
two flights and the reset; the first class is treated once, which keeps the session's proofs
short, since its commands are combinations of such steps.

*The session's* `SInv` adds that what the chain holds is what the stage says: the log has at
most one entry, the decided pair is that of the Resolution, at most one anchor exists and if
one does no further application can pass the stage and the same-tick guards, also after an
application that raised.

*The queue's* `IInv` relates the items' times to the Snapshot's and, once the reset was acted
on, the Step's tick to the clock.

*The screens'* invariant has two parts.  `OneReasonToStand`: the demonstration screen stands
because a person or because its gate made it stand, never both.  `OldPictureComesFirst`: in a
network that keeps order, if a read was answered before the chain of decisions began and its
answer is still under way, then so is the ADVANCE that began the chain, so that the screen is
busy and does not resume on that answer; only its own ADVANCE leads from a stage outside the
chain into it.  Where answers overtake, that ADVANCE may have been answered first (see the
observations).

*The gateway's* `GatewayInv` is about the session as it is once every object has noticed the
reset (`AllRead`), which is what any answer reads: whatever is held then is of this run and
has what it was made from, a Step after the manoeuvre shows it flown, and the conflict under
review is the one the Step found.  That each command carried out has left its result is
what makes its repetition refused.

*Flight's* `FlightInv`: what a holder of evidence keeps is described by the anchors of this run,
as long as no anchor of that time or later has been approved since.  Three lemmas about motion
carry it to the properties: what is SAFE for a horizon stays so while it is flown
(`SafetyLasts`), a conflict only comes nearer until it has been met
(`ConflictComesNearer`), and flying twice is flying on (`MotionComposes`).

*The arrivals'* `SearchInv` says that an emergency stands in the search's order exactly where
it stands in first come, first served, and that the order holds nobody else, which is what
makes the widened limit still a limit.  `GapKeepsInTrail` splits on who is faster: with a
faster follower the distance shrinks towards the threshold, with a faster leader it is
smallest where the follower joins.  `SequencesInv` says that every schedule held is the
recursion over some order, or an emergency put into the first one; gaps and costs are then
inductions over places.  That nobody behind the emergency gains needs that a gap is no more
than the two gaps by way of a third aircraft, and that `FinalIsLong`.

*The patrol's* `MissionInv`: the marks of a sortie follow one another, that of leaving the
area is made only once a recovery has been declared, and whoever was handed the track last
controls it.  It says nothing of the order of the declaration kept and of the landing, or of
leaving, because a later declaration overwrites the former one; what is in order is the
declaration in force at the sample that marks the leaving, which is why `SortieIsOrdered` is
a property of steps.  `CorridorUnits` is the heart of `HandoffsAgree`: over the corridor
Cheongju has everything up to and at the limit and nothing above it, although the chain's
steps are half open and the volumes closed.

*The advice's* `AdviceInv` is small, since both orchestrators are pure: who is present has an id
and a distance.  The work is in the operators.  Sorting is by ranks: a key that orders
strictly gives everybody another rank (`RanksExist`), hence a list of everybody
(`SortedLists`).  An emergency taken from its place and put behind the stabilised leaves the
others at places computed from their old ones (`PlacesReordered`), in the same order
(`NewPlaces`); only arrivals between the two places move back, and they are not stabilised
because the sorting key has the stabilised in front.  The holding stack is a recursion
over requests; each takes a level that is free or is refused (`StackedOne`), so that
by induction all are accounted for and no two share a level (`StackAccounts`).

*The way home's* `PlannerInv` is the argument of A* written for a heap that is never
cleaned.  Over the legs as they are for one goal, `Lengths` holds what ways there are, and
the invariant says of the search: what is settled has its shortest length; whatever is
known has a way of its length, and links that lead back to the start by ever smaller ones,
so that the chain read off at the end is finite and as long as was said; and every neighbour
of the settled has an entry in the heap no longer than by way of them.  Then the smallest
entry is shortest: a shorter way would leave the settled somewhere, and there the heap has
an entry that, by the triangle inequality, is smaller still.  An empty heap with the goal
unsettled therefore means that there is no way.

*The runway's* `RunwayInv`: operations laid out in any order keep apart (`LaidOutKeepApart`),
since each is behind its predecessor by a requirement that is at least the leader's
occupancy and nobody's time goes back; and the emergency is always put in front
(`EmergencyLeads`), because the first trial has it first and there it lands at its
earliest, so that the search for a later place never begins.  That the others are all there,
once, is that sorting and taking out of a list permute places (`SortedIsPermutation`,
`PartIsTaken`, `TakenTwice`).

*The holds* need, beyond what `AdviceProofs` uses, that each hold grants what was asked
(`StackGrants`: whole circuits, rounded up) and that a stack refuses only when every level
of every pattern is taken, which is as many holds as there are levels (`FullIsCapacity`, by
induction over the patterns).  A callsign does not tell two requests apart, so what is
carried along is an injection from the holds to the requests they answer, extended with each
hold that is added; the level of a new hold is free among all that went before.

*The playback's* cues are in order because `TimesInv` and `RunwayInv` put take-off,
declaration, decision, landing and the last slot one after another, and a fraction
never turns the order round; a cue is in the frame of its offset and in no other when that is
whole, and in none otherwise (`CueInItsFrame`).  The second operator cue is nine whole units
behind the first (`HalvesOf`), which is why they are shown both or neither.

*Induction.*  The library states induction for an operator P(_), which no prover here
instantiates.  `NaturalOrder` states it for a set of numbers (`SetInduction`, from the
well-foundedness of < on Nat), and with it that a recursion along a sequence has a solution
(`RecursionExists`) and that a set of numbers has a least and a bounded one a greatest member.
That is enough for slot times, holding stacks and searches over places.

### Model-checked only

Liveness (`GateIsLeft`, `ScreensCatchUp`, `PlanningEnds`: fairness is out of the prover's
reach).  The three violations.  And that all of the above is reachable and not
vacuous: each property has a mutant of the code that breaks it.

`TypeCorrectness` of the chain, of the session and of the queue, `OneManeuverPerTick`,
`ReviewMovesForward`, `StepOfThisRun` and the session's refinement of `HumanAuthority` are
proved and no longer checked by a run of their own; the runs keep the properties that say
more.

## Findings

Places where a document or a comment says more than the code does; each is a run that TLC
must violate, with the quotation in `PROJECT.json`:

1. an aircraft that declares an emergency after the recommendation is still manoeuvred
   (`session_protected`);
2. the stage CONFLICT_RESOLVED may be shown with `resolved = false` (`session_resolved`);
3. an emergency that is itself stabilised is put behind the other stabilised arrivals
   (`advice_emergency`).

## Observations

Met while modelling, without a run of their own.  Most are how the models behave too.

*Decisions.*  An application called directly re-evaluates the pair of the latest Resolution,
which need not be the decided one.  A SAFE verdict is that of the recommendation's tick and
is flown from the state of the decision's.  A refused decision command has moved the clock,
and a refused application (409 after the anchor) leaves the view with the Step's traffic of
the same tick.  The console offers the application of a modification whose validation
blocked it.  ADVANCE_TO_CONFLICT repeated while still MONITORING advances again.  An
acknowledgement dated ahead makes later Steps fail after the clock has moved; only RESET
leads out.

*Views.*  The queue, recommendation and decision routes show the old run until some
orchestrator is read.  `_map_deviation` (`api/session.py:713`) takes `next` without a default
and fails if the deviating aircraft has left.  A read answered before a gate and delivered
after it starts the clock at the gate (`scenario.js:308`, against docs/web_ui.md:228).  The
advisory asset of `web.py` synchronises a reset although it is a GET.  docs/session_api.md
section 7 says the command line takes only `--port`; it has `--host` and `--control`.

*Regulation.*  `handoff.py:134` falls back to the chain, which names CHEONGJU TWR for any
aircraft at 5,192 ft or below outside every volume; above FL145 over T19 it names ACC where
the docstring (121-122) says JUNGWON APP.  `_runway_sequence` sorts by distance and the
resequencing by phase.  `mission.py:205` cannot be reached. `declare_recovery` has no
condition: a second declaration overwrites the time of the first (`mission.py:212`),
possibly with one after `off_station_s` or after the landing.  The departure wake behind a
heavy is not kept when a landing is in between (`runway.py:282-290`), nor is wake between
arrivals that are not neighbours.  The emergency is put in without regard to what it leaves
idle (`runway.py:310`, docstring 302-306), and the first place tried is always taken, so
that it is put in front of everybody (`EmergencyLeads`).  A synthesized timetable may draw
one callsign twice (`schedule.py:165-176`), and two holds may then bear one callsign.  A
formation whose wake category is unknown gets the unconditional 3 NM, less than the 4 or 5
NM it would get if it were known (`separation.py:83-85` means the wider side).

*Resolution.*  The conflict type checks the horizontal closest approach only
(docs/conflict.md:80-84).  Secondary conflicts include those there were before
(docs/resolution.md:158).  An aircraft that appears later is not in the validated traffic.
An altitude rounded above the ceiling falls one step below it even for a climb (documented).
`_align_state_to_snapshot` drops the wake category; nothing reaches it today.

*Playback.*  In the default sortie the cues of the steps 12 and 13 lie at fractional offsets
(3725.87 s and 3893.01 s), so that none of the 4,484 frames carries them, although
docs/animated_demo.md:76 says frames carry cue identifiers.  On other seeds (half of the
first ten) the shift or the declaration is fractional too, and then no frame carries the
cues of the steps 7, 9 and 10 either, where the screen stops for the controller, although
docs/animated_demo.md:106 says that the exact time of such a cue is always rendered first.
If the last slot of a day came less than a minute after the emergency's landing, the
contract would refuse its own cues; the default day is not such a day, and
`PlaybackShowsTheDay` assumes two operations are left.

## Not modelled, and why

The geometry of `regulation/geometry.py`, `conflict.py`, `resolution.py` and the mixed
block (`mbe.py`) and the geometry API: floating point over latitude and longitude; the
models keep the cells, distances and verdicts they produce.  The learned arrival predictor
and the synthesis of tracks.  Scenario data (the configurations stand for it).  Wording,
JSON layout, static files.  Persistence: reference data only; no state of a session survives
its process, so there is no recovery to model.  Release scripts.  In the screens: drawing,
layers, selection, replay rate and the read-only visitor.

The stage after a pair has departed (its item stays CRITICAL and every GENERATE is refused)
is modelled, but no document promises that a recommendation can always be had, so no
property is stated about it.

## Plan

Modelled so far, in the order of their weight: the chain, the session, the queue, the
screens; flight, Candidates and schedulers; the answer and its gateway; runway, holds,
routes and the sortie's day; arrivals; airspace, mission and advice; playback.  What would
come next:

1. `regulation/conflict.py` and `resolution.py` over the plane of `FlightMotion`, against
   the chain's own detector;
2. the predicted arrival times of `regulation/predict.py`, as an error of bounded size in
   `Earliest`, and what the arrival sequence keeps under it.
