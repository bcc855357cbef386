--------------------------- MODULE DecisionChain ---------------------------
(***************************************************************************)
(* The chain of orchestrators that turns one detected conflict into one    *)
(* flown manoeuvre: Step, Resolution, Controller Decision, Revalidation of *)
(* a modified manoeuvre, Application.  Each orchestrator is an object any  *)
(* in-process caller may call, in any order and at any tick; what keeps    *)
(* evidence, decision and manoeuvre together are the guards of the calls.  *)
(* The session's commands (module SessionCommands) are one such caller.    *)
(*                                                                         *)
(* A call that raises before it assigned anything changes no state and is  *)
(* no action here.  A call that raises after a change is an action.        *)
(***************************************************************************)
EXTENDS Integers, Sequences

CONSTANTS
    Aircraft,          \* aircraft identifiers of the scenario
    NoAircraft,        \* the target of a Set that holds no SAFE Candidate
    Pairs,             \* the pairs whose risk may ever exceed LOW
    ExceptionOrder,    \* exception_id order of the pairs' queue items
    ManeuverOrder,     \* aircraft by (-vertical margin, aircraft_id)
    Levels,            \* the risk levels in use, LOW among them
    Presence,          \* ticks at which an aircraft is in the sector
    ScheduledAnchors,  \* ticks of an aircraft's recorded motion anchors
    Protected,         \* ticks of a declared emergency or a stabilised final
    Interval,          \* seconds between two scheduled conflict runs
    MaxStep,           \* bound: the longest step a direct caller asks for
    MaxAudit,          \* bound: no decision is recorded past this many
    MaxTick            \* bound: the last tick of a run

LOW      == 0
MEDIUM   == 1
HIGH     == 2
CRITICAL == 3

Never      == -1   \* the tick of a result that does not exist
NoItem     == -1   \* the queue holds no item for the pair
Unassessed == -1   \* the run does not assess the pair

Types == {"ACCEPT", "MODIFY", "REJECT"}

ASSUME AircraftAssumption ==
    /\ NoAircraft \notin Aircraft
    /\ \A p \in Pairs : p \subseteq Aircraft
    /\ Presence \in [Aircraft -> SUBSET Nat]
    /\ ScheduledAnchors \in [Aircraft -> SUBSET Nat]
    /\ Protected \in [Aircraft -> SUBSET Nat]

ASSUME OrderAssumption ==
    /\ ExceptionOrder \in [Pairs -> Nat]
    /\ ManeuverOrder \in [Aircraft -> Nat]
    /\ \A p, q \in Pairs : ExceptionOrder[p] = ExceptionOrder[q] => p = q
    /\ \A a, b \in Aircraft : ManeuverOrder[a] = ManeuverOrder[b] => a = b

ASSUME LevelAssumption == Levels \subseteq {LOW, MEDIUM, HIGH, CRITICAL}

ASSUME TimeAssumption ==
    /\ Interval \in Nat \ {0}
    /\ MaxStep \in Nat
    /\ MaxAudit \in Nat
    /\ MaxTick \in Nat

VARIABLES
    tickCount,       \* SimulationClock: ticks completed in this run
    clockState,      \* SimulationClock: READY, RUNNING or PAUSED
    lastSlot,        \* conflict scheduler: the last slot it ran in
    queue,           \* exception queue: risk level of each pair's item
    step,            \* Step Orchestrator: last_result
    resolution,      \* Resolution Orchestrator: last_result
    published,       \* catalog: ticks of the Sets with a Recommendation
    decision,        \* Decision Orchestrator: last_result
    audit,           \* decision service: entries of the last Audit Log
    revalidation,    \* Modified Revalidation Orchestrator: last_result
    application,     \* Approved Maneuver Orchestrator: last_result
    modApplication,  \* Modified Application Orchestrator: last_result
    anchors          \* controller-approved anchors of the aircraft

clockVars  == <<tickCount, clockState>>
reviewVars == <<resolution, published, decision, audit>>
flightVars == <<revalidation, application, modApplication, anchors>>
vars == <<clockVars, lastSlot, queue, step, reviewVars, flightVars>>

-----------------------------------------------------------------------------
(* Types.  A missing result has tick Never.  Set IDs are unique per tick,   *)
(* so a Recommendation Set is named by the tick that generated it.          *)

Grades  == {NoItem} \cup {LOW, MEDIUM, HIGH, CRITICAL}
TickOrNever == Nat \cup {Never}
Targets == Aircraft \cup {NoAircraft}
PairOrNone == Pairs \cup {{}}

Entries == [set : Nat, type : Types, at : Nat]

Applications ==
    [tick : TickOrNever, pair : PairOrNone, target : Targets,
     resolved : BOOLEAN, clear : BOOLEAN]

NoStep == [tick |-> Never, risks |-> [p \in Pairs |-> Unassessed],
           queue |-> [p \in Pairs |-> NoItem]]
NoResolution == [tick |-> Never, pair |-> {}, target |-> NoAircraft]
NoDecision == [tick |-> Never, type |-> "NONE", set |-> Never, pair |-> {},
               target |-> NoAircraft, revision |-> 0]
NoRevalidation == [tick |-> Never, safe |-> FALSE, pair |-> {},
                   target |-> NoAircraft]
NoApplication == [tick |-> Never, pair |-> {}, target |-> NoAircraft,
                  resolved |-> FALSE, clear |-> FALSE]

TypeOK ==
    /\ tickCount \in Nat
    /\ clockState \in {"READY", "RUNNING", "PAUSED"}
    /\ lastSlot \in TickOrNever
    /\ queue \in [Pairs -> Grades]
    /\ step \in [tick : TickOrNever, risks : [Pairs -> Grades],
                 queue : [Pairs -> Grades]]
    /\ resolution \in [tick : TickOrNever, pair : PairOrNone, target : Targets]
    /\ published \in SUBSET Nat
    /\ decision \in [tick : TickOrNever, type : Types \cup {"NONE"},
                     set : TickOrNever, pair : PairOrNone,
                     target : Targets, revision : Nat]
    /\ audit \in Seq(Entries)
    /\ revalidation \in [tick : TickOrNever, safe : BOOLEAN,
                         pair : PairOrNone, target : Targets]
    /\ application \in Applications
    /\ modApplication \in Applications
    /\ anchors \in SUBSET [aircraft : Aircraft, tick : Nat]

Init ==
    /\ tickCount = 0
    /\ clockState = "READY"
    /\ lastSlot = Never
    /\ queue = [p \in Pairs |-> NoItem]
    /\ step = NoStep
    /\ resolution = NoResolution
    /\ published = {}
    /\ decision = NoDecision
    /\ audit = << >>
    /\ revalidation = NoRevalidation
    /\ application = NoApplication
    /\ modApplication = NoApplication
    /\ anchors = {}

-----------------------------------------------------------------------------
(* Traffic and its assessment.                                              *)

PairPresent(p, t) == \A a \in p : t \in Presence[a]

\* The assessments one conflict run over the traffic of tick t may produce:
\* a level for every pair present, nothing for a pair that has left.
RiskRun(t) ==
    {r \in [Pairs -> Levels \cup {Unassessed}] :
        \A p \in Pairs : (r[p] = Unassessed) <=> ~PairPresent(p, t)}

NotRun == [p \in Pairs |-> Unassessed]

Clear(risks) == \A p \in Pairs : risks[p] <= MEDIUM

\* The run after a manoeuvre was applied at tick t under a SAFE verdict of
\* tick v.  The verdict is the detector's own answer for the traffic of v
\* with the manoeuvre in it, so it binds the run only if v is t.
PostApplyRun(t, v) == {r \in RiskRun(t) : v = t => Clear(r)}

\* refresh(): a pair that was not assessed keeps its item; LOW resolves an
\* item and opens none.
Refreshed(q, risks) ==
    [p \in Pairs |->
        IF risks[p] = Unassessed \/ (risks[p] = LOW /\ q[p] = NoItem)
        THEN q[p]
        ELSE risks[p]]

Actionable(q) == {p \in Pairs : q[p] >= HIGH}

\* The source exceptions of a queue: the highest risk, then exception_id.
Select(q) ==
    {p \in Actionable(q) :
        \A o \in Actionable(q) \ {p} :
            \/ q[o] < q[p]
            \/ q[o] = q[p] /\ ExceptionOrder[p] < ExceptionOrder[o]}

Movable(p, t) == {a \in p : t \notin Protected[a]}

Preferred(p, t) ==
    {a \in Movable(p, t) :
        \A b \in Movable(p, t) \ {a} : ManeuverOrder[a] < ManeuverOrder[b]}

\* CAND-A, CAND-C, CAND-B and CAND-D in the order of their cost.
CandidateRoles == <<"PREFERRED", "OTHER", "PREFERRED", "OTHER">>

\* The aircraft the primary Recommendation moves when the Candidates in
\* safe are the SAFE ones: none if there is none.
PrimaryTargets(p, preferred, safe) ==
    IF safe = {}
    THEN {NoAircraft}
    ELSE LET first == CHOOSE i \in safe : \A j \in safe : i <= j
         IN  IF CandidateRoles[first] = "PREFERRED"
             THEN {preferred}
             ELSE p \ {preferred}

-----------------------------------------------------------------------------
(* The shared clock, as any in-process caller may drive it.                 *)

Play ==
    /\ clockState' = "RUNNING"
    /\ UNCHANGED <<tickCount, lastSlot, queue, step, reviewVars, flightVars>>

Pause ==
    /\ clockState = "RUNNING"
    /\ clockState' = "PAUSED"
    /\ UNCHANGED <<tickCount, lastSlot, queue, step, reviewVars, flightVars>>

\* Someone ticks the clock without computing a Step for the new time.
Tick(n) ==
    /\ n > 0
    /\ clockState = "RUNNING"
    /\ tickCount + n <= MaxTick
    /\ tickCount' = tickCount + n
    /\ UNCHANGED <<clockState, lastSlot, queue, step, reviewVars, flightVars>>

\* clock.reset(), observed by every holder of derived state.  They observe
\* it lazily, but every call of the chain makes all of them do so before it
\* reads anything, so that no call can tell it from a reset of all at once.
\* Only the services' own APIs can, until that call: what they show and record
\* then is dropped by it (module ExceptionQueue has the queue's side of this).
Reset ==
    /\ tickCount' = 0
    /\ clockState' = "READY"
    /\ lastSlot' = Never
    /\ queue' = [p \in Pairs |-> NoItem]
    /\ step' = NoStep
    /\ resolution' = NoResolution
    /\ published' = {}
    /\ decision' = NoDecision
    /\ audit' = << >>
    /\ revalidation' = NoRevalidation
    /\ application' = NoApplication
    /\ modApplication' = NoApplication
    /\ anchors' = {}

-----------------------------------------------------------------------------
(* The calls.  ...At operators say what a call does to its own state, given *)
(* the clock and Step it reads, so that a session command may make it right *)
(* after a Step of its own.                                                 *)

StepAt(t) ==
    LET due == t \div Interval > lastSlot
    IN  /\ t <= MaxTick
        /\ step.tick # t
        /\ tickCount' = t
        /\ lastSlot' = IF due THEN t \div Interval ELSE lastSlot
        /\ \E risks \in IF due THEN RiskRun(t) ELSE {NotRun} :
              /\ queue' = Refreshed(queue, risks)
              /\ step' = [tick |-> t, risks |-> risks, queue |-> queue']

Step(n) ==
    /\ clockState = "RUNNING"
    /\ StepAt(tickCount + n)
    /\ UNCHANGED <<clockState, reviewVars, flightVars>>

ResolveAt(t, s) ==
    /\ s.tick = t
    /\ resolution.tick # t
    /\ \E p \in Select(s.queue) :
          /\ PairPresent(p, t)
          /\ \E preferred \in Preferred(p, t), safe \in SUBSET DOMAIN CandidateRoles :
                \E target \in PrimaryTargets(p, preferred, safe) :
                   /\ resolution' = [tick |-> t, pair |-> p, target |-> target]
                   /\ published' = IF target = NoAircraft
                                   THEN published
                                   ELSE published \cup {t}

Resolve ==
    /\ ResolveAt(tickCount, step)
    /\ UNCHANGED <<clockVars, lastSlot, queue, step, decision, audit, flightVars>>

Decided(log) == {log[i].set : i \in DOMAIN log}

\* The service's own guards: one final decision per Set, and the log's time
\* never runs backwards.
Recordable(set, at) ==
    /\ Len(audit) < MaxAudit
    /\ set \notin Decided(audit)
    /\ \A i \in DOMAIN audit : audit[i].at <= at

\* The orchestrator records one decision per tick.
DecisionDue(t) == decision.tick # t

DecideAt(t, s, type) ==
    /\ resolution.tick # Never
    /\ s.tick = t
    /\ DecisionDue(t)
    /\ resolution.target # NoAircraft
    /\ Recordable(resolution.tick, t)
    /\ audit' = Append(audit, [set |-> resolution.tick, type |-> type, at |-> t])
    /\ decision' = [tick |-> t, type |-> type, set |-> resolution.tick,
                    pair |-> resolution.pair, target |-> resolution.target,
                    revision |-> Len(audit) + 1]

Decide(type) ==
    /\ DecideAt(tickCount, step, type)
    /\ UNCHANGED <<clockVars, lastSlot, queue, step, resolution, published, flightVars>>

\* A decision submitted to the service through its own API, past the
\* orchestrator: any published Set, at any time the service accepts.
Submit(set, type, at) ==
    /\ set \in published
    /\ at >= set
    /\ Recordable(set, at)
    /\ audit' = Append(audit, [set |-> set, type |-> type, at |-> at])
    /\ UNCHANGED <<clockVars, lastSlot, queue, step, resolution, published, decision,
                   flightVars>>

\* Variant: decisions recorded past the orchestrator go unnoticed.
AuditCurrentIgnored == TRUE

\* The decision this result holds is the newest one of the Audit Log.
AuditCurrent == decision.revision = Len(audit)

\* Variants: the age of the result, or that of the Step, is not looked at.
ContemporaneousStep(result) == step.tick = tickCount
ContemporaneousResult(result) == result.tick = step.tick /\ step.tick # Never

\* The result was made on the Step that is the latest, and that is of now.
Contemporaneous(result) == result.tick = step.tick /\ step.tick = tickCount

Revalidate ==
    /\ decision.type = "MODIFY"
    /\ Contemporaneous(decision)
    /\ revalidation.tick # tickCount
    /\ AuditCurrent
    /\ decision.target \in resolution.pair
    /\ PairPresent(resolution.pair, tickCount)
    /\ \E safe \in BOOLEAN :
          revalidation' = [tick |-> tickCount, safe |-> safe,
                           pair |-> resolution.pair, target |-> decision.target]
    /\ UNCHANGED <<clockVars, lastSlot, queue, step, reviewVars, application,
                   modApplication, anchors>>

\* apply_state_anchor(): the target flies the manoeuvre from this tick on.
AnchorAt(a) ==
    /\ clockState = "RUNNING"
    /\ a \in Aircraft
    /\ tickCount \in Presence[a]
    /\ tickCount \notin ScheduledAnchors[a]
    /\ [aircraft |-> a, tick |-> tickCount] \notin anchors
    /\ anchors' = anchors \cup {[aircraft |-> a, tick |-> tickCount]}

\* Variant: the pair looked at afterwards is the worst one, not the source.
ApplicationResultWorst(pair, target, risks) ==
    LET worst == CHOOSE p \in Pairs : \A q \in Pairs : risks[q] <= risks[p]
    IN  [tick |-> tickCount, pair |-> worst, target |-> target,
         resolved |-> risks[worst] = LOW, clear |-> Clear(risks)]

ApplicationResult(pair, target, risks) ==
    [tick |-> tickCount, pair |-> pair, target |-> target,
     resolved |-> risks[pair] = LOW, clear |-> Clear(risks)]

\* Variants: a rejection, or a modification nobody revalidated, is applied.
ApprovedGuardRejected ==
    /\ decision.type \in {"ACCEPT", "REJECT"}
    /\ Contemporaneous(decision)
    /\ application.tick # tickCount
    /\ AuditCurrent

ApprovedGuardModified ==
    /\ decision.type \in {"ACCEPT", "MODIFY"}
    /\ Contemporaneous(decision)
    /\ application.tick # tickCount
    /\ AuditCurrent

ApprovedGuard ==
    /\ decision.type = "ACCEPT"
    /\ Contemporaneous(decision)
    /\ application.tick # tickCount
    /\ AuditCurrent

\* The pair re-evaluated is that of the latest Resolution.
ApplyAndRevalidate ==
    /\ ApprovedGuard
    /\ PairPresent(resolution.pair, tickCount)
    /\ AnchorAt(decision.target)
    /\ \E risks \in PostApplyRun(tickCount, decision.set) :
          /\ queue' = Refreshed(queue, risks)
          /\ application' = ApplicationResult(resolution.pair, decision.target, risks)
    /\ UNCHANGED <<clockVars, lastSlot, step, reviewVars, revalidation, modApplication>>

\* The pair is not in the traffic any more: the call raises, but only after
\* the anchor was set and the queue refreshed.
ApplyWithoutEvidence ==
    /\ ApprovedGuard
    /\ ~PairPresent(resolution.pair, tickCount)
    /\ AnchorAt(decision.target)
    /\ \E risks \in PostApplyRun(tickCount, decision.set) : queue' = Refreshed(queue, risks)
    /\ UNCHANGED <<clockVars, lastSlot, step, reviewVars, revalidation, application,
                   modApplication>>

Validated == revalidation.safe

AuthorizeApplyAndRevalidate ==
    /\ Validated
    /\ Contemporaneous(revalidation)
    /\ modApplication.tick # tickCount
    /\ AuditCurrent
    /\ PairPresent(revalidation.pair, tickCount)
    /\ AnchorAt(revalidation.target)
    /\ \E risks \in PostApplyRun(tickCount, revalidation.tick) :
          /\ queue' = Refreshed(queue, risks)
          /\ modApplication' =
                ApplicationResult(revalidation.pair, revalidation.target, risks)
    /\ UNCHANGED <<clockVars, lastSlot, step, reviewVars, revalidation, application>>

Next ==
    \/ Play
    \/ Pause
    \/ \E n \in 1 .. MaxStep : Tick(n)
    \/ Reset
    \/ \E n \in 0 .. MaxStep : Step(n)
    \/ Resolve
    \/ \E type \in Types : Decide(type)
    \/ \E set \in published, type \in Types, at \in 0 .. MaxTick : Submit(set, type, at)
    \/ Revalidate
    \/ ApplyAndRevalidate
    \/ ApplyWithoutEvidence
    \/ AuthorizeApplyAndRevalidate

Spec == Init /\ [][Next]_vars

-----------------------------------------------------------------------------
(* Properties.                                                              *)

\* What lets a manoeuvre of aircraft a fly from tick t on: the newest audited
\* decision was made at t about a, and it either accepts the recommended
\* manoeuvre or modifies it to one that was revalidated SAFE at t.
Authority(a, t) ==
    /\ audit # << >>
    /\ audit[Len(audit)].at = t
    /\ decision.tick = t
    /\ decision.target = a
    /\ \/ audit[Len(audit)].type = "ACCEPT"
       \/ /\ audit[Len(audit)].type = "MODIFY"
          /\ revalidation.tick = t
          /\ revalidation.safe
          /\ revalidation.target = a

\* No aircraft is ever given a motion anchor without the controller's
\* authority of that very tick (the two Application Orchestrators).
OnlyAuthorisedAnchors ==
    [][\A m \in anchors' \ anchors : Authority(m.aircraft, m.tick)]_vars

\* Whatever was decided since, each manoeuvre flown in this run is still
\* answered for by an audited decision of its tick that is no rejection.
AnchorsAreAudited ==
    \A m \in anchors : \E i \in DOMAIN audit :
        /\ audit[i].at = m.tick
        /\ audit[i].type # "REJECT"

\* One tick sees at most one manoeuvre, also when the approved and the
\* modified path, or two decided Sets, could both be driven to apply.
OneManeuverPerTick ==
    \A m, n \in anchors : m.tick = n.tick => m = n

\* The results form a chain: no orchestrator holds a result newer than the
\* evidence its guards tied it to, and none is ahead of the clock.
EvidenceInOrder ==
    /\ step.tick <= tickCount
    /\ resolution.tick <= step.tick
    /\ decision.tick <= step.tick
    /\ decision.set <= decision.tick
    /\ decision.set <= resolution.tick
    /\ revalidation.tick <= decision.tick
    /\ application.tick <= decision.tick
    /\ modApplication.tick <= revalidation.tick

\* A modified manoeuvre that was flown leaves no pair at HIGH or CRITICAL at
\* the moment it is applied: its SAFE verdict is about that very traffic
\* (the same-tick guards of revalidate and authorize_apply_and_revalidate).
ModifiedFlightIsClear == modApplication.tick # Never => modApplication.clear

\* What apply_and_revalidate says of its re-evaluation: it looks again at
\* the pair this decision was about.
AppliedPairIsDecidedPair ==
    application.tick # Never /\ application.tick = decision.tick
        => application.pair = decision.pair

\* What _preferred_target_aircraft_id and its test promise: an aircraft with
\* a declared emergency or stabilised on final approach is not manoeuvred.
ProtectedIsNotMoved == \A m \in anchors : m.tick \notin Protected[m.aircraft]

\* The authority in force: the decision itself if it accepts, the SAFE
\* revalidation of that decision's tick if it modifies.
Granted ==
    IF decision.type = "ACCEPT"
    THEN {[aircraft |-> decision.target, tick |-> decision.tick]}
    ELSE IF decision.type = "MODIFY" /\ revalidation.tick = decision.tick /\ revalidation.safe
    THEN {[aircraft |-> revalidation.target, tick |-> revalidation.tick]}
    ELSE {}

HA == INSTANCE HumanAuthority WITH now <- tickCount, granted <- Granted, flown <- anchors

\* The chain implements HumanAuthority: under any order of calls, a
\* manoeuvre is flown only on a grant of its own instant, each grant is used
\* at most once, and nothing flown is forgotten before the next run.
ImplementsHumanAuthority == HA!Spec

=============================================================================
