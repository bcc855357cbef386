-------------------------- MODULE SessionCommands --------------------------
(***************************************************************************)
(* The command service of a session: one handler per command over the      *)
(* chain of orchestrators, each guarded by the stage that the read API     *)
(* derives from the results the chain holds.  Commands are handled one at  *)
(* a time by a single-threaded server, so a command is one action.         *)
(*                                                                         *)
(* A command that is refused before it changed anything is no action.  A   *)
(* command that is refused (HTTP 409) after the Step it makes first is the *)
(* ...Refused action of that command.                                      *)
(***************************************************************************)
EXTENDS DecisionChain

CONSTANTS
    DeviationTicks,     \* ticks at which some priority is not ROUTINE
    ToConflictSteps,    \* the Step of ADVANCE_TO_CONFLICT
    GenerateSteps,      \* the Step of GENERATE_RECOMMENDATION
    DecisionSteps,      \* the Step of ACCEPT, MODIFY and REJECT
    MaxAdvance          \* bound: the longest ADVANCE

ASSUME SessionAssumption ==
    /\ DeviationTicks \subseteq Nat
    /\ ToConflictSteps \in Nat \ {0}
    /\ GenerateSteps \in Nat \ {0}
    /\ DecisionSteps \in Nat \ {0}
    /\ MaxAdvance \in Nat

\* Variant: an authorised manoeuvre counts as an applied one.
AppliedAhead == application.tick # Never \/ revalidation.safe

Applied == application.tick # Never \/ modApplication.tick # Never

\* The result the session shows: the modified application if there is one.
Shown == IF modApplication.tick # Never THEN modApplication ELSE application

\* _stage(): the strongest evidence that exists.
Stage ==
    IF Applied THEN "CONFLICT_RESOLVED"
    ELSE IF revalidation.tick # Never THEN "MODIFICATION_REVALIDATED"
    ELSE IF decision.type = "MODIFY" THEN "DECISION_MODIFIED"
    ELSE IF decision.type = "REJECT" THEN "DECISION_REJECTED"
    ELSE IF decision.type = "ACCEPT" THEN "DECISION_ACCEPTED"
    ELSE IF resolution.tick # Never THEN "RECOMMENDATION_AVAILABLE"
    ELSE IF step.tick = Never THEN "READY"
    ELSE IF \E p \in Pairs : step.risks[p] >= HIGH THEN "CONFLICT_DETECTED"
    ELSE IF step.tick \in DeviationTicks THEN "DEVIATION_DETECTED"
    ELSE "MONITORING"

\* Variant: the stage is not looked at.
CheckpointIgnored(stage) == step.tick \in {Never, tickCount}

\* What execute() asks of every command but RESET and ADVANCE: no evidence
\* behind the clock, and the stage the command belongs to.
Checkpoint(stage) ==
    /\ step.tick \in {Never, tickCount}
    /\ Stage = stage

-----------------------------------------------------------------------------
(* The clock commands.                                                      *)

Start ==
    /\ Checkpoint("READY")
    /\ clockState' = "RUNNING"
    /\ StepAt(tickCount)
    /\ UNCHANGED <<reviewVars, flightVars>>

\* ADVANCE is good in every stage and starts a clock that stands.
Advance(n) ==
    /\ step.tick \in {Never, tickCount}
    /\ clockState' = "RUNNING"
    /\ StepAt(tickCount + n)
    /\ UNCHANGED <<reviewVars, flightVars>>

AdvanceToConflict ==
    /\ Checkpoint("MONITORING")
    /\ Step(ToConflictSteps)

-----------------------------------------------------------------------------
(* Recommendation and decision: a Step first, then the orchestrator.        *)

StepThen(stage, n) ==
    /\ Checkpoint(stage)
    /\ clockState = "RUNNING"
    /\ StepAt(tickCount + n)
    /\ UNCHANGED clockState

Resolvable(t, s) ==
    \E p \in Select(s.queue) : PairPresent(p, t) /\ Movable(p, t) # {}

GenerateRecommendation ==
    /\ StepThen("CONFLICT_DETECTED", GenerateSteps)
    /\ ResolveAt(tickCount', step')
    /\ UNCHANGED <<decision, audit, flightVars>>

\* The worst item's pair has left, or neither of its aircraft may be moved.
GenerateRefused ==
    /\ StepThen("CONFLICT_DETECTED", GenerateSteps)
    /\ ~Resolvable(tickCount', step')
    /\ UNCHANGED <<reviewVars, flightVars>>

DecideRecommendation(type) ==
    /\ StepThen("RECOMMENDATION_AVAILABLE", DecisionSteps)
    /\ DecideAt(tickCount', step', type)
    /\ UNCHANGED <<resolution, published, flightVars>>

\* The Set holds no SAFE Candidate to decide on.
DecideRefused ==
    /\ StepThen("RECOMMENDATION_AVAILABLE", DecisionSteps)
    /\ resolution.target = NoAircraft
    /\ UNCHANGED <<reviewVars, flightVars>>

-----------------------------------------------------------------------------
(* Revalidation and application: on the Step of the decision, no new one.   *)

RevalidateModifiedManeuver ==
    /\ Checkpoint("DECISION_MODIFIED")
    /\ Revalidate

ApplyValidatedModifiedManeuver ==
    /\ Checkpoint("MODIFICATION_REVALIDATED")
    /\ AuthorizeApplyAndRevalidate

ApplyApprovedManeuver ==
    /\ Checkpoint("DECISION_ACCEPTED")
    /\ ApplyAndRevalidate

ApplyApprovedRefused ==
    /\ Checkpoint("DECISION_ACCEPTED")
    /\ ApplyWithoutEvidence

\* Code of the same process that drives the shared clock past the session.
ClockDrift ==
    \/ Pause
    \/ \E n \in 1 .. MaxStep : Tick(n)

SessionNext ==
    \/ Start
    \/ \E n \in 1 .. MaxAdvance : Advance(n)
    \/ AdvanceToConflict
    \/ GenerateRecommendation
    \/ GenerateRefused
    \/ \E type \in Types : DecideRecommendation(type)
    \/ DecideRefused
    \/ RevalidateModifiedManeuver
    \/ ApplyValidatedModifiedManeuver
    \/ ApplyApprovedManeuver
    \/ ApplyApprovedRefused
    \/ Reset
    \/ ClockDrift

SessionSpec == Init /\ [][SessionNext]_vars

-----------------------------------------------------------------------------
(* Properties.                                                              *)

\* One run of a session flies at most one manoeuvre, whatever is retried:
\* also when an application was refused after it had set its anchor.
OneManeuverPerRun == \A m, n \in anchors : m = n

StageOrder ==
    <<"RECOMMENDATION_AVAILABLE", "DECISION_ACCEPTED", "DECISION_MODIFIED",
      "DECISION_REJECTED", "MODIFICATION_REVALIDATED", "CONFLICT_RESOLVED">>

\* The stages each stage of the review may be followed by in the same run.
Followers(stage) ==
    CASE stage = "RECOMMENDATION_AVAILABLE" -> {StageOrder[i] : i \in 1 .. 4}
      [] stage = "DECISION_ACCEPTED" -> {"DECISION_ACCEPTED", "CONFLICT_RESOLVED"}
      [] stage = "DECISION_MODIFIED" -> {"DECISION_MODIFIED", "MODIFICATION_REVALIDATED"}
      [] stage = "MODIFICATION_REVALIDATED" ->
            {"MODIFICATION_REVALIDATED", "CONFLICT_RESOLVED"}
      [] OTHER -> {stage}

\* Once a recommendation exists the derived stage only moves forward along
\* the review, one command at a time, until RESET: no command, refused or
\* not, leads back, skips the controller or skips the revalidation.
ReviewMovesForward ==
    [][\A stage \in {StageOrder[i] : i \in 1 .. 6} :
          Stage = stage => Stage' \in Followers(stage) \cup {"READY"}]_vars

\* A session that shows a resolved conflict shows the manoeuvre that was
\* flown, decided in this run by the one entry of its Audit Log.
ResolvedShowsTheFlight ==
    Stage = "CONFLICT_RESOLVED" =>
        /\ [aircraft |-> Shown.target, tick |-> Shown.tick] \in anchors
        /\ Len(audit) = 1
        /\ audit[1].at = Shown.tick
        /\ audit[1].type = IF Shown = modApplication THEN "MODIFY" ELSE "ACCEPT"

\* A decision that time has overtaken can never be made to fly any more:
\* neither path lets it through, however the commands are retried.
OvertakenDecisionNeverFlies ==
    [][decision.tick # Never /\ decision.tick # tickCount => anchors' \subseteq anchors]_vars

RS == INSTANCE ReviewStages WITH
          elapsed <- tickCount, stage <- Stage, safe <- revalidation.safe,
          Observed <- {"MONITORING", "DEVIATION_DETECTED", "CONFLICT_DETECTED"},
          Seconds <- (0 .. MaxAdvance) \cup (0 .. MaxStep)
                        \cup {ToConflictSteps, GenerateSteps, DecisionSteps}

\* A session implements ReviewStages, on which the screens rely: whatever
\* the evidence looks like, each command, refused or not, moves the derived
\* stage, the clock and the verdict on a modification only as stated there.
ImplementsReviewStages == RS!Spec

\* What docs/session_api.md says of the derived stage: it cannot show a
\* state ahead of the evidence, so CONFLICT_RESOLVED has resolved = true.
ResolvedStageHasEvidence == Stage = "CONFLICT_RESOLVED" => Shown.resolved

=============================================================================
