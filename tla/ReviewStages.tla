---------------------------- MODULE ReviewStages ----------------------------
(***************************************************************************)
(* What the command service of a session promises the screens that drive   *)
(* it: which stages a command leads through, that time never runs back     *)
(* within a run, and that a modified manoeuvre flies only if it was found  *)
(* SAFE.  How the stage comes about (queue, orchestrators, evidence) is the *)
(* matter of SessionCommands, which implements this.                       *)
(***************************************************************************)
EXTENDS Naturals

CONSTANTS
    Seconds,        \* what one command, or a drift of the clock, may add to it
    Observed        \* what a Step shows while no recommendation exists

ASSUME StagesAssumption ==
    /\ Seconds \subseteq Nat
    /\ Observed \subseteq {"MONITORING", "DEVIATION_DETECTED", "CONFLICT_DETECTED"}

VARIABLES
    elapsed,        \* seconds completed in this run
    stage,          \* the stage the session shows
    safe            \* the verdict on the modified manoeuvre, FALSE if none

serverVars == <<elapsed, stage, safe>>

Verdicts ==
    [ACCEPT |-> "DECISION_ACCEPTED", MODIFY |-> "DECISION_MODIFIED",
     REJECT |-> "DECISION_REJECTED"]

Init ==
    /\ elapsed = 0
    /\ stage = "READY"
    /\ safe = FALSE

\* A new Step n seconds on: it decides the stage until a recommendation does.
Flow(n) ==
    /\ elapsed' = elapsed + n
    /\ IF stage \in Observed \cup {"READY"} THEN stage' \in Observed ELSE UNCHANGED stage
    /\ UNCHANGED safe

Start == stage = "READY" /\ Flow(0)

Advance(n) == Flow(n)

Generate(n) ==
    /\ stage = "CONFLICT_DETECTED"
    /\ elapsed' = elapsed + n
    /\ stage' = "RECOMMENDATION_AVAILABLE"
    /\ UNCHANGED safe

\* Refused, but only after the Step that the command makes first.
GenerateRefused(n) == stage = "CONFLICT_DETECTED" /\ Flow(n)

Decide(type, n) ==
    /\ stage = "RECOMMENDATION_AVAILABLE"
    /\ elapsed' = elapsed + n
    /\ stage' = Verdicts[type]
    /\ UNCHANGED safe

DecideRefused(n) == stage = "RECOMMENDATION_AVAILABLE" /\ Flow(n)

Revalidate ==
    /\ stage = "DECISION_MODIFIED"
    /\ stage' = "MODIFICATION_REVALIDATED"
    /\ safe' \in BOOLEAN
    /\ UNCHANGED elapsed

Apply ==
    /\ \/ stage = "DECISION_ACCEPTED"
       \/ stage = "MODIFICATION_REVALIDATED" /\ safe
    /\ stage' = "CONFLICT_RESOLVED"
    /\ UNCHANGED <<elapsed, safe>>

Reset ==
    /\ elapsed' = 0
    /\ stage' = "READY"
    /\ safe' = FALSE

\* The shared clock is driven past the session.
Drift(n) ==
    /\ elapsed' = elapsed + n
    /\ UNCHANGED <<stage, safe>>

Next ==
    \/ Start
    \/ \E n \in Seconds :
          \/ Advance(n)
          \/ Generate(n)
          \/ GenerateRefused(n)
          \/ \E type \in DOMAIN Verdicts : Decide(type, n)
          \/ DecideRefused(n)
          \/ Drift(n)
    \/ Revalidate
    \/ Apply
    \/ Reset

Spec == Init /\ [][Next]_serverVars

=============================================================================
