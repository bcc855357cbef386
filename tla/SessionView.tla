---------------------------- MODULE SessionView ----------------------------
(***************************************************************************)
(* What a session shows.  The read API composes one answer from six        *)
(* orchestrators, the clock, the traffic engine and three services, each   *)
(* with results of its own time.  The orchestrators notice a reset of the  *)
(* shared clock when they are read (stale: those that have not yet); the   *)
(* services are emptied only when the Step orchestrator notices it.        *)
(*                                                                         *)
(* A session is one record s, so that a handler can read and change it in  *)
(* several steps; every piece of evidence carries its tick and, for the    *)
(* properties, the run it was computed in.                                 *)
(***************************************************************************)
EXTENDS Integers, Sequences, FiniteSets, FiniteSetsExt

CONSTANTS
  Pairs,          \* 1 .. n, in the order of their identifiers
  Outcomes,       \* what a run may say of a pair: [level, tcpa, separation]
  Presence,       \* pair -> ticks at which both aircraft are in the sector
  Urgent,         \* ticks at which some aircraft's priority is not ROUTINE
  DeviationAt,    \* the tick of the entry deviation event
  DeviationTarget,\* ticks at which its aircraft is in the sector
  Candidates,     \* 1 .. n, in the order in which they are ranked
  Interval,       \* ticks of one assessment slot
  MaxTick         \* bound: the last tick of a run

Rank == [LOW |-> 0, MEDIUM |-> 1, HIGH |-> 2, CRITICAL |-> 3]

\* Both scenarios keep the deviating aircraft in the sector; the read API
\* has no answer for one that has left.
ASSUME ViewAssumption ==
  /\ \A o \in Outcomes : o.level \in DOMAIN Rank /\ o.tcpa \in Nat /\ o.separation \in Nat
  /\ Presence \in [Pairs -> SUBSET Nat] /\ Pairs \subseteq Nat /\ Candidates \subseteq Nat
  /\ Interval \in Nat \ {0} /\ MaxTick \in Nat /\ DeviationAt .. MaxTick \subseteq DeviationTarget

None == [at |-> -1]

NewSession ==
  [run |-> 0, at |-> 0, clock |-> "READY", stale |-> {}, flown |-> FALSE,
   step |-> None, resolution |-> None, decision |-> None, revalidation |-> None,
   application |-> None, modApplication |-> None,
   queue |-> None, catalog |-> None, log |-> <<>>]

Orchestrators ==
  {"step", "resolution", "decision", "revalidation", "application", "modApplication"}

-----------------------------------------------------------------------------
(* Resets, and who notices them when. *)

\* clock.reset() by itself: the holders keep what they hold.
ClockReset(s) ==
  [s EXCEPT !.run = @ + 1, !.at = 0, !.clock = "READY", !.stale = Orchestrators,
            !.flown = FALSE]

\* The Step orchestrator notices it, and empties the three services.
StepsRead(s) ==
  IF "step" \notin s.stale THEN s
  ELSE [s EXCEPT !.step = None, !.queue = None, !.catalog = None, !.log = <<>>,
                 !.stale = @ \ {"step"}]

OthersRead(s) ==
  LET kept(holder, result) == IF holder \in s.stale THEN None ELSE result
  IN  [s EXCEPT !.stale = {},
                !.resolution = kept("resolution", @), !.decision = kept("decision", @),
                !.revalidation = kept("revalidation", @), !.application = kept("application", @),
                !.modApplication = kept("modApplication", @)]

\* Variant: the services are asked before the orchestrators are read.
AllReadServicesFirst(s) ==
  [OthersRead(StepsRead(s)) EXCEPT !.queue = s.queue, !.catalog = s.catalog, !.log = s.log]

\* get_current() reads every orchestrator before it asks the services.
AllRead(s) == OthersRead(StepsRead(s))

-----------------------------------------------------------------------------
(* The exception queue and its views. *)

NoItems == [p \in Pairs |-> [status |-> "NONE"]]

\* refresh(): a pair that was not assessed keeps its item, LOW resolves it.
Refreshed(items, events) ==
  [p \in Pairs |->
     IF p \notin DOMAIN events \/ (events[p].level = "LOW" /\ items[p].status = "NONE")
     THEN items[p]
     ELSE [event |-> events[p],
           status |-> IF events[p].level = "LOW" THEN "RESOLVED"
                      ELSE IF items[p].status \in {"NONE", "RESOLVED"} THEN "OPEN"
                      ELSE items[p].status]]

Items(queue) == IF queue = None THEN NoItems ELSE queue.items
Active(items) == {p \in Pairs : items[p].status \in {"OPEN", "ACKNOWLEDGED"}}

\* The highest risk first, then the identifier.
Worst(items, among) ==
  {p \in among : \A q \in among \ {p} :
     \/ Rank[items[q].event.level] < Rank[items[p].event.level]
     \/ Rank[items[q].event.level] = Rank[items[p].event.level] /\ p < q}

QueueShown(queue, includeResolved) ==
  IF queue = None THEN None
  ELSE LET shown == {p \in Pairs : \/ p \in Active(queue.items)
                                   \/ includeResolved /\ queue.items[p].status = "RESOLVED"}
       IN  [at |-> queue.at, run |-> queue.run,
            items |-> [p \in shown |-> queue.items[p]],
            activeCount |-> Cardinality(Active(queue.items)),
            top |-> Worst(queue.items, Active(queue.items))]

-----------------------------------------------------------------------------
(* The views of the recommendations and of the Audit Log. *)

Primary(safe) == IF safe = {} THEN {} ELSE {Min(safe)}

SetShown(set) ==
  IF set = None THEN None
  ELSE [at |-> set.at, run |-> set.run,
        availability |-> IF set.safe = {} THEN "NONE" ELSE "AVAILABLE",
        primary |-> Primary(set.safe)]

EntryShown(entry) ==
  [set |-> entry.set, type |-> entry.type, at |-> entry.at,
   authorizes |-> entry.type = "ACCEPT", requiresRevalidation |-> entry.type = "MODIFY"]

LogShown(log) ==
  IF log = <<>> THEN None
  ELSE [at |-> log[Len(log)].at, revision |-> Len(log),
        entries |-> [i \in DOMAIN log |-> EntryShown(log[i])]]

-----------------------------------------------------------------------------
(* The parts of the session's view.  s has been read in full. *)

Applied(s) == IF s.modApplication # None THEN s.modApplication ELSE s.application

Stage(s) ==
  CASE Applied(s) # None -> "CONFLICT_RESOLVED"
    [] Applied(s) = None /\ s.revalidation # None -> "MODIFICATION_REVALIDATED"
    [] Applied(s) = None /\ s.revalidation = None /\ s.decision # None ->
         [MODIFY |-> "DECISION_MODIFIED", REJECT |-> "DECISION_REJECTED",
          ACCEPT |-> "DECISION_ACCEPTED"][s.decision.type]
    [] OTHER ->
         IF s.resolution # None THEN "RECOMMENDATION_AVAILABLE"
         ELSE IF s.step = None THEN "READY"
         ELSE IF \E p \in DOMAIN s.step.events : Rank[s.step.events[p].level] >= 2
              THEN "CONFLICT_DETECTED"
         ELSE IF s.step.at \in Urgent THEN "DEVIATION_DETECTED" ELSE "MONITORING"

LiveTraffic(s) == [at |-> s.at, flown |-> s.flown]

\* The newest of the three snapshots, and of two of one tick the one that
\* shows the manoeuvre.
Traffic(s) ==
  LET candidates == (IF Applied(s) # None THEN <<Applied(s).traffic>> ELSE <<>>)
                    \o (IF s.step # None THEN <<s.step.traffic>> ELSE <<>>)
                    \o <<LiveTraffic(s)>>
      newest == {i \in DOMAIN candidates :
                   \A j \in DOMAIN candidates : candidates[j].at <= candidates[i].at}
  IN  candidates[Min(newest)]

Deviation(s) ==
  IF s.step = None \/ s.step.at < DeviationAt THEN None
  ELSE [at |-> DeviationAt, headingOf |-> s.step.at]

\* A conflict is named after its pair and the tick it was assessed at.
ConflictId(event) == <<event.pair, event.at>>

HighestActionable(step) ==
  LET actionable == {p \in DOMAIN step.events : Rank[step.events[p].level] >= 2}
      ahead(p, q) == LET e == step.events[p]
                         f == step.events[q]
                     IN  \/ Rank[e.level] > Rank[f.level]
                         \/ e.level = f.level /\ e.tcpa < f.tcpa
                         \/ e.level = f.level /\ e.tcpa = f.tcpa /\ p < q
  IN  {step.events[p] : p \in {q \in actionable : \A r \in actionable \ {q} : ahead(q, r)}}

\* Variant: the event of the pair, of whichever run is the latest.
MatchingOfPair(step, risk) == {step.events[p] : p \in DOMAIN step.events \cap {risk.pair}}

MatchingEvent(step, risk) ==
  {step.events[p] : p \in {q \in DOMAIN step.events : ConflictId(step.events[q]) = ConflictId(risk)}}

\* The source of the Resolution if there is one, else the highest risk of
\* the Step.  The minimum and the time of the closest approach come from the
\* run's event while it is the latest, and are worked out of the risk after.
PrimaryConflict(s) ==
  LET risks == IF s.resolution # None THEN {s.resolution.source}
               ELSE IF s.step # None THEN HighestActionable(s.step) ELSE {}
  IN  {LET found == IF s.step = None THEN {} ELSE MatchingEvent(s.step, risk)
           shown == IF found = {} THEN risk ELSE CHOOSE e \in found : TRUE
       IN  [id |-> ConflictId(risk), run |-> risk.run, level |-> risk.level, tcpa |-> risk.tcpa,
            separation |-> shown.separation, closestAt |-> shown.at + shown.tcpa]
       : risk \in risks}

\* Every Candidate with its verdict, also those that are not recommended.
Comparisons(s) ==
  IF s.resolution = None THEN {}
  ELSE {[candidate |-> c, at |-> s.resolution.at,
         verdict |-> IF c \in s.resolution.safe THEN "SAFE" ELSE "UNSAFE",
         recommended |-> c \in Primary(s.resolution.safe)] : c \in Candidates}

ModifiedRevalidation(s) ==
  IF s.revalidation = None THEN None
  ELSE [at |-> s.revalidation.at, run |-> s.revalidation.run, safe |-> s.revalidation.safe]

Revalidation(s) ==
  IF Applied(s) = None THEN None
  ELSE [at |-> Applied(s).at, run |-> Applied(s).run, pair |-> Applied(s).event.pair,
        source |-> IF s.modApplication # None THEN "REVALIDATED_MODIFICATION"
                   ELSE "ACCEPTED_RECOMMENDATION",
        resolved |-> /\ Applied(s).event.level = "LOW"
                     /\ Applied(s).items[Applied(s).event.pair].status = "RESOLVED"]

-----------------------------------------------------------------------------
(* get_current(): one answer out of all of them. *)
View(session) ==
  LET s == AllRead(session)
  IN  [run |-> s.run, at |-> s.at, clock |-> s.clock, stage |-> Stage(s),
       traffic |-> Traffic(s),
       stepAt |-> s.step.at, resolutionAt |-> s.resolution.at, decisionAt |-> s.decision.at,
       applicationAt |-> Applied(s).at,
       primary |-> PrimaryConflict(s), deviation |-> Deviation(s),
       comparisons |-> Comparisons(s),
       queue |-> QueueShown(s.queue, TRUE), recommendation |-> SetShown(s.catalog),
       controllerDecision |-> LogShown(s.log),
       modifiedRevalidation |-> ModifiedRevalidation(s), revalidation |-> Revalidation(s)]
=============================================================================
