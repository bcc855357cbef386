------------------------------ MODULE Gateway ------------------------------
(***************************************************************************)
(* The HTTP side of a session: requests of viewers and operators, well and *)
(* ill formed, to the web application and the session API behind it, and   *)
(* to the three service applications of the same process; the checks each  *)
(* of them makes before it does anything, the commands, and their answers. *)
(* The server handles one request at a time, so a request is one action.   *)
(* Code of the process may drive the shared clock between two requests.    *)
(***************************************************************************)
EXTENDS SessionView

CONSTANTS
  External,       \* the server is bound outside loopback
  Control,        \* who may command then: "local" or "any"
  ToConflict, Generate, Decide,  \* ticks of the Steps of the commands
  AdvanceSteps,   \* ticks an ADVANCE is asked for, 0 standing for a number refused
  Flaws,          \* what may be wrong with a request, at most one thing of:
                  \* BodyFlaws, query, notBoolean, fields, noCommand,
                  \* unknownCommand, notManoeuvre; none
  MaxRuns         \* bound: resets

ASSUME GatewayAssumption ==
  /\ External \in BOOLEAN /\ Control \in {"local", "any"}
  /\ {ToConflict, Generate, Decide} \subseteq Nat \ {0} /\ AdvanceSteps \subseteq Nat
  /\ MaxRuns \in Nat

VARIABLES
  session,
  answer,    \* the last answer: [status, to, by]; Quiet after anything else
  executed   \* history: commands answered 200 in this run

vars == <<session, answer, executed>>

Quiet == [status |-> 0, to |-> "nothing", by |-> "process"]

Commands == {"START", "ADVANCE_TO_CONFLICT", "GENERATE_RECOMMENDATION", "ACCEPT_RECOMMENDATION",
             "MODIFY_RECOMMENDATION", "REJECT_RECOMMENDATION", "REVALIDATE_MODIFIED_MANEUVER",
             "APPLY_VALIDATED_MODIFIED_MANEUVER", "APPLY_APPROVED_MANEUVER", "RESET", "ADVANCE"}

-----------------------------------------------------------------------------
(* Who may send what. *)

Origins == {"loopback", "remote", "forwarded"}

\* Variant: a relay on this machine counts as this machine.
IsOperatorByAddress(origin) == Control = "any" \/ origin \in {"loopback", "forwarded"}

\* A request that a relay handed on is somebody else's.
IsOperator(origin) == Control = "any" \/ origin = "loopback"

\* ViewerGuard: methods that only read pass.
GuardPasses(method, origin) == method \in {"GET", "HEAD", "OPTIONS"} \/ IsOperator(origin)

\* The guard is put on only when the server is open to others.
Passes(method, origin) == External => GuardPasses(method, origin)

\* What the access page tells the screen that asks.
AccessShown(origin) == External => IsOperator(origin)

-----------------------------------------------------------------------------
(* Decoding.  A request has at most one flaw; Sound is a request with none. *)

Sound == "none"
BodyFlaws == {"contentType", "contentLength", "tooLarge", "shortBody", "notJson", "notObject"}
FlawStatus == [contentType |-> 415, contentLength |-> 400, tooLarge |-> 413, shortBody |-> 400,
               notJson |-> 400, notObject |-> 422]

\* Each application reads a body with code of its own, to the same effect.
SessionBody(flaw) == IF flaw \in BodyFlaws THEN FlawStatus[flaw] ELSE 200
QueueBody(flaw) == SessionBody(flaw)
DecisionBody(flaw) == SessionBody(flaw)

\* Exactly the fields of the request, each of its type.
FieldsStatus(flaw) == IF flaw = "fields" THEN 422 ELSE 200

\* The session's applications know no query, the queue's knows one.
QueryStatus(flaw) == IF flaw = "query" THEN 400 ELSE 200
QueueQueryStatus(flaw) == IF flaw \in {"query", "notBoolean"} THEN 400 ELSE 200

\* What a command may come with, beside its name.
Manoeuvres == Candidates \cup {0}   \* 0: one that is not recommended
Inputs(command) ==
  CASE command = "ADVANCE" -> {[seconds |-> n] : n \in AdvanceSteps}
    [] command = "MODIFY_RECOMMENDATION" ->
         {[rationale |-> r, manoeuvre |-> m] : r \in {"blank", "text"}, m \in Manoeuvres}
    [] command = "REJECT_RECOMMENDATION" -> {[rationale |-> r] : r \in {"blank", "text"}}
    [] OTHER -> {<<>>}

\* The body's fields are those of the command, and name a manoeuvre.
CommandBody(flaw) == IF flaw \in {"noCommand", "unknownCommand", "fields", "notManoeuvre"}
                     THEN 422 ELSE SessionBody(flaw)

-----------------------------------------------------------------------------
(* The service's checks, on the view it starts from. *)

SameManoeuvre(input, s) == s.catalog # None /\ input.manoeuvre \in Primary(s.catalog.safe)

InputsRefused(command, input, s) ==
  \/ command \in {"MODIFY_RECOMMENDATION", "REJECT_RECOMMENDATION"} /\ input.rationale = "blank"
  \/ command = "MODIFY_RECOMMENDATION" /\ SameManoeuvre(input, s)

EvidenceBehind(s) == s.step # None /\ s.step.at # s.at

\* The stage each command needs.
StageOf ==
  [START |-> "READY", ADVANCE_TO_CONFLICT |-> "MONITORING",
   GENERATE_RECOMMENDATION |-> "CONFLICT_DETECTED",
   ACCEPT_RECOMMENDATION |-> "RECOMMENDATION_AVAILABLE",
   MODIFY_RECOMMENDATION |-> "RECOMMENDATION_AVAILABLE",
   REJECT_RECOMMENDATION |-> "RECOMMENDATION_AVAILABLE",
   REVALIDATE_MODIFIED_MANEUVER |-> "DECISION_MODIFIED",
   APPLY_VALIDATED_MODIFIED_MANEUVER |-> "MODIFICATION_REVALIDATED",
   APPLY_APPROVED_MANEUVER |-> "DECISION_ACCEPTED"]

\* Variant: a later stage will do as well.
AtStageOrLater(command, s) == Stage(s) \in {StageOf[command], "CONFLICT_RESOLVED"}

AtStage(command, s) == Stage(s) = StageOf[command]

-----------------------------------------------------------------------------
(* The calls behind the commands.  Each yields [status, session], for one   *)
(* outcome of what the detector and the validator say.                      *)

Done(s) == [status |-> 200, session |-> s]
Conflict(s) == [status |-> 409, session |-> s]

SlotDue(s, t) == s.step = None \/ t \div Interval > s.step.at \div Interval

Runs(s, t) ==
  {[p \in {q \in Pairs : t \in Presence[q]} |->
      [pair |-> p, at |-> t, run |-> s.run, level |-> outcome[p].level, tcpa |-> outcome[p].tcpa,
       separation |-> outcome[p].separation]]
   : outcome \in [Pairs -> Outcomes]}

QueueTakes(s, t) == s.queue = None \/ s.queue.at <= t

\* The clock and the traffic move first; the queue may refuse the time.
Stepped(s, n, events) ==
  LET t == s.at + n
      moved == [s EXCEPT !.at = t]
      queue == [at |-> t, run |-> s.run, items |-> Refreshed(Items(s.queue), events)]
      step == [at |-> t, run |-> s.run, events |-> events,
               traffic |-> [at |-> t, flown |-> s.flown]]
  IN  IF ~QueueTakes(s, t) THEN Conflict(moved)
      ELSE Done([moved EXCEPT !.queue = queue, !.step = step])

EventsOf(s, n) == IF SlotDue(s, s.at + n) THEN Runs(s, s.at + n) ELSE {<<>>}
Steps(s, n) == IF s.at + n > MaxTick THEN {} ELSE {Stepped(s, n, events) : events \in EventsOf(s, n)}

\* The worst pair of the queue, if it is HIGH at least and still here.
Sources(s) ==
  LET items == s.queue.items
      actionable == {p \in Active(items) : Rank[items[p].event.level] >= 2}
  IN  {p \in Worst(items, actionable) : s.at \in Presence[p]}

Published(s, p, safe) ==
  [s EXCEPT !.resolution = [at |-> s.at, run |-> s.run, source |-> s.queue.items[p].event,
                            safe |-> safe],
            !.catalog = [at |-> s.at, run |-> s.run, safe |-> safe]]

\* Publishes a Set for the source; neither aircraft may be protected.
Resolutions(s) ==
  {Conflict(s)} \cup {Done(Published(s, p, safe)) : p \in Sources(s), safe \in SUBSET Candidates}

Entry(s, set, type, at) == [set |-> set.at, run |-> s.run, type |-> type, at |-> at]

\* One final decision per Set, and the log's time never runs back.
Recordable(s, set, at) ==
  /\ \A i \in DOMAIN s.log : s.log[i].set # set.at
  /\ s.log # <<>> => s.log[Len(s.log)].at <= at

Decisions(s, type) ==
  IF Primary(s.resolution.safe) = {} \/ ~Recordable(s, s.catalog, s.at) THEN {Conflict(s)}
  ELSE {Done([s EXCEPT !.decision = [at |-> s.at, run |-> s.run, type |-> type,
                                     set |-> s.resolution.at, revision |-> Len(s.log) + 1],
                       !.log = Append(@, Entry(s, s.catalog, type, s.at))])}

\* On the Step of the decision, the newest one of the log, the pair present.
Contemporaneous(s, evidence) ==
  /\ evidence.at = s.at /\ s.step.at = s.at
  /\ s.decision.revision = Len(s.log)

Revalidations(s) ==
  IF ~Contemporaneous(s, s.decision) \/ s.at \notin Presence[s.resolution.source.pair]
  THEN {Conflict(s)}
  ELSE {Done([s EXCEPT !.revalidation = [at |-> s.at, run |-> s.run, safe |-> safe]])
        : safe \in BOOLEAN}

\* The anchor is set first; then the queue may refuse the time.
Flights(s, events) ==
  LET flying == [s EXCEPT !.flown = TRUE]
      items == Refreshed(Items(s.queue), events)
  IN  IF ~QueueTakes(s, s.at) THEN flying
      ELSE [flying EXCEPT !.queue = [at |-> s.at, run |-> s.run, items |-> items]]

Result(s, events) ==
  [at |-> s.at, run |-> s.run, event |-> events[s.resolution.source.pair],
   items |-> Refreshed(Items(s.queue), events), traffic |-> [at |-> s.at, flown |-> TRUE]]

\* Refused with no flight if the pair has left with the target, and after
\* the flight if it has left without it.
Applications(s) ==
  IF ~Contemporaneous(s, s.decision) THEN {Conflict(s)}
  ELSE IF s.at \notin Presence[s.resolution.source.pair]
  THEN {Conflict(s)} \cup {Conflict(Flights(s, events)) : events \in Runs(s, s.at)}
  ELSE {IF QueueTakes(s, s.at)
        THEN Done([Flights(s, events) EXCEPT !.application = Result(s, events)])
        ELSE Conflict(Flights(s, events)) : events \in Runs(s, s.at)}

ClearRuns(s) == {events \in Runs(s, s.at) :
                   \A p \in DOMAIN events : Rank[events[p].level] <= 1}

\* Only what was found SAFE, and the run on the same traffic agrees.
ModifiedApplications(s) ==
  IF ~s.revalidation.safe \/ ~Contemporaneous(s, s.revalidation) THEN {Conflict(s)}
  ELSE {IF QueueTakes(s, s.at)
        THEN Done([Flights(s, events) EXCEPT !.modApplication = Result(s, events)])
        ELSE Conflict(Flights(s, events)) : events \in ClearRuns(s)}

\* A Step, and the call after it if the Step was made.
StepThen(s, n, Call(_)) ==
  UNION {IF r.status = 200 THEN Call(r.session) ELSE {r} : r \in Steps(s, n)}

-----------------------------------------------------------------------------
(* execute(): the view is read first, and again for the answer. *)

Running(s) == [s EXCEPT !.clock = "RUNNING"]

CallOf(command, s) ==
  CASE command = "START" -> Steps(Running(s), 0)
    [] command = "ADVANCE_TO_CONFLICT" -> Steps(s, ToConflict)
    [] command = "GENERATE_RECOMMENDATION" -> StepThen(s, Generate, Resolutions)
    [] command = "ACCEPT_RECOMMENDATION" ->
         StepThen(s, Decide, LAMBDA t : Decisions(t, "ACCEPT"))
    [] command = "MODIFY_RECOMMENDATION" ->
         StepThen(s, Decide, LAMBDA t : Decisions(t, "MODIFY"))
    [] command = "REJECT_RECOMMENDATION" ->
         StepThen(s, Decide, LAMBDA t : Decisions(t, "REJECT"))
    [] command = "REVALIDATE_MODIFIED_MANEUVER" -> Revalidations(s)
    [] command = "APPLY_VALIDATED_MODIFIED_MANEUVER" -> ModifiedApplications(s)
    [] OTHER -> Applications(s)

NeedsClock(command) == StageOf[command] \in {"MONITORING", "CONFLICT_DETECTED", "RECOMMENDATION_AVAILABLE"}

Refused(status, s) == {[status |-> status, session |-> s]}

Execute(command, input, s) ==
  IF InputsRefused(command, input, s) THEN Refused(422, s)
  ELSE IF command = "RESET"
  THEN IF s.run < MaxRuns THEN {Done(AllRead(ClockReset(s)))} ELSE {}
  ELSE IF EvidenceBehind(s) THEN Refused(409, s)
  ELSE IF command = "ADVANCE"
  THEN IF input.seconds = 0 THEN Refused(422, s) ELSE Steps(Running(s), input.seconds)
  ELSE IF ~AtStage(command, s) THEN Refused(409, s)
  ELSE IF NeedsClock(command) /\ s.clock # "RUNNING" THEN Refused(409, s)
  ELSE CallOf(command, s)

-----------------------------------------------------------------------------
(* The requests. *)

Answered(status, to, origin) ==
  answer' = [status |-> status, to |-> to, by |-> origin]

Unchanged == UNCHANGED <<session, executed>>

\* Pages, scripts, geometry, the scenario's payload and the access page:
\* made once or from the request alone, for GET and HEAD only.
AssetStatus(method, origin) ==
  IF ~Passes(method, origin) THEN 403
  ELSE IF method \notin {"GET", "HEAD"} THEN 405 ELSE 200

Asset(method, origin) ==
  /\ Unchanged
  /\ Answered(AssetStatus(method, origin),
              IF AccessShown(origin) THEN "page with controls" ELSE "page", origin)

\* The advice is worked out of the latest Step, whatever the method.
Advice(method, origin) ==
  /\ session' = IF Passes(method, origin) THEN StepsRead(session) ELSE session
  /\ Answered(AssetStatus(method, origin), "advice", origin)
  /\ UNCHANGED executed

\* Everything else goes to the session API.
Paths == {"session", "commands", "playback", "other"}
RouteStatus(path, method) ==
  CASE path = "other" -> 404
    [] path = "commands" -> IF method = "POST" THEN 200 ELSE 405
    [] OTHER -> IF method = "GET" THEN 200 ELSE 405

\* The first refusal of a sequence of checks.
First(statuses) ==
  LET refusals == {i \in DOMAIN statuses : statuses[i] # 200}
  IN  IF refusals = {} THEN 200 ELSE statuses[Min(refusals)]

GuardStatus(method, origin) == IF Passes(method, origin) THEN 200 ELSE 403

\* A read, or a request that is refused before a command is known.
Read(path, method, flaw, origin) ==
  LET status == First(<<GuardStatus(method, origin), RouteStatus(path, method), QueryStatus(flaw),
                        IF path = "commands" THEN CommandBody(flaw) ELSE 200>>)
  IN  /\ path = "commands" => status # 200
      /\ session' = IF path = "session" /\ status = 200 THEN AllRead(session) ELSE session
      /\ Answered(status, "read", origin)
      /\ UNCHANGED executed

\* A command that is well formed.  What execute() raises but a ValueError
\* would be no answer at all; nothing here does.
Command(command, origin) ==
  /\ Passes("POST", origin)
  /\ \E input \in Inputs(command) : \E r \in Execute(command, input, AllRead(session)) :
       /\ session' = IF r.status = 200 THEN AllRead(r.session) ELSE r.session
       /\ Answered(r.status, command, origin)
       /\ executed' = IF command = "RESET" /\ r.status = 200 THEN {}
                      ELSE IF r.status = 200 THEN executed \cup {command} ELSE executed

-----------------------------------------------------------------------------
(* The applications of the three services, for callers in the process. *)

ServicePaths == {"current", "collection", "other"}

QueueRoute(path, method) ==
  IF path = "other" THEN 404
  ELSE IF method = (IF path = "current" THEN "GET" ELSE "POST") THEN 200 ELSE 405
DecisionRoute(path, method) == QueueRoute(path, method)
RecommendationRoute(path, method) ==
  IF path # "current" THEN 404 ELSE IF method = "GET" THEN 200 ELSE 405

\* A service that has nothing to show yet says so.
Shown(status, nothing) == IF status = 200 /\ nothing THEN 204 ELSE status

QueueRead(path, method, flaw) ==
  Shown(First(<<QueueRoute(path, method), QueueQueryStatus(flaw)>>), session.queue = None)
RecommendationRead(path, method, flaw) ==
  Shown(First(<<RecommendationRoute(path, method), QueryStatus(flaw)>>), session.catalog = None)
DecisionRead(path, method, flaw) ==
  Shown(First(<<DecisionRoute(path, method), QueryStatus(flaw)>>), session.log = <<>>)

ServiceRead(path, method, flaw) ==
  /\ Unchanged
  /\ \E status \in {QueueRead(path, method, flaw), DecisionRead(path, method, flaw),
                    RecommendationRead(path, method, flaw)} :
       answer' = [Quiet EXCEPT !.status = status, !.to = "service"]

\* The client dates the acknowledgement; the queue knows no later run.
AcknowledgeStatus(p, at) ==
  LET items == Items(session.queue)
  IN  IF ~QueueTakes(session, at) THEN 409
      ELSE IF items[p].status = "NONE" THEN 404
      ELSE IF items[p].status = "RESOLVED" THEN 409 ELSE 200

Acknowledge(p, at, flaw) ==
  LET status == First(<<QueueQueryStatus(flaw), QueueBody(flaw), FieldsStatus(flaw),
                        AcknowledgeStatus(p, at)>>)
  IN  /\ session' =
           IF status # 200 THEN session
           ELSE [session EXCEPT !.queue.at = at, !.queue.items[p].status = "ACKNOWLEDGED"]
      /\ answer' = [Quiet EXCEPT !.status = status, !.to = "acknowledgement"]
      /\ UNCHANGED executed

\* A Set that is not published, one that is decided, a time before the
\* log's or the Set's, a Recommendation that is not the Set's.
SubmitStatus(known, at) ==
  LET set == session.catalog
  IN  IF set = None \/ ~known THEN 404
      ELSE IF \/ session.log # <<>> /\ at < session.log[Len(session.log)].at
              \/ \E i \in DOMAIN session.log : session.log[i].set = set.at THEN 409
      ELSE IF set.safe = {} THEN 404
      ELSE IF at < set.at THEN 422 ELSE 201

Submit(type, at, known, flaw) ==
  LET status == First(<<QueryStatus(flaw), DecisionBody(flaw), FieldsStatus(flaw),
                        SubmitStatus(known, at)>>)
  IN  /\ session' =
           IF status # 201 THEN session
           ELSE [session EXCEPT !.log = Append(@, Entry(session, session.catalog, type, at))]
      /\ answer' = [Quiet EXCEPT !.status = status, !.to = "decision"]
      /\ UNCHANGED executed

-----------------------------------------------------------------------------
(* The shared clock in the hands of other code. *)
Drive ==
  /\ answer' = Quiet
  /\ \/ /\ session.run < MaxRuns
        /\ session' = ClockReset(session) /\ executed' = {}
     \/ /\ session.clock = "RUNNING"
        /\ session' = [session EXCEPT !.clock = "PAUSED"] /\ UNCHANGED executed
     \/ /\ session.clock = "RUNNING" /\ session.at < MaxTick
        /\ session' = [session EXCEPT !.at = @ + 1] /\ UNCHANGED executed

-----------------------------------------------------------------------------
Init == session = NewSession /\ answer = Quiet /\ executed = {}

Methods == {"GET", "HEAD", "OPTIONS", "POST"}

Next ==
  \/ \E method \in Methods, origin \in Origins : Asset(method, origin) \/ Advice(method, origin)
  \/ \E path \in Paths, method \in Methods, origin \in Origins, flaw \in Flaws :
       Read(path, method, flaw, origin)
  \/ \E command \in Commands, origin \in Origins : Command(command, origin)
  \/ \E path \in ServicePaths, method \in Methods, flaw \in Flaws :
       (path = "collection" => method # "POST") /\ ServiceRead(path, method, flaw)
  \/ \E p \in Pairs, at \in {session.at, session.at + 1}, flaw \in Flaws :
       Acknowledge(p, at, flaw)
  \/ \E type \in {"ACCEPT", "MODIFY", "REJECT"}, at \in {session.at - 1, session.at}, known \in BOOLEAN,
        flaw \in Flaws :
       at >= 0 /\ Submit(type, at, known, flaw)
  \/ Drive

Spec == Init /\ [][Next]_vars

-----------------------------------------------------------------------------
(* Properties. *)

ReviewStages ==
  {"RECOMMENDATION_AVAILABLE", "DECISION_ACCEPTED", "DECISION_MODIFIED", "DECISION_REJECTED",
   "MODIFICATION_REVALIDATED", "CONFLICT_RESOLVED"}

\* The view is put together from results of different times, held by objects
\* that notice a reset at different moments (api/session.py get_current).
\* Whenever it is asked for, it tells one story: everything in it belongs to
\* the run it shows and to no later tick (a client may date acknowledgements
\* ahead); the traffic is that of the time shown, and flies the manoeuvre
\* once the application is shown; there is a primary conflict exactly from
\* the detection on; the decision shown is the log's, about the Resolution
\* shown; what is recommended is what the comparison recommends.
ViewTellsOneStory ==
  LET v == View(session)
      seen == {w \in {v.queue, v.recommendation, v.modifiedRevalidation, v.revalidation} : w # None}
      assessed == IF v.queue = None THEN {}
                  ELSE {v.queue.items[p].event : p \in DOMAIN v.queue.items}
  IN  /\ \A w \in seen \cup assessed \cup v.primary : w.run = v.run
      /\ \A w \in assessed : w.at <= v.at
      /\ \A w \in seen \ {v.queue} : w.at <= v.at
      /\ v.traffic.at = v.at
      /\ v.applicationAt # -1 => v.traffic.flown
      /\ (v.stage \in ReviewStages \cup {"CONFLICT_DETECTED"}) <=> (v.primary # {})
      /\ (v.stage \in ReviewStages) <=> (v.resolutionAt # -1)
      /\ v.resolutionAt # -1 =>
           /\ v.recommendation.at = v.resolutionAt
           /\ {c.candidate : c \in {d \in v.comparisons : d.recommended}} = v.recommendation.primary
      /\ v.decisionAt # -1 =>
           \E i \in DOMAIN v.controllerDecision.entries :
              LET entry == v.controllerDecision.entries[i]
              IN  entry.set = v.resolutionAt /\ entry.at = v.decisionAt
      /\ v.applicationAt # -1 => v.decisionAt # -1

\* docs/session_api.md section 9 and the docstring of _map_primary_conflict:
\* the conflict under review keeps its identifier and its closest approach
\* while Steps, decisions and the manoeuvre itself change the picture around
\* it, so that the screen compares with what was decided on.
PrimaryConflictIsKept ==
  [][session' # session /\ View(session).resolutionAt # -1 /\ View(session').run = View(session).run
       => View(session').primary = View(session).primary]_session

\* docs/session_api.md: reads compute nothing and a request that is refused
\* for what it says changes nothing.  What the view shows changes only by
\* the process itself, by a decision or an acknowledgement that was taken,
\* or by a command of somebody who may command; of those refused only by the
\* ones that move the clock or set the manoeuvre before what refuses them.
MayStopHalfway == Commands \ {"RESET", "REVALIDATE_MODIFIED_MANEUVER"}
OnlyCommandsChangeTheView ==
  [][session' # session /\ View(session') # View(session) =>
       \/ answer' = Quiet
       \/ answer'.to = "acknowledgement" /\ answer'.status = 200
       \/ answer'.to = "decision" /\ answer'.status = 201
       \/ /\ answer'.by = "loopback" \/ ~External \/ Control = "any"
          /\ answer'.to \in Commands
          /\ \/ answer'.status = 200
             \/ answer'.status = 409 /\ answer'.to \in MayStopHalfway]_session

\* A client that lost the answer sends the command again.  Whatever happened
\* in between, the steps of a review are taken at most once in a run: the
\* second request is refused, it publishes, decides and flies nothing.
Repeatable == {"RESET", "ADVANCE", "ADVANCE_TO_CONFLICT"}
RetriesAreRefused ==
  [][answer'.status = 200 /\ answer'.to \in Commands \ Repeatable => answer'.to \notin executed]_vars
=============================================================================
