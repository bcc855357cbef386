---------------------------- MODULE GatewayProofs ----------------------------
(***************************************************************************)
(* Proofs about Gateway, for every scenario, detector and validator, every *)
(* sequence of requests of everybody, and every use of the shared clock.   *)
(*                                                                         *)
(* The requests are about the session as it is read, so the invariant is   *)
(* about AllRead(session): the evidence of one run, in the order in which  *)
(* a review makes it.  Each call behind a command keeps it (one lemma per  *)
(* call), and every command is made of such calls.                         *)
(***************************************************************************)
EXTENDS Gateway, NaturalOrder

-----------------------------------------------------------------------------
(* Types. *)

RiskEvents ==
  [pair : Pairs, at : Nat, run : Nat, level : DOMAIN Rank, tcpa : Nat, separation : Nat]
EventMaps == UNION {[D -> RiskEvents] : D \in SUBSET Pairs}
ItemMaps ==
  [Pairs -> [status : {"NONE"}]
            \cup [event : RiskEvents, status : {"OPEN", "ACKNOWLEDGED", "RESOLVED"}]]
Traffics == [at : Nat, flown : BOOLEAN]
DecisionTypes == {"ACCEPT", "MODIFY", "REJECT"}

Optional(S) == {None} \cup S
StepResults == [at : Nat, run : Nat, events : EventMaps, traffic : Traffics]
ResolutionResults == [at : Nat, run : Nat, source : RiskEvents, safe : SUBSET Candidates]
DecisionResults == [at : Nat, run : Nat, type : DecisionTypes, set : Nat, revision : Nat]
RevalidationResults == [at : Nat, run : Nat, safe : BOOLEAN]
ApplicationResults ==
  [at : Nat, run : Nat, event : RiskEvents, items : ItemMaps, traffic : Traffics]
Queues == [at : Nat, run : Nat, items : ItemMaps]
Catalogs == [at : Nat, run : Nat, safe : SUBSET Candidates]
Entries == [set : Nat, run : Nat, type : DecisionTypes, at : Nat]

Sessions ==
  [run : Nat, at : Nat, clock : {"READY", "RUNNING", "PAUSED"}, stale : SUBSET Orchestrators,
   flown : BOOLEAN,
   step : Optional(StepResults), resolution : Optional(ResolutionResults),
   decision : Optional(DecisionResults), revalidation : Optional(RevalidationResults),
   application : Optional(ApplicationResults), modApplication : Optional(ApplicationResults),
   queue : Optional(Queues), catalog : Optional(Catalogs), log : Seq(Entries)]

-----------------------------------------------------------------------------
(* What a session that has been read looks like. *)

\* Every piece of evidence is of this run and not of the future.
OfThisRun(s) ==
  /\ \A e \in {s.step, s.resolution, s.decision, s.revalidation, s.application,
               s.modApplication, s.catalog} :
       e # None => e.run = s.run /\ e.at <= s.at
  /\ s.step # None => \A p \in DOMAIN s.step.events :
       LET e == s.step.events[p] IN e.pair = p /\ e.run = s.run /\ e.at = s.step.at
  /\ s.queue # None =>
       /\ s.queue.run = s.run
       /\ \A p \in Pairs : s.queue.items[p].status # "NONE" =>
            LET e == s.queue.items[p].event IN e.pair = p /\ e.run = s.run /\ e.at <= s.at
  /\ s.resolution # None =>
       s.resolution.source.run = s.run /\ s.resolution.source.at <= s.resolution.at

\* Each result of a review needs the one before it.
ReviewInOrder(s) ==
  /\ s.modApplication # None => s.revalidation # None
  /\ s.application # None => s.decision # None
  /\ s.revalidation # None =>
       /\ s.decision # None
       /\ s.revalidation.at \in Presence[s.resolution.source.pair]
  /\ s.decision # None =>
       /\ s.resolution # None
       /\ \E i \in DOMAIN s.log :
            s.log[i].set = s.resolution.at /\ s.log[i].at = s.decision.at
  /\ s.resolution # None =>
       /\ s.step # None /\ s.catalog # None /\ s.queue # None
       /\ s.catalog.at = s.resolution.at /\ s.catalog.safe = s.resolution.safe

\* A Step after the manoeuvre shows it flown.
FlightSeen(s) ==
  /\ s.step # None => s.step.traffic.at = s.step.at
  /\ \A a \in {s.application, s.modApplication} :
       a # None =>
         /\ s.flown /\ a.traffic.at = a.at /\ a.traffic.flown
         /\ s.step.at > a.at => s.step.traffic.flown

\* The conflict under review is the one the Step found, while that Step is
\* the latest that assessed it.
SourceIsFound(s) ==
  s.resolution # None =>
    \A p \in DOMAIN s.step.events :
      ConflictId(s.step.events[p]) = ConflictId(s.resolution.source)
        => s.step.events[p] = s.resolution.source

Story(s) == OfThisRun(s) /\ ReviewInOrder(s) /\ FlightSeen(s) /\ SourceIsFound(s)

\* A step of the review that was taken has left its result.
TakenStepsShow(s, taken) ==
  /\ "START" \in taken => s.step # None
  /\ "GENERATE_RECOMMENDATION" \in taken => s.resolution # None
  /\ taken \cap {"ACCEPT_RECOMMENDATION", "MODIFY_RECOMMENDATION", "REJECT_RECOMMENDATION"} # {}
       => s.decision # None
  /\ "REVALIDATE_MODIFIED_MANEUVER" \in taken => s.revalidation # None
  /\ taken \cap {"APPLY_VALIDATED_MODIFIED_MANEUVER", "APPLY_APPROVED_MANEUVER"} # {}
       => Applied(s) # None

GatewayInv ==
  /\ session \in Sessions
  /\ Story(AllRead(session))
  /\ executed \subseteq Commands
  /\ TakenStepsShow(AllRead(session), executed)

-----------------------------------------------------------------------------
(* Reading a session: what is stale is dropped, once.                       *)

LEMMA NothingIsOptional ==
  /\ None \in Optional(StepResults) /\ None \in Optional(ResolutionResults)
  /\ None \in Optional(DecisionResults) /\ None \in Optional(RevalidationResults)
  /\ None \in Optional(ApplicationResults) /\ None \in Optional(Queues)
  /\ None \in Optional(Catalogs) /\ <<>> \in Seq(Entries)
  BY DEF Optional

LEMMA ReadStep ==
  ASSUME NEW s \in Sessions
  PROVE  LET r == StepsRead(s)
         IN  /\ r \in Sessions
             /\ r.stale = s.stale \ {"step"}
             /\ "step" \notin s.stale => r = s
             /\ r.run = s.run /\ r.at = s.at /\ r.clock = s.clock /\ r.flown = s.flown
             /\ r.resolution = s.resolution /\ r.decision = s.decision
             /\ r.revalidation = s.revalidation /\ r.application = s.application
             /\ r.modApplication = s.modApplication
             /\ r.step = IF "step" \in s.stale THEN None ELSE s.step
             /\ r.queue = IF "step" \in s.stale THEN None ELSE s.queue
             /\ r.catalog = IF "step" \in s.stale THEN None ELSE s.catalog
             /\ r.log = IF "step" \in s.stale THEN <<>> ELSE s.log
<1>1. s.stale \ {"step"} \in SUBSET Orchestrators
  BY DEF Sessions
<1>2. CASE "step" \in s.stale
  BY <1>1, <1>2, NothingIsOptional DEF Sessions, StepsRead
<1>3. CASE "step" \notin s.stale
  BY <1>1, <1>3, NothingIsOptional DEF Sessions, StepsRead
<1>4. QED
  BY <1>2, <1>3

LEMMA ReadOthers ==
  ASSUME NEW s \in Sessions
  PROVE  LET r == OthersRead(s)
         IN  /\ r \in Sessions
             /\ r.stale = {}
             /\ r.run = s.run /\ r.at = s.at /\ r.clock = s.clock /\ r.flown = s.flown
             /\ r.step = s.step /\ r.queue = s.queue /\ r.catalog = s.catalog /\ r.log = s.log
             /\ r.resolution = IF "resolution" \in s.stale THEN None ELSE s.resolution
             /\ r.decision = IF "decision" \in s.stale THEN None ELSE s.decision
             /\ r.revalidation = IF "revalidation" \in s.stale THEN None ELSE s.revalidation
             /\ r.application = IF "application" \in s.stale THEN None ELSE s.application
             /\ r.modApplication = IF "modApplication" \in s.stale THEN None ELSE s.modApplication
<1> DEFINE kept(holder, result) == IF holder \in s.stale THEN None ELSE result
<1>1. /\ kept("resolution", s.resolution) \in Optional(ResolutionResults)
      /\ kept("decision", s.decision) \in Optional(DecisionResults)
      /\ kept("revalidation", s.revalidation) \in Optional(RevalidationResults)
      /\ kept("application", s.application) \in Optional(ApplicationResults)
      /\ kept("modApplication", s.modApplication) \in Optional(ApplicationResults)
  BY NothingIsOptional DEF Sessions
<1>2. OthersRead(s) =
        [s EXCEPT !.stale = {},
                  !.resolution = kept("resolution", @), !.decision = kept("decision", @),
                  !.revalidation = kept("revalidation", @), !.application = kept("application", @),
                  !.modApplication = kept("modApplication", @)]
  BY DEF OthersRead
<1>3. {} \in SUBSET Orchestrators
  OBVIOUS
<1> HIDE DEF kept
<1>4. OthersRead(s) \in Sessions
  BY <1>1, <1>2, <1>3 DEF Sessions
<1>5. /\ OthersRead(s).stale = {}
      /\ OthersRead(s).run = s.run /\ OthersRead(s).at = s.at /\ OthersRead(s).clock = s.clock
      /\ OthersRead(s).flown = s.flown /\ OthersRead(s).step = s.step
      /\ OthersRead(s).queue = s.queue /\ OthersRead(s).catalog = s.catalog
      /\ OthersRead(s).log = s.log
  BY <1>2 DEF Sessions
<1>6. /\ OthersRead(s).resolution = kept("resolution", s.resolution)
      /\ OthersRead(s).decision = kept("decision", s.decision)
      /\ OthersRead(s).revalidation = kept("revalidation", s.revalidation)
      /\ OthersRead(s).application = kept("application", s.application)
      /\ OthersRead(s).modApplication = kept("modApplication", s.modApplication)
  BY <1>2 DEF Sessions
<1>7. QED
  BY <1>4, <1>5, <1>6 DEF kept

\* Reading a session in full.
LEMMA ReadAll ==
  ASSUME NEW s \in Sessions
  PROVE  LET r == AllRead(s)
         IN  /\ r \in Sessions
             /\ r.stale = {}
             /\ r.run = s.run /\ r.at = s.at /\ r.clock = s.clock /\ r.flown = s.flown
             /\ r.step = IF "step" \in s.stale THEN None ELSE s.step
             /\ r.queue = IF "step" \in s.stale THEN None ELSE s.queue
             /\ r.catalog = IF "step" \in s.stale THEN None ELSE s.catalog
             /\ r.log = IF "step" \in s.stale THEN <<>> ELSE s.log
             /\ r.resolution = IF "resolution" \in s.stale THEN None ELSE s.resolution
             /\ r.decision = IF "decision" \in s.stale THEN None ELSE s.decision
             /\ r.revalidation = IF "revalidation" \in s.stale THEN None ELSE s.revalidation
             /\ r.application = IF "application" \in s.stale THEN None ELSE s.application
             /\ r.modApplication = IF "modApplication" \in s.stale THEN None ELSE s.modApplication
<1>1. StepsRead(s) \in Sessions
  BY ReadStep
<1>2. AllRead(s) = OthersRead(StepsRead(s))
  BY DEF AllRead
<1>3. QED
  BY <1>1, <1>2, ReadStep, ReadOthers

\* Two sessions with the same fields are one.
LEMMA SameSession ==
  ASSUME NEW s \in Sessions, NEW t \in Sessions,
         s.run = t.run, s.at = t.at, s.clock = t.clock, s.stale = t.stale, s.flown = t.flown,
         s.step = t.step, s.resolution = t.resolution, s.decision = t.decision,
         s.revalidation = t.revalidation, s.application = t.application,
         s.modApplication = t.modApplication, s.queue = t.queue, s.catalog = t.catalog,
         s.log = t.log
  PROVE  s = t
  BY DEF Sessions

\* Who has been read is read again to no effect.
LEMMA ReadTwice ==
  ASSUME NEW s \in Sessions
  PROVE  /\ s.stale = {} => AllRead(s) = s
         /\ AllRead(AllRead(s)) = AllRead(s)
         /\ AllRead(StepsRead(s)) = AllRead(s)
<1>1. ASSUME NEW t \in Sessions, t.stale = {}
      PROVE  AllRead(t) = t
  <2>1. AllRead(t) \in Sessions
    BY ReadAll
  <2> DEFINE r == AllRead(t)
  <2>2. /\ r.run = t.run /\ r.at = t.at /\ r.clock = t.clock /\ r.stale = t.stale
        /\ r.flown = t.flown
    BY <1>1, ReadAll
  <2>3. /\ r.step = t.step /\ r.queue = t.queue /\ r.catalog = t.catalog /\ r.log = t.log
    BY <1>1, ReadAll
  <2>4. /\ r.resolution = t.resolution /\ r.decision = t.decision
        /\ r.revalidation = t.revalidation /\ r.application = t.application
        /\ r.modApplication = t.modApplication
    BY <1>1, ReadAll
  <2>5. r \in Sessions
    BY <2>1
  <2> HIDE DEF r
  <2>6. r = t
    BY <1>1, <2>2, <2>3, <2>4, <2>5, SameSession
  <2>7. QED
    BY <2>6 DEF r
<1>2. AllRead(s) \in Sessions /\ AllRead(s).stale = {}
  BY ReadAll
<1>3. AllRead(StepsRead(s)) = AllRead(s)
  <2>1. StepsRead(s) \in Sessions
    BY ReadStep
  <2>2. AllRead(StepsRead(s)) \in Sessions
    BY <2>1, ReadAll
  <2> DEFINE q == StepsRead(s)
             r == AllRead(q)
             t == AllRead(s)
  <2>3. /\ r.run = t.run /\ r.at = t.at /\ r.clock = t.clock /\ r.stale = t.stale
        /\ r.flown = t.flown
    <3>1. q.run = s.run /\ q.at = s.at /\ q.clock = s.clock /\ q.flown = s.flown
      BY ReadStep
    <3>2. /\ r.run = q.run /\ r.at = q.at /\ r.clock = q.clock /\ r.stale = {}
          /\ r.flown = q.flown
      BY <2>1, ReadAll
    <3>3. /\ t.run = s.run /\ t.at = s.at /\ t.clock = s.clock /\ t.stale = {}
          /\ t.flown = s.flown
      BY ReadAll
    <3>4. QED
      BY <3>1, <3>2, <3>3
  <2>4. /\ r.step = t.step /\ r.queue = t.queue /\ r.catalog = t.catalog /\ r.log = t.log
    BY <2>1, ReadAll, ReadStep
  <2>5. /\ r.resolution = t.resolution /\ r.decision = t.decision
        /\ r.revalidation = t.revalidation /\ r.application = t.application
        /\ r.modApplication = t.modApplication
    BY <2>1, ReadAll, ReadStep
  <2> HIDE DEF r, t
  <2>6. r \in Sessions /\ t \in Sessions
    BY <2>2, <1>2 DEF r, t
  <2>7. r = t
    BY <2>3, <2>4, <2>5, <2>6, SameSession
  <2>8. QED
    BY <2>7 DEF r, t
<1>4. QED
  BY <1>1, <1>2, <1>3

-----------------------------------------------------------------------------
(* What assessments and the queue yield.                                    *)

LEMMA ResultTypes ==
  ASSUME NEW s \in Sessions
  PROVE  /\ None.at = -1
         /\ s.step # None => s.step \in StepResults
         /\ s.resolution # None => s.resolution \in ResolutionResults
         /\ s.decision # None => s.decision \in DecisionResults
         /\ s.revalidation # None => s.revalidation \in RevalidationResults
         /\ s.application # None => s.application \in ApplicationResults
         /\ s.modApplication # None => s.modApplication \in ApplicationResults
         /\ s.queue # None => s.queue \in Queues
         /\ s.catalog # None => s.catalog \in Catalogs
<1>1. None.at = -1
  BY DEF None
<1>2. QED
  BY <1>1 DEF Sessions, Optional

AssessedAt(events, t, run) ==
  \A p \in DOMAIN events : events[p].pair = p /\ events[p].at = t /\ events[p].run = run

LEMMA RunsAre ==
  ASSUME NEW s \in Sessions, NEW t \in Nat, NEW events \in Runs(s, t)
  PROVE  /\ events \in EventMaps
         /\ DOMAIN events = {q \in Pairs : t \in Presence[q]}
         /\ AssessedAt(events, t, s.run)
<1> DEFINE D == {q \in Pairs : t \in Presence[q]}
<1>1. PICK outcome \in [Pairs -> Outcomes] :
        events = [p \in D |-> [pair |-> p, at |-> t, run |-> s.run, level |-> outcome[p].level,
                               tcpa |-> outcome[p].tcpa, separation |-> outcome[p].separation]]
  BY DEF Runs
<1>2. s.run \in Nat
  BY DEF Sessions
<1>3. \A p \in D : /\ outcome[p].level \in DOMAIN Rank
                   /\ outcome[p].tcpa \in Nat /\ outcome[p].separation \in Nat
  BY ViewAssumption
<1>4. D \in SUBSET Pairs
  OBVIOUS
<1> HIDE DEF D
<1>5. \A p \in D : [pair |-> p, at |-> t, run |-> s.run, level |-> outcome[p].level,
                    tcpa |-> outcome[p].tcpa, separation |-> outcome[p].separation] \in RiskEvents
  BY <1>2, <1>3, <1>4 DEF RiskEvents
<1>6. events \in [D -> RiskEvents]
  BY <1>1, <1>5
<1>7. events \in EventMaps
  BY <1>4, <1>6 DEF EventMaps
<1>8. DOMAIN events = D
  BY <1>1
<1>9. \A p \in D : events[p].pair = p /\ events[p].at = t /\ events[p].run = s.run
  BY <1>1
<1>10. QED
  BY <1>7, <1>8, <1>9 DEF D, AssessedAt

LEMMA NoEvents == <<>> \in EventMaps /\ DOMAIN <<>> = {}
<1>1. <<>> \in [{} -> RiskEvents] /\ DOMAIN <<>> = {}
  OBVIOUS
<1>2. QED
  BY <1>1 DEF EventMaps

LEMMA EventsAre ==
  ASSUME NEW events \in EventMaps
  PROVE  /\ DOMAIN events \subseteq Pairs
         /\ \A p \in DOMAIN events : events[p] \in RiskEvents
  BY DEF EventMaps

LEMMA ItemsAre ==
  ASSUME NEW items \in ItemMaps, NEW p \in Pairs
  PROVE  /\ items[p].status \in {"NONE", "OPEN", "ACKNOWLEDGED", "RESOLVED"}
         /\ items[p].status # "NONE" =>
              /\ items[p] \in [event : RiskEvents, status : {"OPEN", "ACKNOWLEDGED", "RESOLVED"}]
              /\ items[p].event \in RiskEvents
  BY DEF ItemMaps

LEMMA NoItemsAre == NoItems \in ItemMaps /\ \A p \in Pairs : NoItems[p].status = "NONE"
  BY DEF NoItems, ItemMaps

LEMMA RefreshedAre ==
  ASSUME NEW items \in ItemMaps, NEW events \in EventMaps
  PROVE  /\ Refreshed(items, events) \in ItemMaps
         /\ \A p \in Pairs :
              Refreshed(items, events)[p].status # "NONE" =>
                \/ p \in DOMAIN events /\ Refreshed(items, events)[p].event = events[p]
                \/ p \notin DOMAIN events /\ Refreshed(items, events)[p] = items[p]
<1> DEFINE R == Refreshed(items, events)
           kept(p) == p \notin DOMAIN events \/ (events[p].level = "LOW" /\ items[p].status = "NONE")
<1>1. R = [p \in Pairs |->
             IF kept(p) THEN items[p]
             ELSE [event |-> events[p],
                   status |-> IF events[p].level = "LOW" THEN "RESOLVED"
                              ELSE IF items[p].status \in {"NONE", "RESOLVED"} THEN "OPEN"
                              ELSE items[p].status]]
  BY DEF Refreshed
<1>2. ASSUME NEW p \in Pairs, kept(p)
      PROVE  R[p] = items[p]
  BY <1>1, <1>2
<1>3. ASSUME NEW p \in Pairs, ~ kept(p)
      PROVE  /\ p \in DOMAIN events /\ R[p].event = events[p]
             /\ R[p] \in [event : RiskEvents, status : {"OPEN", "ACKNOWLEDGED", "RESOLVED"}]
  <2>1. p \in DOMAIN events /\ events[p] \in RiskEvents
    BY <1>3, EventsAre
  <2>2. items[p].status \in {"NONE", "OPEN", "ACKNOWLEDGED", "RESOLVED"}
    BY ItemsAre
  <2>3. QED
    BY <1>1, <1>3, <2>1, <2>2
<1>4. ASSUME NEW p \in Pairs
      PROVE  R[p] \in [status : {"NONE"}] \cup
                      [event : RiskEvents, status : {"OPEN", "ACKNOWLEDGED", "RESOLVED"}]
  <2>1. items[p] \in [status : {"NONE"}] \cup
                     [event : RiskEvents, status : {"OPEN", "ACKNOWLEDGED", "RESOLVED"}]
    BY DEF ItemMaps
  <2>2. QED
    BY <1>2, <1>3, <2>1
<1>5. R \in ItemMaps
  <2>1. R = [p \in Pairs |-> R[p]]
    BY <1>1
  <2> HIDE DEF R
  <2>2. QED
    BY <1>4, <2>1 DEF ItemMaps
<1>6. ASSUME NEW p \in Pairs, R[p].status # "NONE"
      PROVE  \/ p \in DOMAIN events /\ R[p].event = events[p]
             \/ p \notin DOMAIN events /\ R[p] = items[p]
  <2>1. CASE kept(p)
    <3>1. R[p] = items[p]
      BY <1>2, <2>1
    <3>2. QED
      BY <1>6, <2>1, <3>1
  <2>2. CASE ~ kept(p)
    BY <1>3, <2>2
  <2>3. QED
    BY <2>1, <2>2
<1>7. QED
  BY <1>5, <1>6

\* The items after a run at time t, of a session whose items are in order.
LEMMA ItemsAfterRun ==
  ASSUME NEW s \in Sessions, OfThisRun(s), NEW t \in Nat, s.at <= t, NEW events \in EventMaps,
         \A p \in DOMAIN events :
           events[p].pair = p /\ events[p].at = t /\ events[p].run = s.run
  PROVE  LET items == Refreshed(Items(s.queue), events)
         IN  /\ items \in ItemMaps
             /\ \A p \in Pairs : items[p].status # "NONE" =>
                  /\ items[p].event.pair = p /\ items[p].event.run = s.run
                  /\ items[p].event.at <= t
                  /\ p \in DOMAIN events => items[p].event = events[p]
<1> DEFINE old == Items(s.queue)
           items == Refreshed(old, events)
<1>1. /\ old \in ItemMaps
      /\ \A p \in Pairs : old[p].status # "NONE" =>
           /\ old[p].event \in RiskEvents
           /\ old[p].event.pair = p /\ old[p].event.run = s.run /\ old[p].event.at <= s.at
  <2>1. CASE s.queue = None
    BY <2>1, NoItemsAre DEF Items
  <2>2. CASE s.queue # None
    <3>1. s.queue \in Queues
      BY <2>2, ResultTypes
    <3>2. old = s.queue.items
      BY <2>2 DEF Items
    <3>3. old \in ItemMaps
      BY <3>1, <3>2 DEF Queues
    <3>4. \A p \in Pairs : old[p].status # "NONE" => old[p].event \in RiskEvents
      BY <3>3, ItemsAre
    <3>5. QED
      BY <2>2, <3>2, <3>3, <3>4 DEF OfThisRun
  <2>3. QED
    BY <2>1, <2>2
<1> HIDE DEF old
<1>2. /\ items \in ItemMaps
      /\ \A p \in Pairs : items[p].status # "NONE" =>
           \/ p \in DOMAIN events /\ items[p].event = events[p]
           \/ p \notin DOMAIN events /\ items[p] = old[p]
  BY <1>1, RefreshedAre
<1> HIDE DEF items
<1>3. ASSUME NEW p \in Pairs, items[p].status # "NONE"
      PROVE  /\ items[p].event.pair = p /\ items[p].event.run = s.run
             /\ items[p].event.at <= t
             /\ p \in DOMAIN events => items[p].event = events[p]
  <2>1. CASE p \in DOMAIN events
    BY <1>2, <1>3, <2>1
  <2>2. CASE p \notin DOMAIN events
    <3>1. items[p] = old[p]
      BY <1>2, <1>3, <2>2
    <3>2. old[p].event.at \in Nat /\ s.at \in Nat
      BY <1>1, <1>3, <3>1 DEF RiskEvents, Sessions
    <3>3. QED
      BY <1>1, <1>3, <2>2, <3>1, <3>2
  <2>3. QED
    BY <2>1, <2>2
<1>4. QED
  BY <1>2, <1>3 DEF items, old

-----------------------------------------------------------------------------
(* One lemma per call: it keeps the session's story, and the review goes on *)
(* from where it was.                                                       *)

IsRead(s) == s \in Sessions /\ s.stale = {} /\ Story(s)

SameReview(s, t) ==
  /\ t.resolution = s.resolution /\ t.decision = s.decision /\ t.revalidation = s.revalidation
  /\ t.application = s.application /\ t.modApplication = s.modApplication
  /\ t.catalog = s.catalog /\ t.log = s.log

Keeps(s, t) ==
  /\ t.run = s.run
  /\ s.step # None => t.step # None
  /\ s.resolution # None => t.resolution = s.resolution
  /\ s.decision # None => t.decision # None
  /\ s.revalidation # None => t.revalidation # None
  /\ s.application # None => t.application # None
  /\ s.modApplication # None => t.modApplication # None

LEMMA KeepsIsTransitive ==
  ASSUME NEW s, NEW t, NEW u, Keeps(s, t), Keeps(t, u)
  PROVE  Keeps(s, u)
  BY DEF Keeps

\* What was taken stays taken.
LEMMA TakenIsKept ==
  ASSUME NEW s, NEW t, Keeps(s, t), NEW taken, TakenStepsShow(s, taken)
  PROVE  TakenStepsShow(t, taken)
  BY DEF Keeps, TakenStepsShow, Applied

\* The clock alone.
LEMMA TimePasses ==
  ASSUME NEW s, IsRead(s), NEW t \in Sessions, t.stale = {},
         t.run = s.run, s.at <= t.at, t.flown = s.flown, t.step = s.step, t.queue = s.queue,
         SameReview(s, t)
  PROVE  IsRead(t) /\ Keeps(s, t)
<1>1. s \in Sessions /\ Story(s) /\ s.at \in Nat /\ t.at \in Nat
  BY DEF IsRead, Sessions
<1>2. OfThisRun(t)
  <2>1. ASSUME NEW e \in {s.step, s.resolution, s.decision, s.revalidation, s.application,
                          s.modApplication, s.catalog}, e # None
        PROVE  e.run = t.run /\ e.at <= t.at
    <3>1. e.run = s.run /\ e.at <= s.at
      BY <1>1, <2>1 DEF Story, OfThisRun
    <3>2. e.at \in Nat
      BY <1>1, <2>1, ResultTypes
         DEF StepResults, ResolutionResults, DecisionResults, RevalidationResults,
             ApplicationResults, Catalogs
    <3>3. QED
      BY <1>1, <3>1, <3>2
  <2>2. ASSUME s.queue # None, NEW p \in Pairs, s.queue.items[p].status # "NONE"
        PROVE  s.queue.items[p].event.at <= t.at
    <3>1. s.queue.items[p].event.at \in Nat
      BY <1>1, <2>2, ResultTypes, ItemsAre DEF Queues, RiskEvents
    <3>2. s.queue.items[p].event.at <= s.at
      BY <1>1, <2>2 DEF Story, OfThisRun
    <3>3. QED
      BY <1>1, <3>1, <3>2
  <2>3. QED
    BY <1>1, <2>1, <2>2 DEF Story, OfThisRun, SameReview
<1>3. ReviewInOrder(t)
  BY <1>1 DEF Story, ReviewInOrder, SameReview
<1>4. FlightSeen(t)
  BY <1>1 DEF Story, FlightSeen, SameReview
<1>5. SourceIsFound(t)
  BY <1>1 DEF Story, SourceIsFound, SameReview
<1>6. QED
  BY <1>2, <1>3, <1>4, <1>5 DEF IsRead, Story, Keeps, SameReview

\* A Step that is made assesses, and the queue has what it assessed.
Assessed(t) ==
  /\ t.step # None /\ t.step.at = t.at /\ t.queue # None
  /\ \A p \in DOMAIN t.step.events :
       t.queue.items[p].status # "NONE" => t.queue.items[p].event = t.step.events[p]

LEMMA StepIsMade ==
  ASSUME NEW s, IsRead(s), NEW n \in Nat, n > 0 \/ s.resolution = None, NEW r \in Steps(s, n)
  PROVE  /\ r.status \in {200, 409}
         /\ IsRead(r.session) /\ Keeps(s, r.session) /\ SameReview(s, r.session)
         /\ r.status = 200 => Assessed(r.session)
<1> DEFINE at == s.at + n
<1>1. s \in Sessions /\ s.stale = {} /\ Story(s) /\ s.at \in Nat /\ at \in Nat /\ s.at <= at
  BY DEF IsRead, Sessions
<1>2. PICK events \in EventsOf(s, n) : r = Stepped(s, n, events)
  BY DEF Steps
<1>3. /\ events \in EventMaps
      /\ \A p \in DOMAIN events :
           events[p].pair = p /\ events[p].at = at /\ events[p].run = s.run
  <2>1. CASE SlotDue(s, at)
    <3>1. events \in Runs(s, at)
      BY <1>2, <2>1 DEF EventsOf
    <3>2. s \in Sessions /\ at \in Nat
      BY <1>1
    <3> HIDE DEF at
    <3>3. events \in EventMaps /\ AssessedAt(events, at, s.run)
      BY <3>1, <3>2, RunsAre
    <3>4. QED
      BY <3>3 DEF AssessedAt
  <2>2. CASE ~ SlotDue(s, at)
    <3>1. events = <<>>
      BY <1>2, <2>2 DEF EventsOf
    <3>2. events \in EventMaps /\ DOMAIN events = {}
      BY <3>1, NoEvents
    <3>3. QED
      BY <3>2, Zenon
  <2>3. QED
    BY <2>1, <2>2
<1> DEFINE moved == [s EXCEPT !.at = at]
           items == Refreshed(Items(s.queue), events)
           queue == [at |-> at, run |-> s.run, items |-> items]
           step == [at |-> at, run |-> s.run, events |-> events,
                    traffic |-> [at |-> at, flown |-> s.flown]]
           made == [moved EXCEPT !.queue = queue, !.step = step]
<1>4. /\ moved \in Sessions /\ moved.stale = {} /\ moved.run = s.run /\ moved.at = at
      /\ moved.flown = s.flown /\ moved.step = s.step /\ moved.queue = s.queue
      /\ SameReview(s, moved)
  BY <1>1 DEF Sessions, SameReview
<1>5. /\ items \in ItemMaps
      /\ \A p \in Pairs : items[p].status # "NONE" =>
           /\ items[p].event.pair = p /\ items[p].event.run = s.run /\ items[p].event.at <= at
           /\ p \in DOMAIN events => items[p].event = events[p]
  BY <1>1, <1>3, ItemsAfterRun DEF Story
<1>6. s.run \in Nat /\ s.flown \in BOOLEAN
  BY <1>1 DEF Sessions
<1>7. /\ queue \in Queues /\ step \in StepResults /\ queue # None /\ step # None
  <2>1. queue \in Queues
    BY <1>1, <1>5, <1>6 DEF Queues
  <2>2. step \in StepResults
    BY <1>1, <1>3, <1>6 DEF StepResults, Traffics
  <2>3. queue.at # -1 /\ step.at # -1
    BY <1>1
  <2>4. QED
    BY <2>1, <2>2, <2>3 DEF None
<1> HIDE DEF items
<1>8. /\ queue.at = at /\ queue.run = s.run /\ queue.items = items
      /\ step.at = at /\ step.run = s.run /\ step.events = events
      /\ step.traffic.at = at /\ step.traffic.flown = s.flown
  OBVIOUS
<1> HIDE DEF queue, step
<1>9. /\ made \in Sessions /\ made.stale = {} /\ made.run = s.run /\ made.at = at
      /\ made.flown = s.flown /\ made.step = step /\ made.queue = queue
      /\ SameReview(s, made)
  <2>1. queue \in Optional(Queues) /\ step \in Optional(StepResults)
    BY <1>7 DEF Optional
  <2>2. made = [s EXCEPT !.at = at, !.queue = queue, !.step = step]
    BY <1>1 DEF Sessions
  <2>3. QED
    BY <1>1, <2>1, <2>2 DEF Sessions, SameReview
<1>10. \/ r = [status |-> 409, session |-> moved]
       \/ r = [status |-> 200, session |-> made]
  BY <1>2 DEF Stepped, Conflict, Done, queue, step, items
<1> HIDE DEF moved, made
<1>11. IsRead(moved) /\ Keeps(s, moved)
  BY <1>1, <1>4, TimePasses
<1>12. OfThisRun(made)
  <2>1. ASSUME NEW e \in {s.resolution, s.decision, s.revalidation, s.application,
                          s.modApplication, s.catalog}, e # None
        PROVE  e.run = s.run /\ e.at <= at
    BY <1>4, <1>11, <2>1 DEF IsRead, Story, OfThisRun, SameReview
  <2>2. s.resolution # None =>
          s.resolution.source.run = s.run /\ s.resolution.source.at <= s.resolution.at
    BY <1>1 DEF Story, OfThisRun
  <2>3. step.run = s.run /\ step.at <= at
    BY <1>1, <1>8
  <2>4. QED
    BY <1>3, <1>5, <1>7, <1>8, <1>9, <2>1, <2>2, <2>3 DEF OfThisRun, SameReview
<1>13. ReviewInOrder(made)
  BY <1>1, <1>7, <1>9 DEF Story, ReviewInOrder, SameReview
<1>14. FlightSeen(made)
  BY <1>1, <1>7, <1>8, <1>9 DEF Story, FlightSeen, SameReview
<1>15. SourceIsFound(made)
  <2>1. SUFFICES ASSUME s.resolution # None, NEW p \in DOMAIN events,
                        ConflictId(events[p]) = ConflictId(s.resolution.source)
                 PROVE  FALSE
    BY <1>8, <1>9 DEF SourceIsFound, SameReview
  <2>2. events[p].at = s.resolution.source.at
    BY <2>1 DEF ConflictId
  <2>3. s.resolution.source.at <= s.resolution.at /\ s.resolution.at <= s.at
    BY <1>1, <2>1 DEF Story, OfThisRun
  <2>4. s.resolution.source.at \in Nat /\ s.resolution.at \in Nat
    BY <1>1, <2>1, ResultTypes DEF ResolutionResults, RiskEvents
  <2>5. QED
    BY <1>1, <1>3, <2>1, <2>2, <2>3, <2>4
<1>16. IsRead(made) /\ Keeps(s, made) /\ Assessed(made)
  <2>1. IsRead(made)
    BY <1>9, <1>12, <1>13, <1>14, <1>15 DEF IsRead, Story
  <2>2. Keeps(s, made)
    BY <1>7, <1>9 DEF Keeps, SameReview
  <2>3. Assessed(made)
    BY <1>3, <1>5, <1>7, <1>8, <1>9, EventsAre DEF Assessed
  <2>4. QED
    BY <2>1, <2>2, <2>3
<1>17. QED
  BY <1>4, <1>9, <1>10, <1>11, <1>16

LEMMA KeepsItself == ASSUME NEW s PROVE Keeps(s, s) /\ SameReview(s, s)
  BY DEF Keeps, SameReview

LEMMA NothingDecidedYet ==
  ASSUME NEW s, IsRead(s)
  PROVE  /\ s.resolution = None => s.decision = None
         /\ s.decision = None => s.revalidation = None /\ s.application = None
         /\ s.revalidation = None => s.modApplication = None
  BY DEF IsRead, Story, ReviewInOrder

\* The Resolution is of a pair the Step has just assessed, or has an event
\* that this Step did not touch: the source is what MatchingEvent will find.
LEMMA ResolutionIsPublished ==
  ASSUME NEW s, IsRead(s), Assessed(s), s.resolution = None, NEW r \in Resolutions(s)
  PROVE  /\ r.status \in {200, 409}
         /\ IsRead(r.session) /\ Keeps(s, r.session)
         /\ r.status = 200 => r.session.resolution # None
<1> DEFINE items == s.queue.items
           source(p) == items[p].event
           resolution(p, safe) == [at |-> s.at, run |-> s.run, source |-> source(p), safe |-> safe]
           catalog(safe) == [at |-> s.at, run |-> s.run, safe |-> safe]
           made(p, safe) == [s EXCEPT !.resolution = resolution(p, safe), !.catalog = catalog(safe)]
<1>1. /\ s \in Sessions /\ s.stale = {} /\ Story(s) /\ s.at \in Nat /\ s.run \in Nat
      /\ s.queue \in Queues /\ items \in ItemMaps /\ s.step \in StepResults
  <2>1. s.queue # None /\ s.step # None
    BY DEF Assessed
  <2>2. s.queue \in Queues /\ s.step \in StepResults
    BY <2>1, ResultTypes DEF IsRead
  <2>3. QED
    BY <2>2 DEF IsRead, Sessions, Queues
<1>2. \/ r = [status |-> 409, session |-> s]
      \/ \E p \in Pairs, safe \in SUBSET Candidates :
           /\ items[p].status \in {"OPEN", "ACKNOWLEDGED"}
           /\ r = [status |-> 200, session |-> made(p, safe)]
  <2>1. r = Conflict(s) \/ \E p \in Sources(s), safe \in SUBSET Candidates : r = Done(Published(s, p, safe))
    BY DEF Resolutions
  <2>2. \A p \in Sources(s) : p \in Pairs /\ items[p].status \in {"OPEN", "ACKNOWLEDGED"}
    BY DEF Sources, Worst, Active
  <2>3. \A p, safe : Published(s, p, safe) = made(p, safe)
    BY DEF Published
  <2> HIDE DEF made
  <2>4. QED
    BY <2>1, <2>2, <2>3 DEF Conflict, Done
<1>3. CASE r = [status |-> 409, session |-> s]
  BY <1>3, KeepsItself
<1>4. ASSUME NEW p \in Pairs, NEW safe \in SUBSET Candidates, items[p].status # "NONE"
      PROVE  /\ IsRead(made(p, safe)) /\ Keeps(s, made(p, safe))
             /\ made(p, safe).resolution # None
  <2> DEFINE t == made(p, safe)
  <2>1. source(p) \in RiskEvents
    BY <1>1, <1>4, ItemsAre
  <2>2. source(p).pair = p /\ source(p).run = s.run /\ source(p).at <= s.at
    BY <1>1, <1>4 DEF Story, OfThisRun, Assessed
  <2> HIDE DEF source
  <2>3. resolution(p, safe) \in ResolutionResults /\ catalog(safe) \in Catalogs
    BY <1>1, <2>1 DEF ResolutionResults, Catalogs
  <2>4. /\ resolution(p, safe).at = s.at /\ resolution(p, safe).run = s.run
        /\ resolution(p, safe).source = source(p) /\ resolution(p, safe).safe = safe
        /\ catalog(safe).at = s.at /\ catalog(safe).run = s.run /\ catalog(safe).safe = safe
    OBVIOUS
  <2>5. resolution(p, safe) # None /\ catalog(safe) # None
    BY <1>1, <2>4 DEF None
  <2> HIDE DEF resolution, catalog, items
  <2>6. /\ t \in Sessions /\ t.stale = {} /\ t.run = s.run /\ t.at = s.at /\ t.flown = s.flown
        /\ t.step = s.step /\ t.queue = s.queue
        /\ t.resolution = resolution(p, safe) /\ t.catalog = catalog(safe)
        /\ t.decision = s.decision /\ t.revalidation = s.revalidation
        /\ t.application = s.application /\ t.modApplication = s.modApplication
        /\ t.log = s.log
    <3>1. resolution(p, safe) \in Optional(ResolutionResults) /\ catalog(safe) \in Optional(Catalogs)
      BY <2>3 DEF Optional
    <3>2. QED
      BY <1>1, <3>1 DEF Sessions
  <2> HIDE DEF t
  <2>7. /\ s.decision = None /\ s.revalidation = None /\ s.application = None
        /\ s.modApplication = None
    BY NothingDecidedYet
  <2>8. OfThisRun(t)
    <3>1. s.at <= s.at
      BY <1>1
    <3>2. QED
      BY <1>1, <2>2, <2>4, <2>6, <2>7, <3>1 DEF Story, OfThisRun
  <2>9. ReviewInOrder(t)
    BY <2>4, <2>5, <2>6, <2>7 DEF ReviewInOrder, Assessed
  <2>10. FlightSeen(t)
    BY <1>1, <2>6 DEF Story, FlightSeen
  <2>11. SourceIsFound(t)
    <3>1. SUFFICES ASSUME NEW q \in DOMAIN s.step.events,
                          ConflictId(s.step.events[q]) = ConflictId(source(p))
                   PROVE  s.step.events[q] = source(p)
      BY <2>4, <2>6 DEF SourceIsFound
    <3>2. s.step.events[q].pair = source(p).pair
      BY <3>1 DEF ConflictId
    <3>3. s.step.events[q].pair = q
      BY <1>1, <3>1 DEF Story, OfThisRun, Assessed
    <3>4. q = p
      BY <2>2, <3>2, <3>3
    <3>5. s.step.events[p] = items[p].event
      BY <1>4, <3>1, <3>4 DEF Assessed, items
    <3>6. QED
      BY <3>4, <3>5 DEF source
  <2>12. QED
    BY <2>5, <2>6, <2>7, <2>8, <2>9, <2>10, <2>11 DEF IsRead, Story, Keeps, t
<1>5. CASE \E p \in Pairs, safe \in SUBSET Candidates :
             /\ items[p].status \in {"OPEN", "ACKNOWLEDGED"}
             /\ r = [status |-> 200, session |-> made(p, safe)]
  <2>1. PICK p \in Pairs, safe \in SUBSET Candidates :
             /\ items[p].status \in {"OPEN", "ACKNOWLEDGED"}
             /\ r = [status |-> 200, session |-> made(p, safe)]
    BY <1>5
  <2> HIDE DEF made, items
  <2>2. IsRead(made(p, safe)) /\ Keeps(s, made(p, safe)) /\ made(p, safe).resolution # None
    BY <1>4, <2>1
  <2>3. QED
    BY <2>1, <2>2
<1>6. QED
  BY <1>2, <1>3, <1>5

LEMMA EntryIsTyped ==
  ASSUME NEW s \in Sessions, s.catalog # None, NEW type \in DecisionTypes, NEW at \in Nat
  PROVE  LET entry == Entry(s, s.catalog, type, at)
         IN  /\ entry \in Entries
             /\ entry.set = s.catalog.at /\ entry.at = at
<1>1. s.catalog.at \in Nat /\ s.run \in Nat
  BY ResultTypes DEF Catalogs, Sessions
<1>2. QED
  BY <1>1 DEF Entry, Entries

\* What the log has, it keeps.
LEMMA AppendKeeps ==
  ASSUME NEW log \in Seq(Entries), NEW entry \in Entries
  PROVE  /\ Append(log, entry) \in Seq(Entries)
         /\ Len(log) + 1 \in DOMAIN Append(log, entry)
         /\ Append(log, entry)[Len(log) + 1] = entry
         /\ \A i \in DOMAIN log : i \in DOMAIN Append(log, entry) /\ Append(log, entry)[i] = log[i]
  OBVIOUS

LEMMA DecisionIsRecorded ==
  ASSUME NEW s, IsRead(s), s.resolution # None, s.decision = None,
         NEW type \in DecisionTypes, NEW r \in Decisions(s, type)
  PROVE  /\ r.status \in {200, 409}
         /\ IsRead(r.session) /\ Keeps(s, r.session)
         /\ r.status = 200 => r.session.decision # None
<1> DEFINE entry == Entry(s, s.catalog, type, s.at)
           log == Append(s.log, entry)
           decision == [at |-> s.at, run |-> s.run, type |-> type, set |-> s.resolution.at,
                        revision |-> Len(s.log) + 1]
           t == [s EXCEPT !.decision = decision, !.log = log]
<1>1. /\ s \in Sessions /\ s.stale = {} /\ Story(s) /\ s.at \in Nat /\ s.run \in Nat
      /\ s.catalog # None /\ s.catalog.at = s.resolution.at /\ s.log \in Seq(Entries)
  BY DEF IsRead, Story, ReviewInOrder, Sessions
<1>2. \/ r = [status |-> 409, session |-> s]
      \/ r = [status |-> 200, session |-> t]
  BY DEF Decisions, Conflict, Done
<1>3. /\ entry \in Entries /\ entry.set = s.resolution.at /\ entry.at = s.at
  BY <1>1, EntryIsTyped
<1> HIDE DEF entry
<1>4. /\ log \in Seq(Entries)
      /\ \E i \in DOMAIN log : log[i].set = s.resolution.at /\ log[i].at = s.at
  BY <1>1, <1>3, AppendKeeps
<1> HIDE DEF log
<1>5. decision \in DecisionResults /\ decision # None
  <2>1. s.resolution.at \in Nat
    BY <1>1, ResultTypes DEF ResolutionResults
  <2>2. decision \in DecisionResults
    BY <1>1, <2>1 DEF DecisionResults
  <2>3. decision.at # -1
    BY <1>1
  <2>4. QED
    BY <2>2, <2>3 DEF None
<1>6. decision.at = s.at /\ decision.run = s.run
  OBVIOUS
<1> HIDE DEF decision
<1>7. /\ t \in Sessions /\ t.stale = {} /\ t.run = s.run /\ t.at = s.at /\ t.flown = s.flown
      /\ t.step = s.step /\ t.queue = s.queue /\ t.resolution = s.resolution
      /\ t.catalog = s.catalog /\ t.decision = decision /\ t.log = log
      /\ t.revalidation = s.revalidation /\ t.application = s.application
      /\ t.modApplication = s.modApplication
  <2>1. decision \in Optional(DecisionResults)
    BY <1>5 DEF Optional
  <2>2. QED
    BY <1>1, <1>4, <2>1 DEF Sessions
<1> HIDE DEF t
<1>8. OfThisRun(t)
  <2>1. s.at <= s.at
    BY <1>1
  <2>2. QED
    BY <1>1, <1>6, <1>7, <2>1 DEF Story, OfThisRun
<1>9. ReviewInOrder(t)
  <2>1. s.revalidation = None /\ s.application = None /\ s.modApplication = None
    BY NothingDecidedYet
  <2>2. QED
    BY <1>1, <1>4, <1>6, <1>7, <2>1 DEF Story, ReviewInOrder
<1>10. FlightSeen(t) /\ SourceIsFound(t)
  BY <1>1, <1>7 DEF Story, FlightSeen, SourceIsFound
<1>11. IsRead(t) /\ Keeps(s, t) /\ t.decision # None
  BY <1>5, <1>7, <1>8, <1>9, <1>10 DEF IsRead, Story, Keeps
<1>12. QED
  BY <1>2, <1>11, KeepsItself

LEMMA ModificationIsRevalidated ==
  ASSUME NEW s, IsRead(s), s.decision # None, s.revalidation = None, NEW r \in Revalidations(s)
  PROVE  /\ r.status \in {200, 409}
         /\ IsRead(r.session) /\ Keeps(s, r.session)
         /\ r.status = 409 => r.session = s
         /\ r.status = 200 => r.session.revalidation # None
<1>1. /\ s \in Sessions /\ s.stale = {} /\ Story(s) /\ s.at \in Nat /\ s.run \in Nat
  BY DEF IsRead, Sessions
<1> DEFINE revalidation(safe) == [at |-> s.at, run |-> s.run, safe |-> safe]
           made(safe) == [s EXCEPT !.revalidation = revalidation(safe)]
<1>2. \/ r = [status |-> 409, session |-> s]
      \/ /\ s.at \in Presence[s.resolution.source.pair]
         /\ \E safe \in BOOLEAN : r = [status |-> 200, session |-> made(safe)]
  BY DEF Revalidations, Conflict, Done
<1>3. ASSUME s.at \in Presence[s.resolution.source.pair], NEW safe \in BOOLEAN
      PROVE  IsRead(made(safe)) /\ Keeps(s, made(safe)) /\ made(safe).revalidation # None
  <2> DEFINE t == made(safe)
  <2>1. /\ revalidation(safe) \in RevalidationResults
        /\ revalidation(safe).at = s.at /\ revalidation(safe).run = s.run
    BY <1>1 DEF RevalidationResults
  <2>2. revalidation(safe) # None
    BY <1>1, <2>1 DEF None
  <2> HIDE DEF revalidation
  <2>3. /\ t \in Sessions /\ t.stale = {} /\ t.run = s.run /\ t.at = s.at /\ t.flown = s.flown
        /\ t.step = s.step /\ t.queue = s.queue /\ t.resolution = s.resolution
        /\ t.catalog = s.catalog /\ t.decision = s.decision /\ t.log = s.log
        /\ t.revalidation = revalidation(safe) /\ t.application = s.application
        /\ t.modApplication = s.modApplication
    <3>1. revalidation(safe) \in Optional(RevalidationResults)
      BY <2>1 DEF Optional
    <3>2. QED
      BY <1>1, <3>1 DEF Sessions
  <2> HIDE DEF t
  <2>4. OfThisRun(t)
    <3>1. s.at <= s.at
      BY <1>1
    <3>2. QED
      BY <1>1, <2>1, <2>3, <3>1 DEF Story, OfThisRun
  <2>5. ReviewInOrder(t)
    BY <1>1, <1>3, <2>1, <2>3 DEF Story, ReviewInOrder
  <2>6. FlightSeen(t) /\ SourceIsFound(t)
    BY <1>1, <2>3 DEF Story, FlightSeen, SourceIsFound
  <2>7. IsRead(t) /\ Keeps(s, t) /\ t.revalidation # None
    BY <2>2, <2>3, <2>4, <2>5, <2>6 DEF IsRead, Story, Keeps
  <2>8. QED
    BY <2>7 DEF t
<1> HIDE DEF made
<1>4. QED
  BY <1>2, <1>3, KeepsItself

\* The flight: the anchor is set, and the queue takes the run or refuses it.
LEMMA FlightIsFlown ==
  ASSUME NEW s, IsRead(s), NEW events \in Runs(s, s.at)
  PROVE  LET t == Flights(s, events)
         IN  /\ IsRead(t) /\ Keeps(s, t) /\ SameReview(s, t)
             /\ t.run = s.run /\ t.at = s.at /\ t.stale = {} /\ t.flown /\ t.step = s.step
             /\ t.clock = s.clock
             /\ Refreshed(Items(s.queue), events) \in ItemMaps
<1>1. /\ s \in Sessions /\ s.stale = {} /\ Story(s) /\ s.at \in Nat /\ s.run \in Nat
      /\ s.at <= s.at
  BY DEF IsRead, Sessions
<1>2. events \in EventMaps /\ AssessedAt(events, s.at, s.run)
  BY <1>1, RunsAre
<1> DEFINE t == Flights(s, events)
           items == Refreshed(Items(s.queue), events)
           queue == [at |-> s.at, run |-> s.run, items |-> items]
<1>3. /\ items \in ItemMaps
      /\ \A p \in Pairs : items[p].status # "NONE" =>
           /\ items[p].event.pair = p /\ items[p].event.run = s.run /\ items[p].event.at <= s.at
  BY <1>1, <1>2, ItemsAfterRun DEF Story, AssessedAt
<1> HIDE DEF items
<1>4. queue \in Queues /\ queue # None
  <2>1. queue \in Queues
    BY <1>1, <1>3 DEF Queues
  <2>2. queue.at # -1
    BY <1>1
  <2>3. QED
    BY <2>1, <2>2 DEF None
<1>5. queue.run = s.run /\ queue.items = items
  OBVIOUS
<1>6. t = IF ~ QueueTakes(s, s.at) THEN [s EXCEPT !.flown = TRUE]
          ELSE [[s EXCEPT !.flown = TRUE] EXCEPT !.queue = queue]
  BY DEF Flights, items
<1> HIDE DEF queue
<1>7. /\ t \in Sessions /\ t.stale = {} /\ t.run = s.run /\ t.at = s.at /\ t.flown
      /\ t.clock = s.clock /\ t.step = s.step /\ t.queue \in {s.queue, queue}
      /\ SameReview(s, t)
  <2> HIDE DEF t
  <2>1. queue \in Optional(Queues)
    BY <1>4 DEF Optional
  <2>2. \/ t = [s EXCEPT !.flown = TRUE]
        \/ t = [s EXCEPT !.flown = TRUE, !.queue = queue]
    BY <1>1, <1>6 DEF Sessions
  <2>3. t \in Sessions
    BY <1>1, <2>1, <2>2, ZenonT(40) DEF Sessions
  <2>4. /\ t.stale = {} /\ t.run = s.run /\ t.at = s.at /\ t.flown
        /\ t.clock = s.clock /\ t.step = s.step /\ t.queue \in {s.queue, queue}
    BY <1>1, <2>2 DEF Sessions
  <2>5. SameReview(s, t)
    BY <1>1, <2>2 DEF Sessions, SameReview
  <2>6. QED
    BY <2>3, <2>4, <2>5
<1> HIDE DEF t
<1>8. OfThisRun(t)
  <2>1. CASE t.queue = s.queue
    BY <1>1, <1>7, <2>1 DEF Story, OfThisRun, SameReview
  <2>2. CASE t.queue = queue
    BY <1>1, <1>3, <1>5, <1>7, <2>2 DEF Story, OfThisRun, SameReview
  <2>3. QED
    BY <1>7, <2>1, <2>2
<1>9. ReviewInOrder(t)
  BY <1>1, <1>4, <1>7 DEF Story, ReviewInOrder, SameReview
<1>10. FlightSeen(t) /\ SourceIsFound(t)
  BY <1>1, <1>7 DEF Story, FlightSeen, SourceIsFound, SameReview
<1>11. IsRead(t) /\ Keeps(s, t)
  BY <1>7, <1>8, <1>9, <1>10 DEF IsRead, Story, Keeps, SameReview
<1>12. QED
  BY <1>3, <1>7, <1>11 DEF t, items

\* The result of a flight is that of the run, of the pair under review.
LEMMA ResultIsTyped ==
  ASSUME NEW s, IsRead(s), s.resolution # None, NEW events \in Runs(s, s.at),
         s.at \in Presence[s.resolution.source.pair]
  PROVE  LET result == Result(s, events)
         IN  /\ result \in ApplicationResults /\ result # None
             /\ result.at = s.at /\ result.run = s.run
             /\ result.traffic.at = s.at /\ result.traffic.flown
<1>1. s \in Sessions /\ s.at \in Nat /\ s.run \in Nat
  BY DEF IsRead, Sessions
<1>2. s.resolution.source.pair \in Pairs
  BY <1>1, ResultTypes DEF ResolutionResults, RiskEvents
<1>3. events \in EventMaps /\ s.resolution.source.pair \in DOMAIN events
  BY <1>1, <1>2, RunsAre
<1>4. events[s.resolution.source.pair] \in RiskEvents
  BY <1>3, EventsAre
<1>5. Refreshed(Items(s.queue), events) \in ItemMaps
  BY FlightIsFlown
<1>6. Result(s, events) \in ApplicationResults
  BY <1>1, <1>4, <1>5 DEF Result, ApplicationResults, Traffics
<1>7. /\ Result(s, events).at = s.at /\ Result(s, events).run = s.run
      /\ Result(s, events).traffic.at = s.at /\ Result(s, events).traffic.flown
  BY DEF Result
<1>8. None.at = -1
  BY DEF None
<1>9. QED
  BY <1>1, <1>6, <1>7, <1>8

\* With the result the flight is an application.
LEMMA FlightIsShown ==
  ASSUME NEW s, IsRead(s), s.resolution # None, s.decision # None, Applied(s) = None,
         s.step # None, s.step.at = s.at, NEW events \in Runs(s, s.at),
         s.at \in Presence[s.resolution.source.pair],
         NEW t,
         \/ t = [Flights(s, events) EXCEPT !.application = Result(s, events)]
         \/ /\ s.revalidation # None
            /\ t = [Flights(s, events) EXCEPT !.modApplication = Result(s, events)]
  PROVE  IsRead(t) /\ Keeps(s, t) /\ Applied(t) # None
<1> DEFINE f == Flights(s, events)
           result == Result(s, events)
<1>1. /\ s \in Sessions /\ s.at \in Nat /\ s.run \in Nat
      /\ s.application = None /\ s.modApplication = None
  BY DEF IsRead, Sessions, Applied
<1>2. /\ IsRead(f) /\ SameReview(s, f) /\ f.run = s.run /\ f.at = s.at /\ f.flown /\ f.step = s.step
      /\ Keeps(s, f)
  BY FlightIsFlown
<1>3. f \in Sessions /\ f.stale = {} /\ Story(f)
  BY <1>2 DEF IsRead
<1>4. /\ result \in ApplicationResults /\ result # None
      /\ result.at = s.at /\ result.run = s.run
      /\ result.traffic.at = s.at /\ result.traffic.flown
  BY ResultIsTyped
<1>5. \/ t = [f EXCEPT !.application = result]
      \/ s.revalidation # None /\ t = [f EXCEPT !.modApplication = result]
  OBVIOUS
<1> HIDE DEF f, result
<1>6. /\ t \in Sessions /\ t.stale = {} /\ t.run = f.run /\ t.at = f.at /\ t.flown = f.flown
      /\ t.step = f.step /\ t.queue = f.queue /\ t.resolution = f.resolution
      /\ t.catalog = f.catalog /\ t.decision = f.decision /\ t.log = f.log
      /\ t.revalidation = f.revalidation
      /\ \/ t.application = result /\ t.modApplication = f.modApplication
         \/ /\ t.application = f.application /\ t.modApplication = result
            /\ s.revalidation # None
  <2>1. result \in Optional(ApplicationResults)
    BY <1>4 DEF Optional
  <2>2. CASE t = [f EXCEPT !.application = result]
    BY <1>3, <2>1, <2>2 DEF Sessions
  <2>3. CASE s.revalidation # None /\ t = [f EXCEPT !.modApplication = result]
    BY <1>3, <2>1, <2>3 DEF Sessions
  <2>4. QED
    BY <1>5, <2>2, <2>3
<1>7. OfThisRun(t)
  <2>1. s.at <= s.at
    BY <1>1
  <2>2. QED
    BY <1>2, <1>3, <1>4, <1>6, <2>1 DEF Story, OfThisRun
<1>8. ReviewInOrder(t)
  BY <1>2, <1>3, <1>6 DEF Story, ReviewInOrder, SameReview
<1>9. FlightSeen(t)
  <2>1. ~ (s.at > s.at)
    BY <1>1
  <2>2. f.application = None /\ f.modApplication = None
    BY <1>1, <1>2 DEF SameReview
  <2>3. t.step # None => t.step.at = s.at /\ t.step.traffic.at = t.step.at
    BY <1>2, <1>3, <1>6 DEF Story, FlightSeen
  <2>4. ASSUME NEW a \in {t.application, t.modApplication}, a # None
        PROVE  a = result
    BY <1>6, <2>2, <2>4
  <2>5. QED
    BY <1>2, <1>4, <1>6, <2>1, <2>3, <2>4 DEF FlightSeen
<1>10. SourceIsFound(t)
  BY <1>3, <1>6 DEF Story, SourceIsFound
<1>11. IsRead(t)
  BY <1>6, <1>7, <1>8, <1>9, <1>10 DEF IsRead, Story
<1>12. Keeps(s, t)
  BY <1>1, <1>2, <1>6 DEF Keeps
<1>13. Applied(t) # None
  BY <1>4, <1>6 DEF Applied
<1>14. QED
  BY <1>11, <1>12, <1>13

LEMMA ManoeuvreIsApplied ==
  ASSUME NEW s, IsRead(s), s.decision # None, Applied(s) = None, NEW r \in Applications(s)
  PROVE  /\ r.status \in {200, 409}
         /\ IsRead(r.session) /\ Keeps(s, r.session)
         /\ r.status = 200 => Applied(r.session) # None
<1>1. s.resolution # None /\ s.step # None
  BY DEF IsRead, Story, ReviewInOrder
<1>2. \/ r = Conflict(s)
      \/ \E events \in Runs(s, s.at) : r = Conflict(Flights(s, events))
      \/ /\ Contemporaneous(s, s.decision) /\ s.at \in Presence[s.resolution.source.pair]
         /\ \E events \in Runs(s, s.at) :
              r = Done([Flights(s, events) EXCEPT !.application = Result(s, events)])
  BY DEF Applications
<1>3. CASE r = Conflict(s)
  BY <1>3, KeepsItself DEF Conflict
<1>4. CASE \E events \in Runs(s, s.at) : r = Conflict(Flights(s, events))
  BY <1>4, FlightIsFlown DEF Conflict
<1>5. CASE /\ Contemporaneous(s, s.decision) /\ s.at \in Presence[s.resolution.source.pair]
           /\ \E events \in Runs(s, s.at) :
                r = Done([Flights(s, events) EXCEPT !.application = Result(s, events)])
  <2>1. PICK events \in Runs(s, s.at) :
               r = Done([Flights(s, events) EXCEPT !.application = Result(s, events)])
    BY <1>5
  <2>2. s.step.at = s.at
    BY <1>5 DEF Contemporaneous
  <2> DEFINE t == [Flights(s, events) EXCEPT !.application = Result(s, events)]
  <2>3. IsRead(t) /\ Keeps(s, t) /\ Applied(t) # None
    BY <1>1, <1>5, <2>2, FlightIsShown
  <2> HIDE DEF t
  <2>4. r.status = 200 /\ r.session = t
    BY <2>1 DEF Done, t
  <2>5. QED
    BY <2>3, <2>4
<1>6. QED
  BY <1>2, <1>3, <1>4, <1>5

LEMMA ModificationIsApplied ==
  ASSUME NEW s, IsRead(s), s.revalidation # None, Applied(s) = None,
         NEW r \in ModifiedApplications(s)
  PROVE  /\ r.status \in {200, 409}
         /\ IsRead(r.session) /\ Keeps(s, r.session)
         /\ r.status = 200 => Applied(r.session) # None
<1>1. /\ s.decision # None /\ s.resolution # None /\ s.step # None
      /\ s.revalidation.at \in Presence[s.resolution.source.pair]
  BY DEF IsRead, Story, ReviewInOrder
<1>2. \/ r = Conflict(s)
      \/ \E events \in Runs(s, s.at) : r = Conflict(Flights(s, events))
      \/ /\ Contemporaneous(s, s.revalidation)
         /\ \E events \in Runs(s, s.at) :
              r = Done([Flights(s, events) EXCEPT !.modApplication = Result(s, events)])
  BY DEF ModifiedApplications, ClearRuns
<1>3. CASE r = Conflict(s)
  BY <1>3, KeepsItself DEF Conflict
<1>4. CASE \E events \in Runs(s, s.at) : r = Conflict(Flights(s, events))
  BY <1>4, FlightIsFlown DEF Conflict
<1>5. CASE /\ Contemporaneous(s, s.revalidation)
           /\ \E events \in Runs(s, s.at) :
                r = Done([Flights(s, events) EXCEPT !.modApplication = Result(s, events)])
  <2>1. PICK events \in Runs(s, s.at) :
               r = Done([Flights(s, events) EXCEPT !.modApplication = Result(s, events)])
    BY <1>5
  <2>2. s.step.at = s.at /\ s.at \in Presence[s.resolution.source.pair]
    BY <1>1, <1>5 DEF Contemporaneous
  <2> DEFINE t == [Flights(s, events) EXCEPT !.modApplication = Result(s, events)]
  <2>3. IsRead(t) /\ Keeps(s, t) /\ Applied(t) # None
    BY <1>1, <2>2, FlightIsShown
  <2> HIDE DEF t
  <2>4. r.status = 200 /\ r.session = t
    BY <2>1 DEF Done, t
  <2>5. QED
    BY <2>3, <2>4
<1>6. QED
  BY <1>2, <1>3, <1>4, <1>5

-----------------------------------------------------------------------------
(* The commands are made of these calls, each at its stage.                 *)

LEMMA StageTells ==
  ASSUME NEW s, IsRead(s)
  PROVE  /\ Stage(s) = "READY" => s.step = None /\ s.resolution = None
         /\ Stage(s) \in {"MONITORING", "CONFLICT_DETECTED"} =>
              s.resolution = None /\ s.step # None
         /\ Stage(s) = "RECOMMENDATION_AVAILABLE" =>
              s.resolution # None /\ s.decision = None
         /\ Stage(s) = "DECISION_MODIFIED" =>
              s.decision # None /\ s.revalidation = None
         /\ Stage(s) = "DECISION_ACCEPTED" =>
              s.decision # None /\ Applied(s) = None
         /\ Stage(s) = "MODIFICATION_REVALIDATED" =>
              s.revalidation # None /\ Applied(s) = None
<1>1. s \in Sessions
  BY DEF IsRead
<1>2. CASE Applied(s) # None
  BY <1>2 DEF Stage
<1>3. CASE Applied(s) = None /\ s.revalidation # None
  BY <1>3 DEF Stage
<1>4. CASE Applied(s) = None /\ s.revalidation = None /\ s.decision # None
  <2>1. s.decision.type \in DecisionTypes
    BY <1>1, <1>4, ResultTypes DEF DecisionResults
  <2>2. Stage(s) = [MODIFY |-> "DECISION_MODIFIED", REJECT |-> "DECISION_REJECTED",
                    ACCEPT |-> "DECISION_ACCEPTED"][s.decision.type]
    BY <1>4 DEF Stage
  <2>3. Stage(s) \in {"DECISION_MODIFIED", "DECISION_REJECTED", "DECISION_ACCEPTED"}
    BY <2>1, <2>2 DEF DecisionTypes
  <2>4. QED
    BY <1>4, <2>3
<1>5. CASE Applied(s) = None /\ s.revalidation = None /\ s.decision = None
  <2>1. Stage(s) =
         IF s.resolution # None THEN "RECOMMENDATION_AVAILABLE"
         ELSE IF s.step = None THEN "READY"
         ELSE IF \E p \in DOMAIN s.step.events : Rank[s.step.events[p].level] >= 2
              THEN "CONFLICT_DETECTED"
         ELSE IF s.step.at \in Urgent THEN "DEVIATION_DETECTED" ELSE "MONITORING"
    BY <1>5 DEF Stage
  <2>2. QED
    BY <1>5, <2>1
<1>6. QED
  BY <1>2, <1>3, <1>4, <1>5

\* The result a command is to leave is not there yet.
NotTakenYet(s, command) ==
  /\ command = "START" => s.step = None
  /\ command = "GENERATE_RECOMMENDATION" => s.resolution = None
  /\ command \in {"ACCEPT_RECOMMENDATION", "MODIFY_RECOMMENDATION", "REJECT_RECOMMENDATION"}
       => s.decision = None
  /\ command = "REVALIDATE_MODIFIED_MANEUVER" => s.revalidation = None
  /\ command \in {"APPLY_VALIDATED_MODIFIED_MANEUVER", "APPLY_APPROVED_MANEUVER"}
       => Applied(s) = None

LEMMA RunningIsRead ==
  ASSUME NEW s, IsRead(s)
  PROVE  LET t == Running(s)
         IN  IsRead(t) /\ Keeps(s, t) /\ SameReview(s, t) /\ t.step = s.step
<1> DEFINE t == Running(s)
<1>1. s \in Sessions /\ s.stale = {} /\ s.at <= s.at
  BY DEF IsRead, Sessions
<1>2. t \in Sessions
  BY <1>1 DEF Sessions, Running
<1>3. /\ t.stale = {} /\ t.run = s.run /\ s.at <= t.at /\ t.flown = s.flown /\ t.step = s.step
      /\ t.queue = s.queue /\ SameReview(s, t)
  BY <1>1 DEF Sessions, Running, SameReview
<1> HIDE DEF t
<1>4. IsRead(t) /\ Keeps(s, t)
  BY <1>2, <1>3, TimePasses
<1>5. QED
  BY <1>3, <1>4 DEF t

LEMMA TicksArePositive ==
  ToConflict \in Nat /\ ToConflict > 0 /\ Generate \in Nat /\ Generate > 0
  /\ Decide \in Nat /\ Decide > 0 /\ AdvanceSteps \subseteq Nat
  BY GatewayAssumption

\* What a command that is carried out may end in.
Outcome(s, command, r) ==
  /\ r.status \in {200, 409}
  /\ IsRead(r.session) /\ Keeps(s, r.session)
  /\ r.status = 200 => NotTakenYet(s, command) /\ TakenStepsShow(r.session, {command})
  /\ r.status = 409 => r.session = s \/ command \in MayStopHalfway

LEMMA AdvanceIsMade ==
  ASSUME NEW s, IsRead(s), NEW n \in Nat, n > 0, NEW r \in Steps(Running(s), n)
  PROVE  Outcome(s, "ADVANCE", r)
<1>1. IsRead(Running(s)) /\ Keeps(s, Running(s))
  BY RunningIsRead
<1>2. r.status \in {200, 409} /\ IsRead(r.session) /\ Keeps(Running(s), r.session)
  BY <1>1, StepIsMade
<1>3. Keeps(s, r.session)
  BY <1>1, <1>2, KeepsIsTransitive
<1>4. QED
  BY <1>2, <1>3 DEF Outcome, NotTakenYet, TakenStepsShow, MayStopHalfway, Commands

LEMMA StartIsMade ==
  ASSUME NEW s, IsRead(s), Stage(s) = "READY", NEW r \in Steps(Running(s), 0)
  PROVE  Outcome(s, "START", r)
<1>1. /\ IsRead(Running(s)) /\ Keeps(s, Running(s)) /\ SameReview(s, Running(s))
      /\ s.step = None /\ s.resolution = None
  BY RunningIsRead, StageTells
<1>2. Running(s).resolution = None
  BY <1>1 DEF SameReview
<1>3. /\ r.status \in {200, 409} /\ IsRead(r.session) /\ Keeps(Running(s), r.session)
      /\ r.status = 200 => Assessed(r.session)
  BY <1>1, <1>2, StepIsMade
<1>4. Keeps(s, r.session)
  BY <1>1, <1>3, KeepsIsTransitive
<1>5. QED
  BY <1>1, <1>3, <1>4
     DEF Outcome, NotTakenYet, TakenStepsShow, MayStopHalfway, Commands, Assessed

LEMMA SearchIsMade ==
  ASSUME NEW s, IsRead(s), NEW r \in Steps(s, ToConflict)
  PROVE  Outcome(s, "ADVANCE_TO_CONFLICT", r)
<1>1. /\ r.status \in {200, 409} /\ IsRead(r.session) /\ Keeps(s, r.session)
  BY TicksArePositive, StepIsMade
<1>2. QED
  BY <1>1 DEF Outcome, NotTakenYet, TakenStepsShow, MayStopHalfway, Commands

LEMMA GenerationIsMade ==
  ASSUME NEW s, IsRead(s), Stage(s) = "CONFLICT_DETECTED",
         NEW r \in StepThen(s, Generate, Resolutions)
  PROVE  Outcome(s, "GENERATE_RECOMMENDATION", r)
<1>1. s.resolution = None
  BY StageTells
<1>2. PICK q \in Steps(s, Generate) : r \in IF q.status = 200 THEN Resolutions(q.session) ELSE {q}
  BY DEF StepThen
<1>3. /\ q.status \in {200, 409} /\ IsRead(q.session) /\ Keeps(s, q.session)
      /\ SameReview(s, q.session)
      /\ q.status = 200 => Assessed(q.session)
  BY TicksArePositive, StepIsMade
<1>4. CASE q.status = 200
  <2>1. q.session.resolution = None
    BY <1>1, <1>3 DEF SameReview
  <2>2. r \in Resolutions(q.session) /\ Assessed(q.session)
    BY <1>2, <1>3, <1>4
  <2>3. /\ r.status \in {200, 409} /\ IsRead(r.session) /\ Keeps(q.session, r.session)
        /\ r.status = 200 => r.session.resolution # None
    BY <1>3, <2>1, <2>2, ResolutionIsPublished
  <2>4. Keeps(s, r.session)
    BY <1>3, <2>3, KeepsIsTransitive
  <2>5. QED
    BY <1>1, <2>3, <2>4 DEF Outcome, NotTakenYet, TakenStepsShow, MayStopHalfway, Commands
<1>5. CASE q.status # 200
  <2>1. r = q
    BY <1>2, <1>5
  <2>2. QED
    BY <1>3, <1>5, <2>1 DEF Outcome, MayStopHalfway, Commands
<1>6. QED
  BY <1>4, <1>5

LEMMA DecisionIsMade ==
  ASSUME NEW s, IsRead(s), Stage(s) = "RECOMMENDATION_AVAILABLE",
         NEW command \in {"ACCEPT_RECOMMENDATION", "MODIFY_RECOMMENDATION", "REJECT_RECOMMENDATION"},
         NEW type \in DecisionTypes, NEW q \in Steps(s, Decide),
         NEW r \in IF q.status = 200 THEN Decisions(q.session, type) ELSE {q}
  PROVE  Outcome(s, command, r)
<1>1. s.resolution # None /\ s.decision = None
  BY StageTells
<1>2. /\ q.status \in {200, 409} /\ IsRead(q.session) /\ Keeps(s, q.session)
      /\ SameReview(s, q.session)
  BY TicksArePositive, StepIsMade
<1>3. CASE q.status = 200
  <2>1. q.session.resolution # None /\ q.session.decision = None
    BY <1>1, <1>2 DEF SameReview
  <2>2. r \in Decisions(q.session, type)
    BY <1>3
  <2>3. /\ r.status \in {200, 409} /\ IsRead(r.session) /\ Keeps(q.session, r.session)
        /\ r.status = 200 => r.session.decision # None
    BY <1>2, <2>1, <2>2, DecisionIsRecorded
  <2>4. Keeps(s, r.session)
    BY <1>2, <2>3, KeepsIsTransitive
  <2>5. QED
    BY <1>1, <2>3, <2>4 DEF Outcome, NotTakenYet, TakenStepsShow, MayStopHalfway, Commands
<1>4. CASE q.status # 200
  <2>1. r = q
    BY <1>4
  <2>2. QED
    BY <1>2, <1>4, <2>1 DEF Outcome, MayStopHalfway, Commands
<1>5. QED
  BY <1>3, <1>4

LEMMA CallKeeps ==
  ASSUME NEW s, IsRead(s), NEW command \in Commands \ {"RESET", "ADVANCE"},
         AtStage(command, s), NEW r \in CallOf(command, s)
  PROVE  Outcome(s, command, r)
<1>1. Stage(s) = StageOf[command]
  BY DEF AtStage
<1>2. CASE command = "START"
  BY <1>1, <1>2, StartIsMade DEF CallOf, StageOf
<1>3. CASE command = "ADVANCE_TO_CONFLICT"
  BY <1>3, SearchIsMade DEF CallOf
<1>4. CASE command = "GENERATE_RECOMMENDATION"
  <2>1. r \in StepThen(s, Generate, Resolutions)
    BY <1>4 DEF CallOf
  <2>2. QED
    BY <1>1, <1>4, <2>1, GenerationIsMade DEF StageOf
<1>5. CASE command = "ACCEPT_RECOMMENDATION"
  <2>1. \E q \in Steps(s, Decide) :
          r \in IF q.status = 200 THEN Decisions(q.session, "ACCEPT") ELSE {q}
    BY <1>5 DEF CallOf, StepThen
  <2>2. QED
    BY <1>1, <1>5, <2>1, DecisionIsMade DEF StageOf, DecisionTypes
<1>6. CASE command = "MODIFY_RECOMMENDATION"
  <2>1. \E q \in Steps(s, Decide) :
          r \in IF q.status = 200 THEN Decisions(q.session, "MODIFY") ELSE {q}
    BY <1>6 DEF CallOf, StepThen
  <2>2. QED
    BY <1>1, <1>6, <2>1, DecisionIsMade DEF StageOf, DecisionTypes
<1>7. CASE command = "REJECT_RECOMMENDATION"
  <2>1. \E q \in Steps(s, Decide) :
          r \in IF q.status = 200 THEN Decisions(q.session, "REJECT") ELSE {q}
    BY <1>7 DEF CallOf, StepThen
  <2>2. QED
    BY <1>1, <1>7, <2>1, DecisionIsMade DEF StageOf, DecisionTypes
<1>8. CASE command = "REVALIDATE_MODIFIED_MANEUVER"
  <2>1. r \in Revalidations(s) /\ s.decision # None /\ s.revalidation = None
    BY <1>1, <1>8, StageTells DEF CallOf, StageOf
  <2>2. QED
    BY <1>8, <2>1, ModificationIsRevalidated
       DEF Outcome, NotTakenYet, TakenStepsShow, MayStopHalfway, Commands
<1>9. CASE command = "APPLY_VALIDATED_MODIFIED_MANEUVER"
  <2>1. r \in ModifiedApplications(s) /\ s.revalidation # None /\ Applied(s) = None
    BY <1>1, <1>9, StageTells DEF CallOf, StageOf
  <2>2. QED
    BY <1>9, <2>1, ModificationIsApplied
       DEF Outcome, NotTakenYet, TakenStepsShow, MayStopHalfway, Commands
<1>10. CASE command = "APPLY_APPROVED_MANEUVER"
  <2>1. r \in Applications(s) /\ s.decision # None /\ Applied(s) = None
    BY <1>1, <1>10, StageTells DEF CallOf, StageOf
  <2>2. QED
    BY <1>10, <2>1, ManoeuvreIsApplied
       DEF Outcome, NotTakenYet, TakenStepsShow, MayStopHalfway, Commands
<1>11. QED
  BY <1>2, <1>3, <1>4, <1>5, <1>6, <1>7, <1>8, <1>9, <1>10 DEF Commands

LEMMA ExecuteKeeps ==
  ASSUME NEW s, IsRead(s), NEW command \in Commands, NEW input \in Inputs(command),
         NEW r \in Execute(command, input, s)
  PROVE  \/ r.status \in {409, 422} /\ r.session = s
         \/ /\ command = "RESET" /\ s.run < MaxRuns
            /\ r.status = 200 /\ r.session = AllRead(ClockReset(s))
         \/ command # "RESET" /\ Outcome(s, command, r)
<1>1. CASE InputsRefused(command, input, s)
  BY <1>1 DEF Execute, Refused
<1>2. CASE ~ InputsRefused(command, input, s) /\ command = "RESET"
  BY <1>2 DEF Execute, Done
<1>3. CASE ~ InputsRefused(command, input, s) /\ command # "RESET" /\ EvidenceBehind(s)
  BY <1>3 DEF Execute, Refused
<1>4. CASE /\ ~ InputsRefused(command, input, s) /\ command = "ADVANCE" /\ ~ EvidenceBehind(s)
  <2>1. input.seconds \in AdvanceSteps
    BY <1>4 DEF Inputs
  <2>2. CASE input.seconds = 0
    BY <1>4, <2>2 DEF Execute, Refused
  <2>3. CASE input.seconds # 0
    <3>1. input.seconds \in Nat /\ input.seconds > 0
      <4>1. AdvanceSteps \subseteq Nat
        BY TicksArePositive
      <4>2. input.seconds \in Nat
        BY <2>1, <4>1
      <4>3. QED
        BY <2>3, <4>2
    <3>2. r \in Steps(Running(s), input.seconds)
      BY <1>4, <2>3, Zenon DEF Execute
    <3>3. QED
      BY <1>4, <3>1, <3>2, AdvanceIsMade
  <2>4. QED
    BY <2>2, <2>3
<1>5. CASE /\ ~ InputsRefused(command, input, s) /\ command \notin {"RESET", "ADVANCE"}
           /\ ~ EvidenceBehind(s)
  <2>1. \/ r \in Refused(409, s)
        \/ AtStage(command, s) /\ r \in CallOf(command, s)
    BY <1>5 DEF Execute
  <2>2. QED
    BY <1>5, <2>1, CallKeeps DEF Refused
<1>6. QED
  BY <1>1, <1>2, <1>3, <1>4, <1>5

-----------------------------------------------------------------------------
(* What happens to a session that has not been read yet.                    *)

\* A run that has just been reset shows nothing of the one before.
LEMMA ResetIsRead ==
  ASSUME NEW s \in Sessions
  PROVE  /\ ClockReset(s) \in Sessions /\ ClockReset(s).run = s.run + 1
         /\ IsRead(AllRead(ClockReset(s))) /\ AllRead(ClockReset(s)).run = s.run + 1
<1> DEFINE t == ClockReset(s)
           r == AllRead(t)
<1>1. s.run \in Nat /\ s.run + 1 \in Nat
  BY DEF Sessions
<1>2. t \in Sessions /\ t.stale = Orchestrators /\ t.run = s.run + 1
  BY <1>1 DEF Sessions, ClockReset
<1> HIDE DEF t
<1>3. /\ r \in Sessions /\ r.stale = {} /\ r.run = t.run
      /\ r.step = None /\ r.queue = None /\ r.catalog = None /\ r.resolution = None
      /\ r.decision = None /\ r.revalidation = None /\ r.application = None
      /\ r.modApplication = None
  BY <1>2, ReadAll DEF Orchestrators
<1> HIDE DEF r
<1>4. Story(r)
  BY <1>3 DEF Story, OfThisRun, ReviewInOrder, FlightSeen, SourceIsFound
<1>5. QED
  BY <1>2, <1>3, <1>4 DEF IsRead, t, r

\* The clock is paused or ticks.
LEMMA ClockRuns ==
  ASSUME NEW s \in Sessions, IsRead(AllRead(s)), NEW t \in Sessions,
         t.run = s.run, s.at <= t.at, t.flown = s.flown, t.stale = s.stale, t.step = s.step,
         t.queue = s.queue, SameReview(s, t)
  PROVE  IsRead(AllRead(t)) /\ Keeps(AllRead(s), AllRead(t))
<1> DEFINE r == AllRead(s)
           u == AllRead(t)
<1>1. u \in Sessions /\ u.stale = {}
  BY ReadAll
<1>2. u.run = r.run /\ r.at <= u.at /\ u.flown = r.flown
  BY ReadAll
<1>3. u.step = r.step /\ u.queue = r.queue /\ u.catalog = r.catalog /\ u.log = r.log
  BY ReadAll DEF SameReview
<1>4. /\ u.resolution = r.resolution /\ u.decision = r.decision
      /\ u.revalidation = r.revalidation /\ u.application = r.application
      /\ u.modApplication = r.modApplication
  BY ReadAll DEF SameReview
<1>5. IsRead(r)
  OBVIOUS
<1> HIDE DEF r, u
<1>6. SameReview(r, u)
  BY <1>3, <1>4 DEF SameReview
<1>7. IsRead(u) /\ Keeps(r, u)
  BY <1>1, <1>2, <1>3, <1>5, <1>6, TimePasses
<1>8. QED
  BY <1>7 DEF r, u

\* The same pairs with the same events, whoever has acknowledged them.
SameEvents(items, others) ==
  \A p \in Pairs : /\ others[p].status = "NONE" <=> items[p].status = "NONE"
                   /\ items[p].status # "NONE" => others[p].event = items[p].event

\* A service is given something: an acknowledgement or a decision.
LEMMA ServiceTakes ==
  ASSUME NEW s \in Sessions, IsRead(AllRead(s)), NEW t \in Sessions,
         t.run = s.run, t.at = s.at, t.flown = s.flown, t.stale = s.stale, t.step = s.step,
         t.catalog = s.catalog, t.resolution = s.resolution, t.decision = s.decision,
         t.revalidation = s.revalidation, t.application = s.application,
         t.modApplication = s.modApplication,
         \/ t.queue = s.queue
         \/ /\ s.queue # None /\ t.queue # None /\ t.queue.run = s.queue.run
            /\ SameEvents(s.queue.items, t.queue.items),
         \A i \in DOMAIN s.log : i \in DOMAIN t.log /\ t.log[i] = s.log[i]
  PROVE  IsRead(AllRead(t)) /\ Keeps(AllRead(s), AllRead(t))
<1> DEFINE r == AllRead(s)
           u == AllRead(t)
<1>1. u \in Sessions /\ u.stale = {}
  BY ReadAll
<1>2. u.run = r.run /\ u.at = r.at /\ u.flown = r.flown
  BY ReadAll
<1>3. u.step = r.step /\ u.catalog = r.catalog
  BY ReadAll
<1>4. /\ u.resolution = r.resolution /\ u.decision = r.decision
      /\ u.revalidation = r.revalidation /\ u.application = r.application
      /\ u.modApplication = r.modApplication
  BY ReadAll
<1>5. \/ u.queue = r.queue
      \/ /\ r.queue # None /\ u.queue # None /\ u.queue.run = r.queue.run
         /\ SameEvents(r.queue.items, u.queue.items)
  BY ReadAll
<1>6. \A i \in DOMAIN r.log : i \in DOMAIN u.log /\ u.log[i] = r.log[i]
  <2>1. CASE "step" \in s.stale
    <3>1. r.log = u.log
      BY <2>1, ReadAll
    <3> HIDE DEF r, u
    <3>2. QED
      BY <3>1
  <2>2. CASE "step" \notin s.stale
    <3>1. r.log = s.log /\ u.log = t.log
      BY <2>2, ReadAll
    <3> HIDE DEF r, u
    <3>2. QED
      BY <3>1
  <2>3. QED
    BY <2>1, <2>2
<1>7. Story(r)
  BY DEF IsRead
<1> HIDE DEF r, u
<1>8. OfThisRun(u)
  <2>1. OfThisRun(r)
    BY <1>7 DEF Story
  <2>2. \A e \in {u.step, u.resolution, u.decision, u.revalidation, u.application,
                 u.modApplication, u.catalog} :
          e # None => e.run = u.run /\ e.at <= u.at
    BY <1>2, <1>3, <1>4, <2>1 DEF OfThisRun
  <2>3. u.step # None => \A p \in DOMAIN u.step.events :
          LET e == u.step.events[p] IN e.pair = p /\ e.run = u.run /\ e.at = u.step.at
    BY <1>2, <1>3, <2>1 DEF OfThisRun
  <2>4. ASSUME u.queue # None
        PROVE  /\ u.queue.run = u.run
               /\ \A p \in Pairs : u.queue.items[p].status # "NONE" =>
                    LET e == u.queue.items[p].event
                    IN  e.pair = p /\ e.run = u.run /\ e.at <= u.at
    <3>1. CASE u.queue = r.queue
      BY <1>2, <2>1, <2>4, <3>1 DEF OfThisRun
    <3>2. CASE /\ r.queue # None /\ u.queue.run = r.queue.run
               /\ SameEvents(r.queue.items, u.queue.items)
      <4>1. u.queue.run = u.run
        BY <1>2, <2>1, <3>2 DEF OfThisRun
      <4>2. ASSUME NEW p \in Pairs, u.queue.items[p].status # "NONE"
            PROVE  LET e == u.queue.items[p].event
                   IN  e.pair = p /\ e.run = u.run /\ e.at <= u.at
        <5>1. /\ r.queue.items[p].status # "NONE"
              /\ u.queue.items[p].event = r.queue.items[p].event
          BY <3>2, <4>2 DEF SameEvents
        <5>2. QED
          BY <1>2, <2>1, <3>2, <5>1 DEF OfThisRun
      <4>3. QED
        BY <4>1, <4>2
    <3>3. QED
      BY <1>5, <3>1, <3>2
  <2>5. u.resolution # None =>
          u.resolution.source.run = u.run /\ u.resolution.source.at <= u.resolution.at
    BY <1>2, <1>4, <2>1 DEF OfThisRun
  <2>6. QED
    BY <2>2, <2>3, <2>4, <2>5 DEF OfThisRun
<1>9. ReviewInOrder(u)
  BY <1>3, <1>4, <1>5, <1>6, <1>7 DEF Story, ReviewInOrder
<1>10. FlightSeen(u) /\ SourceIsFound(u)
  BY <1>2, <1>3, <1>4, <1>7 DEF Story, FlightSeen, SourceIsFound
<1>11. Keeps(r, u)
  BY <1>2, <1>3, <1>4 DEF Keeps
<1>12. QED
  BY <1>1, <1>8, <1>9, <1>10, <1>11 DEF IsRead, Story, r, u

\* The item exists, or the acknowledgement is refused.
LEMMA AcknowledgementIsTyped ==
  ASSUME NEW s \in Sessions, NEW p \in Pairs, NEW at \in Nat,
         Items(s.queue)[p].status \in {"OPEN", "ACKNOWLEDGED"},
         NEW t, t = [s EXCEPT !.queue.at = at, !.queue.items[p].status = "ACKNOWLEDGED"]
  PROVE  /\ t \in Sessions /\ t.run = s.run /\ t.at = s.at /\ t.flown = s.flown
         /\ t.stale = s.stale /\ t.step = s.step /\ SameReview(s, t)
         /\ s.queue # None /\ t.queue # None /\ t.queue.run = s.queue.run
         /\ SameEvents(s.queue.items, t.queue.items)
<1>1. s.queue # None
  BY NoItemsAre DEF Items
<1>2. s.queue \in Queues /\ Items(s.queue) = s.queue.items /\ s.queue.items \in ItemMaps
  BY <1>1, ResultTypes DEF Items, Queues
<1> DEFINE items == s.queue.items
           others == [items EXCEPT ![p].status = "ACKNOWLEDGED"]
           queue == [s.queue EXCEPT !.at = at, !.items = others]
<1>3. t = [s EXCEPT !.queue = queue]
  BY <1>2 DEF Sessions, Queues
<1>4. items[p].status \in {"OPEN", "ACKNOWLEDGED"}
  BY <1>2
<1>5. /\ items[p] \in [event : RiskEvents, status : {"OPEN", "ACKNOWLEDGED", "RESOLVED"}]
  BY <1>2, <1>4, ItemsAre
<1>6. /\ others[p] \in [event : RiskEvents, status : {"OPEN", "ACKNOWLEDGED", "RESOLVED"}]
      /\ others[p].event = items[p].event /\ others[p].status = "ACKNOWLEDGED"
      /\ \A q \in Pairs \ {p} : others[q] = items[q]
  BY <1>2, <1>5 DEF ItemMaps
<1>7. others \in ItemMaps
  <2>1. others = [q \in Pairs |-> others[q]]
    BY <1>2 DEF ItemMaps
  <2>2. \A q \in Pairs : others[q] \in [status : {"NONE"}] \cup
                           [event : RiskEvents, status : {"OPEN", "ACKNOWLEDGED", "RESOLVED"}]
    BY <1>2, <1>6 DEF ItemMaps
  <2> HIDE DEF others
  <2>3. QED
    BY <2>1, <2>2 DEF ItemMaps
<1>8. SameEvents(items, others)
  BY <1>4, <1>6 DEF SameEvents
<1> HIDE DEF others, items
<1>9. queue \in Queues /\ queue.run = s.queue.run /\ queue.items = others /\ queue.at = at
  BY <1>2, <1>7 DEF Queues
<1> HIDE DEF queue
<1>10. queue # None
  <2>1. queue.at # -1
    BY <1>9
  <2>2. QED
    BY <2>1 DEF None
<1>11. queue \in Optional(Queues)
  BY <1>9 DEF Optional
<1>12. t \in Sessions
  BY <1>3, <1>11 DEF Sessions
<1>13. /\ t.run = s.run /\ t.at = s.at /\ t.flown = s.flown /\ t.stale = s.stale
       /\ t.step = s.step /\ t.queue = queue
  BY <1>3 DEF Sessions
<1>14. SameReview(s, t)
  BY <1>3 DEF Sessions, SameReview
<1>15. QED
  BY <1>1, <1>8, <1>9, <1>10, <1>12, <1>13, <1>14 DEF items

-----------------------------------------------------------------------------
(* The requests.                                                            *)

LEMMA MinIs ==
  ASSUME NEW S, S \subseteq Nat, S # {}
  PROVE  Min(S) \in S /\ \A x \in S : Min(S) <= x
<1>1. \E x \in S : \A y \in S : x <= y
  BY LeastExists
<1>2. QED
  BY <1>1 DEF Min

\* The first refusal is one of them, and there is none exactly if all agree.
LEMMA FirstIs ==
  ASSUME NEW statuses, DOMAIN statuses \subseteq Nat
  PROVE  /\ First(statuses) = 200 => {statuses[i] : i \in DOMAIN statuses} \subseteq {200}
         /\ First(statuses) \in {200} \cup {statuses[i] : i \in DOMAIN statuses}
<1> DEFINE refusals == {i \in DOMAIN statuses : statuses[i] # 200}
<1>1. First(statuses) = IF refusals = {} THEN 200 ELSE statuses[Min(refusals)]
  BY DEF First
<1>2. refusals \subseteq Nat
  OBVIOUS
<1>3. refusals # {} => Min(refusals) \in refusals
  BY <1>2, MinIs
<1>4. CASE refusals = {}
  BY <1>1, <1>4
<1>5. CASE refusals # {}
  <2>1. PICK i \in refusals : First(statuses) = statuses[i]
    BY <1>1, <1>3, <1>5
  <2>2. i \in DOMAIN statuses /\ statuses[i] # 200
    OBVIOUS
  <2> HIDE DEF refusals
  <2>3. QED
    BY <2>1, <2>2
<1>6. QED
  BY <1>4, <1>5

\* What every request keeps, and which of them changes what.
MayChangeTheView ==
  \/ answer' = Quiet
  \/ answer'.to = "acknowledgement" /\ answer'.status = 200
  \/ answer'.to = "decision" /\ answer'.status = 201
  \/ /\ answer'.by = "loopback" \/ ~External \/ Control = "any"
     /\ answer'.to \in Commands
     /\ \/ answer'.status = 200
        \/ answer'.status = 409 /\ answer'.to \in MayStopHalfway

IsTaken(command) ==
  /\ executed' = executed \cup {command}
  /\ NotTakenYet(AllRead(session), command)
  /\ TakenStepsShow(AllRead(session'), {command})

Follows ==
  /\ session' \in Sessions /\ IsRead(AllRead(session'))
  /\ \/ Keeps(AllRead(session), AllRead(session')) /\ executed' = executed
     \/ /\ Keeps(AllRead(session), AllRead(session'))
        /\ \E command \in Commands : IsTaken(command)
     \/ AllRead(session').run = AllRead(session).run + 1 /\ executed' = {}
  /\ AllRead(session') = AllRead(session) \/ MayChangeTheView
  /\ answer'.to \in Commands /\ answer'.status = 200 =>
       answer'.to \in Repeatable \/ IsTaken(answer'.to)

LEMMA InvIsRead ==
  ASSUME GatewayInv
  PROVE  IsRead(AllRead(session)) /\ session \in Sessions
  BY ReadAll DEF GatewayInv, IsRead

\* A request that leaves what is shown as it is.
LEMMA ReadFollows ==
  ASSUME GatewayInv, session' \in {session, StepsRead(session), AllRead(session)},
         executed' = executed, answer'.to \notin Commands
  PROVE  Follows
<1>1. IsRead(AllRead(session)) /\ session \in Sessions
  BY InvIsRead
<1>2. AllRead(session') = AllRead(session) /\ session' \in Sessions
  BY <1>1, ReadTwice, ReadStep, ReadAll
<1>3. QED
  BY <1>1, <1>2, KeepsItself DEF Follows

LEMMA CommandFollows ==
  ASSUME GatewayInv, NEW command \in Commands, NEW origin \in Origins, Command(command, origin)
  PROVE  Follows
<1> DEFINE a == AllRead(session)
<1>1. IsRead(a) /\ session \in Sessions /\ a \in Sessions
  BY InvIsRead DEF IsRead
<1> DEFINE answered(r) ==
        /\ session' = IF r.status = 200 THEN AllRead(r.session) ELSE r.session
        /\ Answered(r.status, command, origin)
        /\ executed' = IF command = "RESET" /\ r.status = 200 THEN {}
                       ELSE IF r.status = 200 THEN executed \cup {command} ELSE executed
<1>0. PICK input \in Inputs(command) : \E r \in Execute(command, input, a) : answered(r)
  BY DEF Command
<1>2. PICK r \in Execute(command, input, a) : answered(r)
  BY <1>0
<1>3. answer' = [status |-> r.status, to |-> command, by |-> origin]
  BY <1>2 DEF Answered
<1>4. answer'.status = r.status /\ answer'.to = command /\ answer'.by = origin
  BY <1>3
<1>5. origin = "loopback" \/ ~External \/ Control = "any"
  BY DEF Command, Passes, GuardPasses, IsOperator
<1>6. AllRead(a) = a
  BY <1>1, ReadTwice
<1>7. CASE r.status \in {409, 422} /\ r.session = a
  <2>1. session' = a /\ executed' = executed
    BY <1>2, <1>7
  <2>2. AllRead(session') = a
    BY <1>6, <2>1
  <2>3. QED
    BY <1>1, <1>4, <1>7, <2>1, <2>2, KeepsItself DEF Follows
<1>8. CASE command = "RESET" /\ r.status = 200 /\ r.session = AllRead(ClockReset(a))
  <2>1. IsRead(AllRead(ClockReset(a))) /\ AllRead(ClockReset(a)).run = a.run + 1
    BY <1>1, ResetIsRead
  <2>2. AllRead(AllRead(ClockReset(a))) = AllRead(ClockReset(a))
    BY <2>1, ReadTwice DEF IsRead
  <2>3. session' = AllRead(ClockReset(a)) /\ AllRead(session') = session' /\ executed' = {}
    BY <1>2, <1>8, <2>2
  <2>4. session' \in Sessions
    BY <2>1, <2>3 DEF IsRead
  <2>5. MayChangeTheView
    BY <1>4, <1>5, <1>8 DEF MayChangeTheView
  <2>6. QED
    BY <1>4, <1>8, <2>1, <2>3, <2>4, <2>5 DEF Follows, Repeatable
<1>9. CASE command # "RESET" /\ Outcome(a, command, r)
  <2>1. IsRead(r.session) /\ Keeps(a, r.session) /\ r.status \in {200, 409}
    BY <1>9 DEF Outcome
  <2>2. AllRead(r.session) = r.session
    BY <2>1, ReadTwice DEF IsRead
  <2>3. session' = r.session /\ AllRead(session') = r.session /\ session' \in Sessions
    BY <1>2, <2>1, <2>2 DEF IsRead
  <2>4. CASE r.status = 200
    <3>1. IsTaken(command)
      BY <1>2, <1>9, <2>3, <2>4 DEF IsTaken, Outcome
    <3>2. MayChangeTheView
      BY <1>4, <1>5, <2>4 DEF MayChangeTheView
    <3>3. QED
      BY <1>4, <2>1, <2>3, <3>1, <3>2 DEF Follows
  <2>5. CASE r.status = 409
    <3>1. executed' = executed
      BY <1>2, <2>5
    <3>2. r.session = a \/ command \in MayStopHalfway
      BY <1>9, <2>5 DEF Outcome
    <3>3. AllRead(session') = a \/ MayChangeTheView
      BY <1>4, <1>5, <2>3, <2>5, <3>2 DEF MayChangeTheView
    <3>4. QED
      BY <1>4, <2>1, <2>3, <2>5, <3>1, <3>3 DEF Follows
  <2>6. QED
    BY <2>1, <2>4, <2>5
<1>10. QED
  BY <1>1, <1>7, <1>8, <1>9, ExecuteKeeps

LEMMA AcknowledgeFollows ==
  ASSUME GatewayInv, NEW p \in Pairs, NEW at \in {session.at, session.at + 1}, NEW flaw \in Flaws,
         Acknowledge(p, at, flaw)
  PROVE  Follows
<1> DEFINE statuses == <<QueueQueryStatus(flaw), QueueBody(flaw), FieldsStatus(flaw),
                         AcknowledgeStatus(p, at)>>
           status == First(statuses)
<1>1. IsRead(AllRead(session)) /\ session \in Sessions /\ at \in Nat
  BY InvIsRead DEF Sessions
<1>2. executed' = executed /\ answer' = [Quiet EXCEPT !.status = status, !.to = "acknowledgement"]
  BY DEF Acknowledge
<1>3. answer'.status = status /\ answer'.to = "acknowledgement"
  BY <1>2 DEF Quiet
<1>4. CASE status # 200
  <2>1. session' = session
    BY <1>4 DEF Acknowledge
  <2>2. "acknowledgement" \notin Commands
    BY DEF Commands
  <2> HIDE DEF status
  <2>3. QED
    BY <1>2, <1>3, <2>1, <2>2, ReadFollows
<1>5. CASE status = 200
  <2>1. DOMAIN statuses = 1 .. 4 /\ statuses[4] = AcknowledgeStatus(p, at)
    OBVIOUS
  <2>2. AcknowledgeStatus(p, at) = 200
    <3> HIDE DEF statuses
    <3>1. DOMAIN statuses \subseteq Nat /\ 4 \in DOMAIN statuses
      BY <2>1
    <3>2. First(statuses) = 200 => {statuses[i] : i \in DOMAIN statuses} \subseteq {200}
      BY <3>1, FirstIs
    <3>3. statuses[4] = 200
      BY <1>5, <3>1, <3>2
    <3>4. QED
      BY <2>1, <3>3
  <2>3. session' = [session EXCEPT !.queue.at = at, !.queue.items[p].status = "ACKNOWLEDGED"]
    BY <1>5 DEF Acknowledge
  <2>4. Items(session.queue) \in ItemMaps
    BY <1>1, NoItemsAre, ResultTypes DEF Items, Queues
  <2>5. Items(session.queue)[p].status \in {"OPEN", "ACKNOWLEDGED"}
    BY <2>2, <2>4, ItemsAre DEF AcknowledgeStatus
  <2> DEFINE t == session'
  <2> HIDE DEF t
  <2>5a. t = [session EXCEPT !.queue.at = at, !.queue.items[p].status = "ACKNOWLEDGED"]
    BY <2>3 DEF t
  <2>6. /\ t \in Sessions /\ t.run = session.run /\ t.at = session.at /\ t.flown = session.flown
        /\ t.stale = session.stale /\ t.step = session.step /\ SameReview(session, t)
        /\ session.queue # None /\ t.queue # None /\ t.queue.run = session.queue.run
        /\ SameEvents(session.queue.items, t.queue.items)
    <3>1. session \in Sessions /\ at \in Nat
      BY <1>1
    <3>2. \A u : u = [session EXCEPT !.queue.at = at, !.queue.items[p].status = "ACKNOWLEDGED"] =>
        /\ u \in Sessions /\ u.run = session.run /\ u.at = session.at /\ u.flown = session.flown
        /\ u.stale = session.stale /\ u.step = session.step /\ SameReview(session, u)
        /\ session.queue # None /\ u.queue # None /\ u.queue.run = session.queue.run
        /\ SameEvents(session.queue.items, u.queue.items)
      BY <3>1, <2>5, AcknowledgementIsTyped, Zenon
    <3>3. QED
      BY <3>2, <2>5a
  <2>7. \A i \in DOMAIN session.log : i \in DOMAIN t.log /\ t.log[i] = session.log[i]
    BY <2>6 DEF SameReview
  <2>8. IsRead(AllRead(t)) /\ Keeps(AllRead(session), AllRead(t))
    BY <1>1, <2>6, <2>7, ServiceTakes DEF SameReview
  <2>9. MayChangeTheView
    BY <1>3, <1>5 DEF MayChangeTheView
  <2>10. "acknowledgement" \notin Commands
    BY DEF Commands
  <2>11. QED
    BY <1>2, <1>3, <2>6, <2>8, <2>9, <2>10 DEF Follows, t
<1>6. QED
  BY <1>4, <1>5

LEMMA SubmitFollows ==
  ASSUME GatewayInv, NEW type \in DecisionTypes, NEW at \in {session.at - 1, session.at}, at >= 0,
         NEW known \in BOOLEAN, NEW flaw \in Flaws, Submit(type, at, known, flaw)
  PROVE  Follows
<1> DEFINE statuses == <<QueryStatus(flaw), DecisionBody(flaw), FieldsStatus(flaw),
                         SubmitStatus(known, at)>>
           status == First(statuses)
<1>1. IsRead(AllRead(session)) /\ session \in Sessions /\ session.at \in Nat
  BY InvIsRead DEF Sessions
<1>2. at \in Nat
  BY <1>1
<1>3. executed' = executed /\ answer' = [Quiet EXCEPT !.status = status, !.to = "decision"]
  BY DEF Submit
<1>4. answer'.status = status /\ answer'.to = "decision" /\ "decision" \notin Commands
  BY <1>3 DEF Quiet, Commands
<1>5. CASE status # 201
  <2>1. session' = session
    BY <1>5 DEF Submit
  <2> HIDE DEF status
  <2>2. QED
    BY <1>3, <1>4, <2>1, ReadFollows
<1>6. CASE status = 201
  <2>1. /\ DOMAIN statuses = 1 .. 4
        /\ statuses[1] = QueryStatus(flaw) /\ statuses[2] = DecisionBody(flaw)
        /\ statuses[3] = FieldsStatus(flaw) /\ statuses[4] = SubmitStatus(known, at)
    OBVIOUS
  <2>2. QueryStatus(flaw) # 201 /\ FieldsStatus(flaw) # 201
    BY DEF QueryStatus, FieldsStatus
  <2>3. DecisionBody(flaw) # 201
    BY DEF DecisionBody, SessionBody, BodyFlaws, FlawStatus
  <2> HIDE DEF statuses
  <2>4. PICK i \in 1 .. 4 : statuses[i] = 201
    <3>1. DOMAIN statuses \subseteq Nat
      BY <2>1
    <3>2. First(statuses) \in {200} \cup {statuses[i] : i \in DOMAIN statuses}
      BY <3>1, FirstIs
    <3>3. QED
      BY <1>6, <2>1, <3>2
  <2>5. i \in {1, 2, 3, 4}
    OBVIOUS
  <2>6. SubmitStatus(known, at) = 201
    BY <2>1, <2>2, <2>3, <2>4, <2>5
  <2>7. session.catalog # None
    BY <2>6 DEF SubmitStatus
  <2> DEFINE entry == Entry(session, session.catalog, type, at)
             log == Append(session.log, entry)
             t == session'
  <2>8. t = [session EXCEPT !.log = log]
    BY <1>1, <1>6 DEF Submit, statuses, Sessions
  <2>9. entry \in Entries
    BY <1>1, <1>2, <2>7, EntryIsTyped
  <2> HIDE DEF entry
  <2>10. /\ log \in Seq(Entries)
         /\ \A j \in DOMAIN session.log : j \in DOMAIN log /\ log[j] = session.log[j]
    BY <1>1, <2>9, AppendKeeps DEF Sessions
  <2> HIDE DEF log, t
  <2>11. /\ t \in Sessions /\ t.run = session.run /\ t.at = session.at /\ t.flown = session.flown
         /\ t.stale = session.stale /\ t.step = session.step /\ t.catalog = session.catalog
         /\ t.resolution = session.resolution /\ t.decision = session.decision
         /\ t.revalidation = session.revalidation /\ t.application = session.application
         /\ t.modApplication = session.modApplication /\ t.queue = session.queue /\ t.log = log
    BY <1>1, <2>8, <2>10 DEF Sessions
  <2>12. IsRead(AllRead(t)) /\ Keeps(AllRead(session), AllRead(t))
    BY <1>1, <2>10, <2>11, ServiceTakes
  <2>13. MayChangeTheView
    BY <1>4, <1>6 DEF MayChangeTheView
  <2>14. QED
    BY <1>3, <1>4, <2>11, <2>12, <2>13 DEF Follows, t
<1>7. QED
  BY <1>5, <1>6

LEMMA DriveFollows ==
  ASSUME GatewayInv, Drive
  PROVE  Follows
<1>1. IsRead(AllRead(session)) /\ session \in Sessions /\ session.at \in Nat
  BY InvIsRead DEF Sessions
<1>2. answer' = Quiet /\ answer'.to \notin Commands /\ MayChangeTheView
  BY DEF Drive, Quiet, Commands, MayChangeTheView
<1>3. CASE session' = ClockReset(session) /\ executed' = {}
  <2>1. AllRead(session).run = session.run
    BY <1>1, ReadAll
  <2>2. QED
    BY <1>1, <1>2, <1>3, <2>1, ResetIsRead DEF Follows
<1>4. CASE /\ \/ session' = [session EXCEPT !.clock = "PAUSED"]
              \/ session' = [session EXCEPT !.at = @ + 1]
           /\ executed' = executed
  <2> DEFINE t == session'
  <2>1. \/ t = [session EXCEPT !.clock = "PAUSED"]
        \/ t = [session EXCEPT !.at = session.at + 1]
    BY <1>1, <1>4 DEF Sessions
  <2> HIDE DEF t
  <2>2. t \in Sessions
    BY <1>1, <2>1 DEF Sessions
  <2>3. /\ t.run = session.run /\ session.at <= t.at /\ t.flown = session.flown
        /\ t.stale = session.stale /\ t.step = session.step /\ t.queue = session.queue
    BY <1>1, <2>1 DEF Sessions
  <2>4. SameReview(session, t)
    BY <1>1, <2>1 DEF Sessions, SameReview
  <2>5. IsRead(AllRead(t)) /\ Keeps(AllRead(session), AllRead(t))
    BY <1>1, <2>2, <2>3, <2>4, ClockRuns
  <2>6. QED
    BY <1>2, <1>4, <2>2, <2>5 DEF Follows, t
<1>5. QED
  BY <1>3, <1>4 DEF Drive

LEMMA NextFollows ==
  ASSUME GatewayInv, Next
  PROVE  Follows
<1>1. ASSUME NEW method \in Methods, NEW origin \in Origins, Asset(method, origin)
      PROVE  Follows
  <2>1. answer'.to \in {"page with controls", "page"}
    BY <1>1 DEF Asset, Answered
  <2>2. QED
    BY <1>1, <2>1, ReadFollows DEF Asset, Unchanged, Commands
<1>2. ASSUME NEW method \in Methods, NEW origin \in Origins, Advice(method, origin)
      PROVE  Follows
  <2>1. answer'.to = "advice"
    BY <1>2 DEF Advice, Answered
  <2>2. QED
    BY <1>2, <2>1, ReadFollows DEF Advice, Commands
<1>3. ASSUME NEW path \in Paths, NEW method \in Methods, NEW origin \in Origins,
             NEW flaw \in Flaws, Read(path, method, flaw, origin)
      PROVE  Follows
  <2>1. answer'.to = "read"
    BY <1>3 DEF Read, Answered
  <2>2. session' \in {session, AllRead(session)} /\ executed' = executed
    BY <1>3 DEF Read
  <2>3. QED
    BY <2>1, <2>2, ReadFollows DEF Commands
<1>4. ASSUME NEW path \in ServicePaths, NEW method \in Methods, NEW flaw \in Flaws,
             ServiceRead(path, method, flaw)
      PROVE  Follows
  <2>1. answer'.to = "service"
    BY <1>4 DEF ServiceRead, Quiet
  <2>2. QED
    BY <1>4, <2>1, ReadFollows DEF ServiceRead, Unchanged, Commands
<1>5. QED
  BY <1>1, <1>2, <1>3, <1>4, CommandFollows, AcknowledgeFollows, SubmitFollows, DriveFollows
     DEF Next, DecisionTypes

-----------------------------------------------------------------------------
(* The invariant.                                                           *)

LEMMA TakenTogether ==
  ASSUME NEW s, NEW taken, NEW command, TakenStepsShow(s, taken), TakenStepsShow(s, {command})
  PROVE  TakenStepsShow(s, taken \cup {command})
  BY DEF TakenStepsShow

LEMMA NewSessionIsRead == NewSession \in Sessions /\ IsRead(AllRead(NewSession))
<1>1. NewSession \in Sessions
  BY NothingIsOptional DEF NewSession, Sessions
<1>2. AllRead(NewSession) = NewSession
  BY <1>1, ReadTwice DEF NewSession
<1>3. Story(NewSession)
  BY DEF Story, OfThisRun, ReviewInOrder, FlightSeen, SourceIsFound, NewSession
<1>4. NewSession.stale = {}
  BY DEF NewSession
<1> HIDE DEF NewSession
<1>5. QED
  BY <1>1, <1>2, <1>3, <1>4 DEF IsRead

LEMMA InitIsInv == Init => GatewayInv
  BY NewSessionIsRead DEF Init, GatewayInv, IsRead, TakenStepsShow

LEMMA FollowsKeepsInv ==
  ASSUME GatewayInv, Follows
  PROVE  GatewayInv'
<1>1. session' \in Sessions /\ Story(AllRead(session'))
  BY DEF Follows, IsRead
<1>2. TakenStepsShow(AllRead(session), executed) /\ executed \subseteq Commands
  BY DEF GatewayInv
<1>3. CASE Keeps(AllRead(session), AllRead(session')) /\ executed' = executed
  BY <1>1, <1>2, <1>3, TakenIsKept DEF GatewayInv
<1>4. CASE /\ Keeps(AllRead(session), AllRead(session'))
           /\ \E command \in Commands : IsTaken(command)
  <2>1. PICK command \in Commands : IsTaken(command)
    BY <1>4
  <2>2. TakenStepsShow(AllRead(session'), executed)
    BY <1>2, <1>4, TakenIsKept
  <2>3. TakenStepsShow(AllRead(session'), executed \cup {command})
    BY <2>1, <2>2, TakenTogether DEF IsTaken
  <2>4. QED
    BY <1>1, <1>2, <2>1, <2>3 DEF GatewayInv, IsTaken
<1>5. CASE executed' = {}
  BY <1>1, <1>5 DEF GatewayInv, TakenStepsShow
<1>6. QED
  BY <1>3, <1>4, <1>5 DEF Follows

LEMMA InvIsKept == GatewayInv /\ [Next]_vars => GatewayInv'
<1>1. ASSUME GatewayInv, Next PROVE GatewayInv'
  BY <1>1, NextFollows, FollowsKeepsInv
<1>2. ASSUME GatewayInv, UNCHANGED vars PROVE GatewayInv'
  BY <1>2 DEF GatewayInv, vars
<1>3. QED
  BY <1>1, <1>2

\* Every reachable session, read, holds the evidence of one run in the order
\* of a review, and each step of the review that was taken has left its
\* result in it (runtime/session.py execute(), api/session.py get_current()).
THEOREM GatewayIsInOrder == Spec => []GatewayInv
<1>1. Init => GatewayInv
  BY InitIsInv
<1>2. GatewayInv /\ [Next]_vars => GatewayInv'
  BY InvIsKept
<1>3. QED
  BY <1>1, <1>2, PTL DEF Spec

-----------------------------------------------------------------------------
(* What the view shows of a session that is in order.                       *)

\* There is a highest risk among the HIGH and the CRITICAL ones.
LEMMA HighestExists ==
  ASSUME NEW step \in StepResults,
         \E p \in DOMAIN step.events : Rank[step.events[p].level] >= 2
  PROVE  HighestActionable(step) # {}
<1> DEFINE E == step.events
           actionable == {p \in DOMAIN E : Rank[E[p].level] >= 2}
           ahead(p, q) ==
             \/ Rank[E[p].level] > Rank[E[q].level]
             \/ E[p].level = E[q].level /\ E[p].tcpa < E[q].tcpa
             \/ E[p].level = E[q].level /\ E[p].tcpa = E[q].tcpa /\ p < q
           below(p) == 3 - Rank[E[p].level]
           distances == {below(p) : p \in actionable}
<1>1. E \in EventMaps /\ DOMAIN E \subseteq Nat
  BY EventsAre, ViewAssumption DEF StepResults
<1>2. \A p \in DOMAIN E : /\ E[p].level \in {"LOW", "MEDIUM", "HIGH", "CRITICAL"}
                          /\ E[p].tcpa \in Nat /\ p \in Nat
  BY <1>1, EventsAre DEF RiskEvents, Rank
<1> HIDE DEF E
<1>3. \A p \in actionable :
        /\ p \in Nat /\ E[p].tcpa \in Nat
        /\ below(p) \in {0, 1}
        /\ E[p].level = IF below(p) = 0 THEN "CRITICAL" ELSE "HIGH"
        /\ Rank[E[p].level] = IF below(p) = 0 THEN 3 ELSE 2
  BY <1>2 DEF Rank
<1>4. actionable # {}
  BY DEF E
<1> HIDE DEF actionable, below
<1>5. distances \subseteq Nat /\ distances # {}
  BY <1>3, <1>4
<1>6. PICK d \in distances : \A e \in distances : d <= e
  BY <1>5, LeastExists
<1> DEFINE first == {p \in actionable : below(p) = d}
           times == {E[p].tcpa : p \in first}
<1>7. first # {} /\ \A p \in first : p \in actionable
  BY <1>6
<1> HIDE DEF first
<1>8. times \subseteq Nat /\ times # {}
  BY <1>3, <1>7
<1>9. PICK t \in times : \A u \in times : t <= u
  BY <1>8, LeastExists
<1> DEFINE soonest == {p \in first : E[p].tcpa = t}
<1>10. soonest \subseteq Nat /\ soonest # {}
  BY <1>3, <1>7, <1>9
<1>11. PICK p \in soonest : \A q \in soonest : p <= q
  BY <1>10, LeastExists
<1>12. p \in first /\ p \in actionable /\ E[p].tcpa = t /\ below(p) = d
  BY <1>7, <1>11 DEF first
<1>13. ASSUME NEW r \in actionable \ {p}
       PROVE  ahead(p, r)
  <2>1. below(r) \in distances /\ d <= below(r)
    BY <1>6
  <2>2. CASE below(r) = d
    <3>1. r \in first /\ E[r].tcpa \in times
      BY <2>2 DEF first
    <3>2. t <= E[r].tcpa
      BY <1>9, <3>1
    <3>3. E[p].level = E[r].level
      BY <1>3, <1>12, <2>2
    <3>4. CASE E[r].tcpa = t
      <4>1. r \in soonest /\ p <= r
        BY <1>11, <3>1, <3>4
      <4>2. p < r
        BY <1>3, <1>12, <4>1
      <4>3. QED
        BY <1>12, <3>3, <3>4, <4>2
    <3>5. CASE E[r].tcpa # t
      <4>1. E[p].tcpa < E[r].tcpa
        BY <1>3, <1>12, <3>2, <3>5
      <4>2. QED
        BY <3>3, <4>1
    <3>6. QED
      BY <3>4, <3>5
  <2>3. CASE below(r) # d
    <3>1. below(p) = 0 /\ below(r) = 1
      BY <1>3, <1>12, <2>1, <2>3
    <3>2. Rank[E[p].level] = 3 /\ Rank[E[r].level] = 2
      BY <1>3, <1>12, <3>1
    <3>3. QED
      BY <3>2
  <2>4. QED
    BY <2>2, <2>3
<1> HIDE DEF ahead, distances, times, soonest
<1>14. p \in {q \in actionable : \A r \in actionable \ {q} : ahead(q, r)}
  BY <1>12, <1>13
<1>15. E[p] \in HighestActionable(step)
  BY <1>14 DEF HighestActionable, actionable, ahead, E
<1>16. QED
  BY <1>15

LEMMA PrimaryIs ==
  ASSUME NEW safe \in SUBSET Candidates
  PROVE  Primary(safe) \subseteq Candidates
<1>1. Candidates \subseteq Nat
  BY ViewAssumption
<1>2. safe # {} => Min(safe) \in safe
  BY <1>1, MinIs
<1>3. QED
  BY <1>2 DEF Primary

\* A result is there exactly if it has a time.
LEMMA TimesAre ==
  ASSUME NEW s \in Sessions
  PROVE  /\ s.resolution.at # -1 <=> s.resolution # None
         /\ s.decision.at # -1 <=> s.decision # None
         /\ Applied(s).at # -1 <=> Applied(s) # None
         /\ Applied(s) # None => Applied(s) \in ApplicationResults
<1>1. None.at = -1
  BY DEF None
<1>2. /\ s.resolution # None => s.resolution.at \in Nat
      /\ s.decision # None => s.decision.at \in Nat
  BY ResultTypes DEF ResolutionResults, DecisionResults
<1>3. Applied(s) # None => Applied(s) \in ApplicationResults
  BY ResultTypes DEF Applied
<1>4. Applied(s) # None => Applied(s).at \in Nat
  BY <1>3 DEF ApplicationResults
<1>5. QED
  BY <1>1, <1>2, <1>3, <1>4

LEMMA ReviewStagesAre ==
  ASSUME NEW s, IsRead(s)
  PROVE  /\ Stage(s) \in ReviewStages <=> s.resolution # None
         /\ Stage(s) = "CONFLICT_DETECTED" <=>
              /\ s.resolution = None /\ s.step # None
              /\ \E p \in DOMAIN s.step.events : Rank[s.step.events[p].level] >= 2
<1>1. /\ s.resolution = None => s.decision = None /\ s.revalidation = None /\ Applied(s) = None
      /\ s \in Sessions
  BY NothingDecidedYet DEF IsRead, Applied
<1>2. CASE Applied(s) # None
  BY <1>1, <1>2 DEF Stage, ReviewStages
<1>3. CASE Applied(s) = None /\ s.revalidation # None
  BY <1>1, <1>3 DEF Stage, ReviewStages
<1>4. CASE Applied(s) = None /\ s.revalidation = None /\ s.decision # None
  <2>1. s.decision.type \in DecisionTypes
    BY <1>1, <1>4, ResultTypes DEF DecisionResults
  <2>2. Stage(s) = [MODIFY |-> "DECISION_MODIFIED", REJECT |-> "DECISION_REJECTED",
                    ACCEPT |-> "DECISION_ACCEPTED"][s.decision.type]
    BY <1>4 DEF Stage
  <2>3. Stage(s) \in {"DECISION_MODIFIED", "DECISION_REJECTED", "DECISION_ACCEPTED"}
    BY <2>1, <2>2 DEF DecisionTypes
  <2>4. QED
    BY <1>1, <1>4, <2>3 DEF ReviewStages
<1>5. CASE Applied(s) = None /\ s.revalidation = None /\ s.decision = None
  <2>1. Stage(s) =
         IF s.resolution # None THEN "RECOMMENDATION_AVAILABLE"
         ELSE IF s.step = None THEN "READY"
         ELSE IF \E p \in DOMAIN s.step.events : Rank[s.step.events[p].level] >= 2
              THEN "CONFLICT_DETECTED"
         ELSE IF s.step.at \in Urgent THEN "DEVIATION_DETECTED" ELSE "MONITORING"
    BY <1>5 DEF Stage
  <2>2. QED
    BY <1>5, <2>1 DEF ReviewStages
<1>6. QED
  BY <1>2, <1>3, <1>4, <1>5

LEMMA PrimaryConflictIs ==
  ASSUME NEW s, IsRead(s)
  PROVE  /\ PrimaryConflict(s) # {} <=> Stage(s) \in ReviewStages \cup {"CONFLICT_DETECTED"}
         /\ \A w \in PrimaryConflict(s) : w.run = s.run
<1> DEFINE risks == IF s.resolution # None THEN {s.resolution.source}
                    ELSE IF s.step # None THEN HighestActionable(s.step) ELSE {}
           actionable == {p \in DOMAIN s.step.events : Rank[s.step.events[p].level] >= 2}
<1>1. s \in Sessions /\ Story(s)
  BY DEF IsRead
<1>2. s.step # None => HighestActionable(s.step) \subseteq {s.step.events[p] : p \in actionable}
  BY DEF HighestActionable
<1>3. s.step # None => (HighestActionable(s.step) # {} <=> actionable # {})
  <2>1. s.step # None => s.step \in StepResults
    BY <1>1, ResultTypes
  <2>2. QED
    BY <1>2, <2>1, HighestExists
<1>4. risks # {} <=> Stage(s) \in ReviewStages \cup {"CONFLICT_DETECTED"}
  <2>1. /\ Stage(s) \in ReviewStages <=> s.resolution # None
        /\ Stage(s) = "CONFLICT_DETECTED" <=>
             s.resolution = None /\ s.step # None /\ actionable # {}
    BY ReviewStagesAre
  <2> HIDE DEF actionable
  <2>2. QED
    BY <1>3, <2>1
<1>5. \A risk \in risks : risk.run = s.run
  BY <1>1, <1>2 DEF Story, OfThisRun
<1> HIDE DEF risks
<1> DEFINE shown(risk) ==
             LET found == IF s.step = None THEN {} ELSE MatchingEvent(s.step, risk)
                 event == IF found = {} THEN risk ELSE CHOOSE e \in found : TRUE
             IN  [id |-> ConflictId(risk), run |-> risk.run, level |-> risk.level, tcpa |-> risk.tcpa,
                  separation |-> event.separation, closestAt |-> event.at + event.tcpa]
<1>6. PrimaryConflict(s) = {shown(risk) : risk \in risks}
  BY DEF PrimaryConflict, risks
<1>7. \A risk : shown(risk).run = risk.run
  OBVIOUS
<1> HIDE DEF shown
<1>8. QED
  BY <1>4, <1>5, <1>6, <1>7

LEMMA ViewIsOfWhatIsRead ==
  ASSUME NEW s, NEW t, AllRead(s) = AllRead(t)
  PROVE  View(s) = View(t)
  BY DEF View

LEMMA AddedToTheEnd ==
  ASSUME NEW S, NEW list \in Seq(S), NEW x \in S
  PROVE  LET more == list \o <<x>>
         IN  /\ more \in Seq(S) /\ Len(more) = Len(list) + 1 /\ more[Len(list) + 1] = x
             /\ \A i \in DOMAIN list : more[i] = list[i]
  OBVIOUS

\* The traffic shown is that of the session's time, and it flies a manoeuvre
\* that is shown as applied.
LEMMA TrafficIs ==
  ASSUME NEW s, IsRead(s)
  PROVE  /\ Traffic(s).at = s.at
         /\ Applied(s) # None => Traffic(s).flown
<1> DEFINE applied == IF Applied(s) # None THEN <<Applied(s).traffic>> ELSE <<>>
           stepped == IF s.step # None THEN <<s.step.traffic>> ELSE <<>>
           candidates == applied \o stepped \o <<LiveTraffic(s)>>
           newest == {i \in DOMAIN candidates :
                        \A j \in DOMAIN candidates : candidates[j].at <= candidates[i].at}
<1>1. /\ s \in Sessions /\ Story(s) /\ s.at \in Nat /\ s.flown \in BOOLEAN
  BY DEF IsRead, Sessions
<1>2. LiveTraffic(s) \in Traffics /\ LiveTraffic(s).at = s.at /\ LiveTraffic(s).flown = s.flown
  BY <1>1 DEF LiveTraffic, Traffics
<1>3. s.step # None => /\ s.step.traffic \in Traffics /\ s.step.traffic.at = s.step.at
                       /\ s.step.at \in Nat /\ s.step.at <= s.at
  BY <1>1, ResultTypes DEF StepResults, Story, FlightSeen, OfThisRun
<1>4. Applied(s) # None =>
        /\ s.step # None /\ s.flown
        /\ Applied(s).traffic \in Traffics /\ Applied(s).traffic.flown
        /\ Applied(s).traffic.at = Applied(s).at
        /\ Applied(s).at \in Nat /\ Applied(s).at <= s.at
        /\ s.step.at > Applied(s).at => s.step.traffic.flown
  <2>1. SUFFICES ASSUME Applied(s) # None
                 PROVE  /\ s.step # None /\ s.flown
                        /\ Applied(s).traffic \in Traffics /\ Applied(s).traffic.flown
                        /\ Applied(s).traffic.at = Applied(s).at
                        /\ Applied(s).at \in Nat /\ Applied(s).at <= s.at
                        /\ s.step.at > Applied(s).at => s.step.traffic.flown
    OBVIOUS
  <2>2. Applied(s) \in {s.application, s.modApplication} /\ Applied(s) \in ApplicationResults
    BY <1>1, <2>1, TimesAre DEF Applied
  <2>3. s.step # None
    BY <1>1, <2>1, <2>2 DEF Story, ReviewInOrder
  <2>4. /\ s.flown /\ Applied(s).traffic.at = Applied(s).at /\ Applied(s).traffic.flown
        /\ s.step.at > Applied(s).at => s.step.traffic.flown
    BY <1>1, <2>1, <2>2 DEF Story, FlightSeen
  <2>5. Applied(s).at <= s.at
    BY <1>1, <2>1, <2>2 DEF Story, OfThisRun
  <2>6. QED
    BY <2>2, <2>3, <2>4, <2>5 DEF ApplicationResults
<1>5. /\ candidates \in Seq(Traffics) /\ Len(candidates) >= 1
      /\ candidates[Len(candidates)] = LiveTraffic(s)
      /\ Applied(s) # None => candidates[1] = Applied(s).traffic
      /\ \A i \in DOMAIN candidates :
           \/ candidates[i] = LiveTraffic(s)
           \/ s.step # None /\ candidates[i] = s.step.traffic
           \/ Applied(s) # None /\ candidates[i] = Applied(s).traffic
  <2> DEFINE two == applied \o stepped
  <2>1. /\ applied \in Seq(Traffics)
        /\ Applied(s) # None => Len(applied) = 1 /\ applied[1] = Applied(s).traffic
        /\ Applied(s) = None => applied = <<>>
    BY <1>4
  <2>2. /\ two \in Seq(Traffics)
        /\ Applied(s) # None => Len(two) >= 1 /\ two[1] = Applied(s).traffic
        /\ \A i \in DOMAIN two :
             \/ s.step # None /\ two[i] = s.step.traffic
             \/ Applied(s) # None /\ two[i] = Applied(s).traffic
    <3> HIDE DEF applied
    <3>1. CASE s.step = None
      <4>1. applied = <<>> /\ stepped = <<>>
        BY <1>4, <2>1, <3>1
      <4>2. two = <<>>
        BY <4>1
      <4>3. QED
        BY <1>4, <3>1, <4>2
    <3>2. CASE s.step # None
      <4>1. two = applied \o <<s.step.traffic>>
        BY <3>2
      <4> HIDE DEF two
      <4>2. /\ two \in Seq(Traffics) /\ Len(two) = Len(applied) + 1
            /\ two[Len(applied) + 1] = s.step.traffic
            /\ \A i \in DOMAIN applied : two[i] = applied[i]
        BY <1>3, <2>1, <3>2, <4>1, AddedToTheEnd
      <4>3. CASE Applied(s) = None
        BY <2>1, <3>2, <4>2, <4>3
      <4>4. CASE Applied(s) # None
        <5>0. /\ Len(applied) = 1 /\ applied[1] = Applied(s).traffic /\ applied \in Seq(Traffics)
              /\ 1 \in DOMAIN applied /\ Len(applied) + 1 = 2
          <6>1. Len(applied) = 1 /\ applied[1] = Applied(s).traffic
            BY <2>1, <4>4
          <6>2. applied \in Seq(Traffics)
            BY <2>1
          <6>3. 1 \in DOMAIN applied /\ Len(applied) + 1 = 2
            BY <6>1, <6>2
          <6>4. QED
            BY <6>1, <6>2, <6>3
        <5>1. Len(two) = 2 /\ two[2] = s.step.traffic /\ two[1] = Applied(s).traffic
          <6>1. Len(two) = 2 /\ two[2] = s.step.traffic
            BY <4>2, <5>0
          <6>2. two[1] = Applied(s).traffic
            BY <4>2, <5>0
          <6>3. QED
            BY <6>1, <6>2
        <5>2. DOMAIN two = {1, 2}
          <6>1. two \in Seq(Traffics) /\ Len(two) = 2
            BY <4>2, <5>1
          <6>2. DOMAIN two = 1 .. 2
            BY <6>1
          <6>3. QED
            BY <6>2
        <5>3. QED
          BY <3>2, <4>2, <4>4, <5>1, <5>2
      <4>5. QED
        BY <4>3, <4>4
    <3>3. QED
      BY <3>1, <3>2
  <2> HIDE DEF two
  <2>3. candidates = two \o <<LiveTraffic(s)>>
    BY DEF two
  <2> HIDE DEF candidates
  <2>4. /\ candidates \in Seq(Traffics) /\ Len(candidates) = Len(two) + 1
        /\ candidates[Len(two) + 1] = LiveTraffic(s)
        /\ \A i \in DOMAIN two : candidates[i] = two[i]
    BY <1>2, <2>2, <2>3, AddedToTheEnd
  <2>5. \A i \in DOMAIN candidates : i \in DOMAIN two \/ i = Len(two) + 1
    BY <2>2, <2>4
  <2>6. QED
    BY <2>2, <2>4, <2>5
<1>6. Traffic(s) = candidates[Min(newest)]
  BY DEF Traffic
<1> HIDE DEF candidates
<1>7. \A i \in DOMAIN candidates : candidates[i].at \in Nat /\ candidates[i].at <= s.at /\ i \in Nat
  BY <1>1, <1>2, <1>3, <1>4, <1>5
<1>8. newest \subseteq Nat /\ newest # {} /\ \A i \in newest : candidates[i].at = s.at
  <2>1. Len(candidates) \in DOMAIN candidates /\ candidates[Len(candidates)].at = s.at
    BY <1>2, <1>5
  <2>2. Len(candidates) \in newest
    BY <1>7, <2>1
  <2>3. \A i \in newest : candidates[i].at = s.at
    BY <1>1, <1>7, <2>1
  <2>4. QED
    BY <1>7, <2>2, <2>3
<1>9. Min(newest) \in newest /\ \A i \in newest : Min(newest) <= i
  BY <1>8, MinIs
<1> DEFINE m == Min(newest)
<1>10. m \in DOMAIN candidates /\ candidates[m].at = s.at
  BY <1>8, <1>9
<1>11. ASSUME Applied(s) # None PROVE candidates[m].flown
  <2>1. CASE candidates[m] = LiveTraffic(s)
    BY <1>2, <1>4, <1>11, <2>1
  <2>2. CASE s.step # None /\ candidates[m] = s.step.traffic
    <3>1. s.step.at = s.at
      BY <1>3, <1>10, <2>2
    <3>2. CASE s.step.at > Applied(s).at
      BY <1>4, <1>11, <2>2, <3>2
    <3>3. CASE ~ (s.step.at > Applied(s).at)
      <4>1. Applied(s).at = s.at /\ candidates[1].at = s.at /\ 1 \in DOMAIN candidates
        BY <1>1, <1>3, <1>4, <1>5, <1>11, <3>1, <3>3
      <4>2. 1 \in newest
        BY <1>7, <4>1
      <4>3. m <= 1
        BY <1>9, <4>2
      <4>4. m = 1
        BY <1>5, <1>10, <4>3
      <4>5. QED
        BY <1>4, <1>5, <1>11, <4>4
    <3>4. QED
      BY <3>2, <3>3
  <2>3. CASE candidates[m] = Applied(s).traffic
    BY <1>4, <1>11, <2>3
  <2>4. QED
    BY <1>5, <1>10, <2>1, <2>2, <2>3
<1>12. QED
  BY <1>6, <1>10, <1>11

\* What is shown of the services and of the results.
LEMMA ShownAre ==
  ASSUME NEW s, IsRead(s)
  PROVE  /\ \A w \in {QueueShown(s.queue, TRUE), SetShown(s.catalog), ModifiedRevalidation(s),
                      Revalidation(s)} : w # None => w.run = s.run
         /\ \A w \in {SetShown(s.catalog), ModifiedRevalidation(s), Revalidation(s)} :
              w # None => w.at <= s.at
         /\ QueueShown(s.queue, TRUE) # None =>
              \A p \in DOMAIN QueueShown(s.queue, TRUE).items :
                LET e == QueueShown(s.queue, TRUE).items[p].event
                IN  e.run = s.run /\ e.at <= s.at
<1>1. s \in Sessions /\ Story(s)
  BY DEF IsRead
<1>2. /\ s.queue # None => s.queue.run = s.run
      /\ s.catalog # None => s.catalog.run = s.run /\ s.catalog.at <= s.at
      /\ s.revalidation # None => s.revalidation.run = s.run /\ s.revalidation.at <= s.at
      /\ Applied(s) # None => Applied(s).run = s.run /\ Applied(s).at <= s.at
  BY <1>1 DEF Story, OfThisRun, Applied
<1>3. SetShown(s.catalog) # None =>
        SetShown(s.catalog).run = s.run /\ SetShown(s.catalog).at <= s.at
  BY <1>2 DEF SetShown
<1>4. ModifiedRevalidation(s) # None =>
        ModifiedRevalidation(s).run = s.run /\ ModifiedRevalidation(s).at <= s.at
  BY <1>2 DEF ModifiedRevalidation
<1>5. Revalidation(s) # None => Revalidation(s).run = s.run /\ Revalidation(s).at <= s.at
  BY <1>2 DEF Revalidation
<1> DEFINE shown == {p \in Pairs : \/ p \in Active(s.queue.items)
                                   \/ TRUE /\ s.queue.items[p].status = "RESOLVED"}
<1>6. QueueShown(s.queue, TRUE) # None =>
        /\ s.queue # None /\ QueueShown(s.queue, TRUE).run = s.queue.run
        /\ QueueShown(s.queue, TRUE).items = [p \in shown |-> s.queue.items[p]]
  BY DEF QueueShown
<1>7. \A p \in shown : p \in Pairs /\ s.queue.items[p].status # "NONE"
  BY DEF Active
<1> HIDE DEF shown
<1>8. QueueShown(s.queue, TRUE) # None =>
        \A p \in shown : s.queue.items[p].event.run = s.run /\ s.queue.items[p].event.at <= s.at
  BY <1>1, <1>6, <1>7 DEF Story, OfThisRun
<1>9. QED
  BY <1>2, <1>3, <1>4, <1>5, <1>6, <1>8

\* The recommendation shown is that of the Resolution.
LEMMA RecommendationIs ==
  ASSUME NEW s, IsRead(s), s.resolution # None
  PROVE  /\ SetShown(s.catalog).at = s.resolution.at
         /\ {c.candidate : c \in {d \in Comparisons(s) : d.recommended}}
              = SetShown(s.catalog).primary
<1>1. /\ s.catalog # None /\ s.catalog.at = s.resolution.at /\ s.catalog.safe = s.resolution.safe
      /\ s \in Sessions
  BY DEF IsRead, Story, ReviewInOrder
<1>2. s.resolution.safe \in SUBSET Candidates
  BY <1>1, ResultTypes DEF ResolutionResults
<1> DEFINE safe == s.resolution.safe
           comparison(c) == [candidate |-> c, at |-> s.resolution.at,
                             verdict |-> IF c \in safe THEN "SAFE" ELSE "UNSAFE",
                             recommended |-> c \in Primary(safe)]
<1>3. Comparisons(s) = {comparison(c) : c \in Candidates}
  BY DEF Comparisons
<1>4. \A c : comparison(c).candidate = c /\ (comparison(c).recommended <=> c \in Primary(safe))
  OBVIOUS
<1>5. SetShown(s.catalog).at = s.resolution.at /\ SetShown(s.catalog).primary = Primary(safe)
  BY <1>1 DEF SetShown
<1>6. Primary(safe) \subseteq Candidates
  BY <1>2, PrimaryIs
<1> HIDE DEF comparison, safe
<1>7. {c.candidate : c \in {d \in Comparisons(s) : d.recommended}} = Primary(safe)
  BY <1>3, <1>4, <1>6
<1>8. QED
  BY <1>5, <1>7

\* The decision shown is one of the log's.
LEMMA DecisionIs ==
  ASSUME NEW s, IsRead(s), s.decision # None
  PROVE  \E i \in DOMAIN LogShown(s.log).entries :
           LET entry == LogShown(s.log).entries[i]
           IN  entry.set = s.resolution.at /\ entry.at = s.decision.at
<1>1. s \in Sessions /\ s.log \in Seq(Entries)
  BY DEF IsRead, Sessions
<1>2. PICK i \in DOMAIN s.log : s.log[i].set = s.resolution.at /\ s.log[i].at = s.decision.at
  BY DEF IsRead, Story, ReviewInOrder
<1>3. s.log # <<>>
  BY <1>1, <1>2
<1>4. LogShown(s.log).entries = [j \in DOMAIN s.log |-> EntryShown(s.log[j])]
  BY <1>3 DEF LogShown
<1>5. EntryShown(s.log[i]).set = s.log[i].set /\ EntryShown(s.log[i]).at = s.log[i].at
  BY DEF EntryShown
<1>6. QED
  BY <1>2, <1>4, <1>5

LEMMA InvTellsOneStory ==
  ASSUME GatewayInv
  PROVE  ViewTellsOneStory
<1> DEFINE s == AllRead(session)
           v == View(session)
<1>1. IsRead(s) /\ s \in Sessions /\ Story(s)
  BY InvIsRead DEF IsRead
<1>2. /\ v.run = s.run /\ v.at = s.at /\ v.stage = Stage(s) /\ v.traffic = Traffic(s)
      /\ v.resolutionAt = s.resolution.at /\ v.decisionAt = s.decision.at
      /\ v.applicationAt = Applied(s).at /\ v.primary = PrimaryConflict(s)
      /\ v.comparisons = Comparisons(s) /\ v.queue = QueueShown(s.queue, TRUE)
      /\ v.recommendation = SetShown(s.catalog) /\ v.controllerDecision = LogShown(s.log)
      /\ v.modifiedRevalidation = ModifiedRevalidation(s) /\ v.revalidation = Revalidation(s)
  BY DEF View
<1> HIDE DEF s, v
<1> DEFINE seen == {w \in {v.queue, v.recommendation, v.modifiedRevalidation, v.revalidation} : w # None}
           assessed == IF v.queue = None THEN {}
                       ELSE {v.queue.items[p].event : p \in DOMAIN v.queue.items}
<1>3. /\ \A w \in seen : w.run = v.run
      /\ \A w \in seen \ {v.queue} : w.at <= v.at
      /\ \A w \in assessed : w.run = v.run /\ w.at <= v.at
  <2>1. ASSUME NEW w \in seen
        PROVE  /\ w \in {QueueShown(s.queue, TRUE), SetShown(s.catalog), ModifiedRevalidation(s),
                         Revalidation(s)}
               /\ w # None
    BY <1>2
  <2>2. \A w \in seen : w.run = v.run
    <3> HIDE DEF seen
    <3>1. QED
      BY <1>1, <1>2, <2>1, ShownAre
  <2>3. \A w \in seen \ {v.queue} : w.at <= v.at
    <3> HIDE DEF seen
    <3>1. ASSUME NEW w \in seen \ {v.queue}
          PROVE  /\ w \in {SetShown(s.catalog), ModifiedRevalidation(s), Revalidation(s)}
                 /\ w # None
      BY <1>2, <2>1
    <3>2. QED
      BY <1>1, <1>2, <3>1, ShownAre
  <2>4. ASSUME NEW w \in assessed
        PROVE  w.run = s.run /\ w.at <= s.at
    <3>1. v.queue # None /\ \E p \in DOMAIN v.queue.items : w = v.queue.items[p].event
      BY <2>4
    <3>2. PICK p \in DOMAIN QueueShown(s.queue, TRUE).items :
                 w = QueueShown(s.queue, TRUE).items[p].event
      BY <1>2, <3>1
    <3>3. QueueShown(s.queue, TRUE) # None
      BY <1>2, <3>1
    <3>4. QED
      BY <1>1, <3>2, <3>3, ShownAre
  <2> HIDE DEF assessed, seen
  <2>5. QED
    BY <1>2, <2>2, <2>3, <2>4
<1>4. \A w \in v.primary : w.run = v.run
  BY <1>1, <1>2, PrimaryConflictIs
<1>5. v.traffic.at = v.at /\ (v.applicationAt # -1 => v.traffic.flown)
  BY <1>1, <1>2, TrafficIs, TimesAre
<1>6. /\ (v.stage \in ReviewStages \cup {"CONFLICT_DETECTED"}) <=> (v.primary # {})
      /\ (v.stage \in ReviewStages) <=> (v.resolutionAt # -1)
  BY <1>1, <1>2, PrimaryConflictIs, ReviewStagesAre, TimesAre
<1>7. v.resolutionAt # -1 =>
        /\ v.recommendation.at = v.resolutionAt
        /\ {c.candidate : c \in {d \in v.comparisons : d.recommended}} = v.recommendation.primary
  BY <1>1, <1>2, RecommendationIs, TimesAre
<1>8. v.decisionAt # -1 =>
        \E i \in DOMAIN v.controllerDecision.entries :
          LET entry == v.controllerDecision.entries[i]
          IN  entry.set = v.resolutionAt /\ entry.at = v.decisionAt
  BY <1>1, <1>2, DecisionIs, TimesAre
<1>9. v.applicationAt # -1 => v.decisionAt # -1
  <2>1. Applied(s) # None => s.decision # None
    BY <1>1 DEF Story, ReviewInOrder, Applied
  <2>2. QED
    BY <1>1, <1>2, <2>1, TimesAre
<1>10. \A w \in seen \cup assessed \cup v.primary : w.run = v.run
  BY <1>3, <1>4
<1>11. \A w \in assessed : w.at <= v.at
  BY <1>3
<1>12. \A w \in seen \ {v.queue} : w.at <= v.at
  BY <1>3
<1> HIDE DEF seen, assessed
<1>13. QED
  BY <1>5, <1>6, <1>7, <1>8, <1>9, <1>10, <1>11, <1>12 DEF ViewTellsOneStory, v, seen, assessed

\* Whenever the view is asked for, it tells one story (api/session.py
\* get_current()): one run, nothing from the future, the traffic of the time
\* shown, a primary conflict exactly from the detection on, and decision,
\* recommendation and comparison of the Resolution shown.
THEOREM ViewIsOneStory == Spec => []ViewTellsOneStory
<1>1. GatewayInv => ViewTellsOneStory
  BY InvTellsOneStory
<1>2. QED
  BY <1>1, GatewayIsInOrder, PTL

-----------------------------------------------------------------------------
(* What a request may never do to the view.                                 *)

\* Once there is a Resolution, its source is all the primary conflict says.
LEMMA PrimaryIsOfTheSource ==
  ASSUME NEW s, IsRead(s), s.resolution # None
  PROVE  LET risk == s.resolution.source
         IN  PrimaryConflict(s) =
               {[id |-> ConflictId(risk), run |-> risk.run, level |-> risk.level,
                 tcpa |-> risk.tcpa, separation |-> risk.separation,
                 closestAt |-> risk.at + risk.tcpa]}
<1> DEFINE risk == s.resolution.source
           found == MatchingEvent(s.step, risk)
           shown == IF found = {} THEN risk ELSE CHOOSE e \in found : TRUE
<1>1. s.step # None /\ SourceIsFound(s)
  BY DEF IsRead, Story, ReviewInOrder
<1>2. \A e \in found : e = risk
  BY <1>1 DEF SourceIsFound, MatchingEvent
<1>3. shown = risk
  <2>1. CASE found = {}
    BY <2>1
  <2>2. CASE found # {}
    <3>1. (CHOOSE e \in found : TRUE) \in found
      BY <2>2
    <3> HIDE DEF found
    <3>2. QED
      BY <1>2, <2>2, <3>1
  <2>3. QED
    BY <2>1, <2>2
<1> HIDE DEF shown
<1>4. PrimaryConflict(s) =
        {[id |-> ConflictId(risk), run |-> risk.run, level |-> risk.level, tcpa |-> risk.tcpa,
          separation |-> shown.separation, closestAt |-> shown.at + shown.tcpa]}
  BY <1>1 DEF PrimaryConflict, shown
<1>5. QED
  BY <1>3, <1>4

LEMMA FollowsKeepsPrimary ==
  ASSUME GatewayInv, Follows, View(session).resolutionAt # -1,
         View(session').run = View(session).run
  PROVE  View(session').primary = View(session).primary
<1> DEFINE s == AllRead(session)
           t == AllRead(session')
<1>1. IsRead(s) /\ IsRead(t) /\ s \in Sessions
  BY InvIsRead DEF Follows, IsRead
<1>2. /\ View(session).resolutionAt = s.resolution.at
      /\ View(session).run = s.run /\ View(session').run = t.run
      /\ View(session).primary = PrimaryConflict(s)
      /\ View(session').primary = PrimaryConflict(t)
  BY DEF View
<1>3. Keeps(s, t) \/ t.run = s.run + 1
  BY DEF Follows
<1> HIDE DEF s, t
<1>4. s.run \in Nat /\ t.run = s.run
  BY <1>1, <1>2 DEF Sessions
<1>5. Keeps(s, t)
  BY <1>3, <1>4
<1>6. s.resolution # None
  BY <1>1, <1>2, TimesAre
<1>7. t.resolution = s.resolution
  BY <1>5, <1>6 DEF Keeps
<1>8. PrimaryConflict(t) = PrimaryConflict(s)
  BY <1>1, <1>6, <1>7, PrimaryIsOfTheSource
<1>9. QED
  BY <1>2, <1>8

\* The conflict under review keeps its identifier, its closest approach and
\* its time while Steps, decisions and the manoeuvre change the picture
\* (api/session.py _map_primary_conflict).
THEOREM PrimaryIsKept == Spec => PrimaryConflictIsKept
<1>1. GatewayInv /\ [Next]_vars =>
        [session' # session /\ View(session).resolutionAt # -1 /\ View(session').run = View(session).run
           => View(session').primary = View(session).primary]_session
  <2>1. ASSUME GatewayInv, Next, session' # session, View(session).resolutionAt # -1,
               View(session').run = View(session).run
        PROVE  View(session').primary = View(session).primary
    BY <2>1, NextFollows, FollowsKeepsPrimary
  <2>2. UNCHANGED vars => session' = session
    BY DEF vars
  <2>3. QED
    BY <2>1, <2>2
<1>2. QED
  BY <1>1, GatewayIsInOrder, PTL DEF Spec, PrimaryConflictIsKept

\* What the view shows changes by the process itself, by something a service
\* took, or by a command of somebody who may command; a refused command
\* changes it only if it may stop halfway (runtime/session.py execute(),
\* infrastructure/http/access.py ViewerGuard).
THEOREM ViewChangesByCommands == Spec => OnlyCommandsChangeTheView
<1>1. GatewayInv /\ [Next]_vars =>
        [session' # session /\ View(session') # View(session) => MayChangeTheView]_session
  <2>1. ASSUME GatewayInv, Next, View(session') # View(session)
        PROVE  MayChangeTheView
    <3>1. Follows
      BY <2>1, NextFollows
    <3>2. AllRead(session') # AllRead(session)
      BY <2>1, ViewIsOfWhatIsRead
    <3>3. QED
      BY <3>1, <3>2 DEF Follows
  <2>2. UNCHANGED vars => session' = session
    BY DEF vars
  <2>3. QED
    BY <2>1, <2>2
<1>2. QED
  BY <1>1, GatewayIsInOrder, PTL DEF Spec, OnlyCommandsChangeTheView, MayChangeTheView

\* A step of the review that was answered once is refused when it is sent
\* again in the same run (runtime/session.py _require_checkpoint).
THEOREM RetryIsRefused == Spec => RetriesAreRefused
<1>1. GatewayInv /\ [Next]_vars =>
        [answer'.status = 200 /\ answer'.to \in Commands \ Repeatable
           => answer'.to \notin executed]_vars
  <2>1. ASSUME GatewayInv, Next, answer'.status = 200, answer'.to \in Commands \ Repeatable
        PROVE  answer'.to \notin executed
    <3>1. Follows
      BY <2>1, NextFollows
    <3>2. NotTakenYet(AllRead(session), answer'.to)
      BY <2>1, <3>1 DEF Follows, IsTaken
    <3>3. TakenStepsShow(AllRead(session), executed)
      BY <2>1 DEF GatewayInv
    <3> DEFINE command == answer'.to
    <3>4. command \in {"START", "GENERATE_RECOMMENDATION", "ACCEPT_RECOMMENDATION",
                       "MODIFY_RECOMMENDATION", "REJECT_RECOMMENDATION",
                       "REVALIDATE_MODIFIED_MANEUVER", "APPLY_VALIDATED_MODIFIED_MANEUVER",
                       "APPLY_APPROVED_MANEUVER"}
      BY <2>1 DEF Commands, Repeatable
    <3>5. NotTakenYet(AllRead(session), command)
      BY <3>2
    <3> HIDE DEF command
    <3>6. command \notin executed
      BY <3>3, <3>4, <3>5 DEF NotTakenYet, TakenStepsShow
    <3>7. QED
      BY <3>6 DEF command
  <2>2. QED
    BY <2>1
<1>2. QED
  BY <1>1, GatewayIsInOrder, PTL DEF Spec, RetriesAreRefused
=============================================================================
