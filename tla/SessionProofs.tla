--------------------------- MODULE SessionProofs ---------------------------
(***************************************************************************)
(* Proofs about DecisionChain, for every scenario, every bound and every   *)
(* order of calls; then about SessionCommands, for every command step      *)
(* width and every sequence of commands.  A command is a review step, a    *)
(* revalidation, a flight or a reset of the chain, so the invariant of the *)
(* chain carries over; the stage guards add SessionInv to it.              *)
(***************************************************************************)
EXTENDS SessionCommands, SequenceTheorems, TLAPS

-----------------------------------------------------------------------------
(* The inductive invariant.                                                 *)

\* A decision that exists has a type, and its entry is still in the log.
DecisionRecorded ==
    /\ decision.tick = Never <=> decision.type = "NONE"
    /\ decision.tick # Never =>
          /\ decision.revision \in 1 .. Len(audit)
          /\ audit[decision.revision].at = decision.tick
          /\ audit[decision.revision].type = decision.type

\* A revalidation as young as the decision is that of the decision.
RevalidationOfDecision ==
    revalidation.tick # Never /\ revalidation.tick = decision.tick =>
        /\ decision.type = "MODIFY"
        /\ revalidation.target = decision.target

\* No anchor is younger than the decision; one as young is its manoeuvre.
AnchorsOfDecision ==
    \A m \in anchors :
        /\ m.tick <= decision.tick
        /\ m.tick = decision.tick => m.aircraft = decision.target

IInv ==
    /\ TypeOK
    /\ EvidenceInOrder
    /\ DecisionRecorded
    /\ RevalidationOfDecision
    /\ AnchorsOfDecision
    /\ AnchorsAreAudited
    /\ OneManeuverPerTick
    /\ ModifiedFlightIsClear

-----------------------------------------------------------------------------
(* What the calls return.                                                   *)

StepType == [tick : TickOrNever, risks : [Pairs -> Grades], queue : [Pairs -> Grades]]

ResolutionType == [tick : TickOrNever, pair : PairOrNone, target : Targets]

\* A conflict run yields a grade for every pair (RiskRun).
LEMMA RiskRunType ==
    ASSUME NEW t, NEW r \in RiskRun(t)
    PROVE  r \in [Pairs -> Grades]
BY LevelAssumption DEF RiskRun, Grades, Unassessed, NoItem

\* A refreshed queue holds a grade for every pair (Refreshed).
LEMMA RefreshedType ==
    ASSUME NEW q \in [Pairs -> Grades], NEW r \in [Pairs -> Grades]
    PROVE  Refreshed(q, r) \in [Pairs -> Grades]
BY DEF Refreshed

\* The primary Recommendation moves an aircraft of the pair, or there is
\* none (PrimaryTargets).
LEMMA PrimaryTargetsType ==
    ASSUME NEW p \in Pairs, NEW preferred \in p, NEW safe,
           NEW target \in PrimaryTargets(p, preferred, safe)
    PROVE  target \in Targets
BY AircraftAssumption DEF PrimaryTargets, Targets

\* A Step leaves the clock, the schedule, the queue and its result typed.
LEMMA StepAtType ==
    ASSUME TypeOK, NEW t \in Nat, StepAt(t)
    PROVE  /\ tickCount' = t
           /\ lastSlot' \in TickOrNever
           /\ queue' \in [Pairs -> Grades]
           /\ step' \in StepType
           /\ step'.tick = t
<1>1. t \div Interval \in Nat
  BY TimeAssumption
<1>2. lastSlot' \in TickOrNever
  BY <1>1 DEF StepAt, TypeOK, TickOrNever
<1>3. NotRun \in [Pairs -> Grades]
  BY DEF NotRun, Grades, Unassessed, NoItem
<1>4. PICK r \in [Pairs -> Grades] :
         /\ queue' = Refreshed(queue, r)
         /\ step' = [tick |-> t, risks |-> r, queue |-> queue']
  BY <1>3, RiskRunType DEF StepAt
<1>5. queue' \in [Pairs -> Grades]
  BY <1>4, RefreshedType DEF TypeOK
<1>6. QED
  BY <1>2, <1>4, <1>5 DEF StepAt, StepType, TickOrNever

\* A Resolution is about one pair and the tick it was made at.
LEMMA ResolveAtType ==
    ASSUME TypeOK, NEW t \in Nat, NEW s, ResolveAt(t, s)
    PROVE  /\ resolution' \in ResolutionType
           /\ resolution'.tick = t
           /\ published' \in SUBSET Nat
<1>1. PICK p \in Select(s.queue) : \E preferred \in Preferred(p, t) :
         \E safe \in SUBSET DOMAIN CandidateRoles :
            \E target \in PrimaryTargets(p, preferred, safe) :
               /\ resolution' = [tick |-> t, pair |-> p, target |-> target]
               /\ published' = IF target = NoAircraft
                               THEN published
                               ELSE published \cup {t}
  BY DEF ResolveAt
<1>2. p \in Pairs
  BY DEF Select, Actionable
<1>3. Preferred(p, t) \subseteq p
  BY DEF Preferred, Movable
<1>4. PICK target \in Targets :
         /\ resolution' = [tick |-> t, pair |-> p, target |-> target]
         /\ published' = IF target = NoAircraft THEN published ELSE published \cup {t}
  BY <1>1, <1>2, <1>3, PrimaryTargetsType
<1>5. QED
  BY <1>2, <1>4 DEF ResolutionType, PairOrNone, TickOrNever, TypeOK

DecisionType == [tick : TickOrNever, type : Types \cup {"NONE"}, set : TickOrNever,
                 pair : PairOrNone, target : Targets, revision : Nat]

\* A decision is typed, and its entry is the new last one of the log.
LEMMA DecideAtType ==
    ASSUME TypeOK, NEW t \in Nat, NEW s, NEW type \in Types, DecideAt(t, s, type)
    PROVE  /\ decision' \in DecisionType
           /\ audit' \in Seq(Entries)
           /\ Len(audit') = Len(audit) + 1
           /\ \A i \in 1 .. Len(audit) : audit'[i] = audit[i]
           /\ audit'[Len(audit')] = [set |-> resolution.tick, type |-> type, at |-> t]
           /\ decision'.tick = t /\ decision'.type = type
           /\ decision'.set = resolution.tick
           /\ decision'.revision = Len(audit')
<1> DEFINE entry == [set |-> resolution.tick, type |-> type, at |-> t]
<1>1. resolution.tick \in Nat
  BY DEF DecideAt, TypeOK, TickOrNever
<1>2. entry \in Entries
  BY <1>1 DEF Entries
<1>3. /\ audit \in Seq(Entries)
      /\ audit' = Append(audit, entry)
  BY DEF TypeOK, DecideAt
<1>4. /\ audit' \in Seq(Entries)
      /\ Len(audit') = Len(audit) + 1
      /\ \A i \in 1 .. Len(audit) : audit'[i] = audit[i]
      /\ audit'[Len(audit')] = entry
  BY <1>2, <1>3, AppendProperties
<1>5. /\ resolution.pair \in PairOrNone
      /\ resolution.target \in Targets
      /\ Len(audit) \in Nat
  BY <1>3, LenProperties DEF TypeOK
<1>6. decision' = [tick |-> t, type |-> type, set |-> resolution.tick,
                   pair |-> resolution.pair, target |-> resolution.target,
                   revision |-> Len(audit) + 1]
  BY DEF DecideAt
<1>7. QED
  BY <1>1, <1>4, <1>5, <1>6 DEF DecisionType, TickOrNever

-----------------------------------------------------------------------------
(* Steps of review and steps of flight.                                     *)

\* What every step but a flight and a reset does, in the chain as in the
\* session: time and evidence move on, at most one Resolution and at most
\* one decision are made on the new evidence, and the log only grows.
ReviewStep ==
    /\ tickCount' \in Nat /\ tickCount' >= tickCount
    /\ step' = step \/ step'.tick = tickCount'
    /\ \/ UNCHANGED resolution
       \/ ResolveAt(tickCount', step')
    /\ \/ UNCHANGED <<decision, audit>>
       \/ UNCHANGED resolution /\ \E type \in Types : DecideAt(tickCount', step', type)
       \/ UNCHANGED decision /\ \E entry \in Entries : audit' = Append(audit, entry)
    /\ UNCHANGED <<application, modApplication, anchors>>
    /\ revalidation' = revalidation

\* A review step keeps the chain of results in order, whatever it decides.
LEMMA ReviewKeepsOrder ==
    ASSUME IInv, ReviewStep, TypeOK'
    PROVE  EvidenceInOrder'
<1>1. /\ tickCount \in Nat /\ tickCount' \in Nat /\ tickCount' >= tickCount
      /\ step'.tick \in TickOrNever /\ step.tick \in TickOrNever
      /\ resolution.tick \in TickOrNever /\ resolution'.tick \in TickOrNever
      /\ decision.tick \in TickOrNever /\ decision'.tick \in TickOrNever
      /\ decision.set \in TickOrNever /\ decision'.set \in TickOrNever
      /\ revalidation.tick \in TickOrNever
      /\ application.tick \in TickOrNever /\ modApplication.tick \in TickOrNever
  BY DEF IInv, ReviewStep, TypeOK, Applications
<1>2. /\ step'.tick <= tickCount'
      /\ step.tick <= step'.tick
  BY <1>1, SMTT(20) DEF IInv, ReviewStep, EvidenceInOrder, TickOrNever, Never
<1>3. /\ resolution'.tick <= step'.tick
      /\ resolution.tick <= resolution'.tick
  <2>1. CASE UNCHANGED resolution
    BY <1>1, <1>2, <2>1 DEF IInv, EvidenceInOrder, TickOrNever, Never
  <2>2. CASE ResolveAt(tickCount', step')
    <3>1. resolution'.tick = tickCount' /\ step'.tick = tickCount'
      BY <1>1, <2>2, ResolveAtType DEF IInv, ResolveAt
    <3>2. QED
      BY <1>1, <1>2, <3>1 DEF IInv, EvidenceInOrder, TickOrNever, Never
  <2>3. QED
    BY <2>1, <2>2 DEF ReviewStep
<1>4. /\ decision'.tick <= step'.tick
      /\ decision'.set <= decision'.tick
      /\ decision'.set <= resolution'.tick
      /\ decision.tick <= decision'.tick
  <2>1. CASE UNCHANGED decision
    BY <1>1, <1>2, <1>3, <2>1 DEF IInv, EvidenceInOrder, TickOrNever, Never
  <2>2. CASE UNCHANGED resolution /\ \E type \in Types : DecideAt(tickCount', step', type)
    <3>1. PICK type \in Types : DecideAt(tickCount', step', type)
      BY <2>2
    <3>2. /\ decision'.tick = tickCount' /\ step'.tick = tickCount'
          /\ decision'.set = resolution.tick
      BY <1>1, <3>1, DecideAtType DEF IInv, DecideAt
    <3>3. QED
      BY <1>1, <1>2, <2>2, <3>2 DEF IInv, EvidenceInOrder, TickOrNever, Never
  <2>3. QED
    BY <2>1, <2>2 DEF ReviewStep
<1>5. QED
  BY <1>1, <1>2, <1>3, <1>4, SMTT(20) DEF IInv, EvidenceInOrder, ReviewStep, TickOrNever, Never

\* The log only grows in a review step, whoever records the decision.
LEMMA ReviewGrowsLog ==
    ASSUME IInv, ReviewStep
    PROVE  /\ Len(audit) \in Nat /\ Len(audit') \in Nat
           /\ Len(audit) <= Len(audit')
           /\ \A i \in 1 .. Len(audit) : audit'[i] = audit[i]
<1>1. audit \in Seq(Entries)
  BY DEF IInv, TypeOK
<1>2. CASE UNCHANGED audit
  BY <1>1, <1>2, LenProperties
<1>3. ASSUME NEW type \in Types, DecideAt(tickCount', step', type)
      PROVE  /\ Len(audit) \in Nat /\ Len(audit') \in Nat
             /\ Len(audit) <= Len(audit')
             /\ \A i \in 1 .. Len(audit) : audit'[i] = audit[i]
  <2>1. tickCount' \in Nat
    BY DEF ReviewStep
  <2>2. /\ Len(audit') = Len(audit) + 1
        /\ \A i \in 1 .. Len(audit) : audit'[i] = audit[i]
    BY <1>3, <2>1, DecideAtType DEF IInv
  <2>3. QED
    BY <1>1, <2>2, LenProperties
<1>4. ASSUME NEW entry \in Entries, audit' = Append(audit, entry)
      PROVE  /\ Len(audit) \in Nat /\ Len(audit') \in Nat
             /\ Len(audit) <= Len(audit')
             /\ \A i \in 1 .. Len(audit) : audit'[i] = audit[i]
  BY <1>1, <1>4, AppendProperties, LenProperties
<1>5. QED
  BY <1>2, <1>3, <1>4 DEF ReviewStep

\* A review step keeps every decision and every anchor answered for.
LEMMA ReviewKeepsRecord ==
    ASSUME IInv, ReviewStep, TypeOK'
    PROVE  /\ DecisionRecorded' /\ RevalidationOfDecision'
           /\ AnchorsOfDecision' /\ AnchorsAreAudited'
           /\ OneManeuverPerTick' /\ ModifiedFlightIsClear'
<1>1. /\ tickCount \in Nat /\ tickCount' \in Nat /\ tickCount' >= tickCount
      /\ step.tick \in TickOrNever /\ decision.tick \in TickOrNever
      /\ revalidation.tick \in TickOrNever
      /\ anchors \in SUBSET [aircraft : Aircraft, tick : Nat]
      /\ audit \in Seq(Entries)
  BY DEF IInv, ReviewStep, TypeOK
<1>2. /\ anchors' = anchors /\ modApplication' = modApplication
      /\ revalidation' = revalidation
  BY DEF ReviewStep
<1>3. /\ Len(audit) \in Nat /\ Len(audit') \in Nat
      /\ Len(audit) <= Len(audit')
      /\ \A i \in 1 .. Len(audit) : audit'[i] = audit[i]
  BY ReviewGrowsLog
<1>4. /\ decision.tick <= step.tick /\ step.tick <= tickCount
      /\ revalidation.tick <= decision.tick
  BY DEF IInv, EvidenceInOrder
<1>5. OneManeuverPerTick' /\ ModifiedFlightIsClear'
  BY <1>2 DEF IInv, OneManeuverPerTick, ModifiedFlightIsClear
<1>6. AnchorsAreAudited'
  <2>1. SUFFICES ASSUME NEW m \in anchors
                 PROVE  \E i \in DOMAIN audit' : audit'[i].at = m.tick /\ audit'[i].type # "REJECT"
    BY <1>2 DEF AnchorsAreAudited
  <2>2. PICK i \in DOMAIN audit : audit[i].at = m.tick /\ audit[i].type # "REJECT"
    BY DEF IInv, AnchorsAreAudited
  <2>3. i \in 1 .. Len(audit) /\ i \in 1 .. Len(audit')
    BY <1>1, <1>3, <2>2, LenProperties
  <2>4. audit' \in Seq(Entries)
    BY DEF TypeOK
  <2>5. QED
    BY <1>3, <2>2, <2>3, <2>4, LenProperties
<1>7. CASE UNCHANGED decision
  <2>1. DecisionRecorded'
    BY <1>3, <1>7 DEF IInv, DecisionRecorded
  <2>2. RevalidationOfDecision'
    BY <1>2, <1>7 DEF IInv, RevalidationOfDecision
  <2>3. AnchorsOfDecision'
    BY <1>2, <1>7 DEF IInv, AnchorsOfDecision
  <2>4. QED
    BY <1>5, <1>6, <2>1, <2>2, <2>3
<1>8. CASE \E type \in Types : DecideAt(tickCount', step', type)
  <2>1. PICK type \in Types : DecideAt(tickCount', step', type)
    BY <1>8
  <2>2. /\ decision'.tick = tickCount' /\ decision'.type = type
        /\ decision'.revision = Len(audit')
        /\ Len(audit') = Len(audit) + 1
        /\ audit'[Len(audit')] =
              [set |-> resolution.tick, type |-> type, at |-> tickCount']
    BY <1>1, <2>1, DecideAtType DEF IInv
  <2>3. decision.tick # tickCount'
    BY <2>1 DEF DecideAt, DecisionDue
  <2>4. decision.tick < tickCount' /\ revalidation.tick < tickCount'
    BY <1>1, <1>4, <2>3 DEF TickOrNever, Never
  <2>5. DecisionRecorded'
    BY <1>1, <1>3, <2>2 DEF DecisionRecorded, Types, Never
  <2>6. RevalidationOfDecision'
    BY <1>1, <1>2, <2>2, <2>4 DEF RevalidationOfDecision, TickOrNever, Never
  <2>7. AnchorsOfDecision'
    BY <1>1, <1>2, <2>2, <2>4 DEF IInv, AnchorsOfDecision, TickOrNever, Never
  <2>8. QED
    BY <1>5, <1>6, <2>5, <2>6, <2>7
<1>9. QED
  BY <1>7, <1>8 DEF ReviewStep

\* A review step preserves the inductive invariant.
LEMMA ReviewKeepsIInv ==
    ASSUME IInv, ReviewStep, TypeOK'
    PROVE  IInv'
BY ReviewKeepsOrder, ReviewKeepsRecord DEF IInv

\* A revalidation preserves the inductive invariant: it is of this tick and
\* of the decision of this tick.
LEMMA RevalidateKeepsIInv ==
    ASSUME IInv, Revalidate
    PROVE  IInv'
<1>1. TypeOK
  BY DEF IInv
<1>2. PICK safe \in BOOLEAN :
         revalidation' = [tick |-> tickCount, safe |-> safe,
                          pair |-> resolution.pair, target |-> decision.target]
  BY DEF Revalidate
<1>3. /\ tickCount' = tickCount /\ step' = step /\ resolution' = resolution
      /\ decision' = decision /\ audit' = audit /\ application' = application
      /\ modApplication' = modApplication /\ anchors' = anchors
      /\ clockState' = clockState /\ lastSlot' = lastSlot /\ queue' = queue
      /\ published' = published
  BY DEF Revalidate, clockVars, reviewVars
<1>4. /\ decision.type = "MODIFY"
      /\ decision.tick = tickCount
  BY DEF Revalidate, Contemporaneous
<1>5. TypeOK'
  BY <1>1, <1>2, <1>3 DEF TypeOK, TickOrNever
<1>6. EvidenceInOrder'
  <2>1. /\ tickCount \in Nat /\ revalidation.tick \in TickOrNever
        /\ modApplication.tick \in TickOrNever
    BY <1>1 DEF TypeOK, Applications
  <2>2. revalidation'.tick = tickCount
    BY <1>2
  <2>3. revalidation.tick <= decision.tick /\ modApplication.tick <= revalidation.tick
    BY DEF IInv, EvidenceInOrder
  <2>4. modApplication'.tick <= revalidation'.tick
    BY <1>3, <1>4, <2>1, <2>2, <2>3 DEF TickOrNever, Never
  <2>5. revalidation'.tick <= decision'.tick
    BY <1>3, <1>4, <2>1, <2>2
  <2>6. QED
    BY <1>3, <2>4, <2>5 DEF IInv, EvidenceInOrder
<1>7. RevalidationOfDecision'
  BY <1>2, <1>3, <1>4 DEF RevalidationOfDecision
<1>8. DecisionRecorded' /\ AnchorsOfDecision' /\ AnchorsAreAudited'
  BY <1>3 DEF IInv, DecisionRecorded, AnchorsOfDecision, AnchorsAreAudited
<1>9. OneManeuverPerTick' /\ ModifiedFlightIsClear'
  BY <1>3 DEF IInv, OneManeuverPerTick, ModifiedFlightIsClear
<1>10. QED
  BY <1>5, <1>6, <1>7, <1>8, <1>9 DEF IInv

\* An anchor for the decided aircraft, at the tick of its decision, is the
\* only anchor of the tick and is answered for by that decision's entry.
LEMMA AnchorKeepsRecord ==
    ASSUME IInv, decision.tick = tickCount, decision.type \in {"ACCEPT", "MODIFY"},
           AnchorAt(decision.target), UNCHANGED <<decision, audit>>
    PROVE  AnchorsOfDecision' /\ AnchorsAreAudited' /\ OneManeuverPerTick'
<1> DEFINE new == [aircraft |-> decision.target, tick |-> tickCount]
<1>1. /\ anchors' = anchors \cup {new}
      /\ anchors \in SUBSET [aircraft : Aircraft, tick : Nat]
      /\ tickCount \in Nat
      /\ audit \in Seq(Entries)
  BY DEF AnchorAt, IInv, TypeOK
<1>2. AnchorsOfDecision'
  BY <1>1 DEF IInv, AnchorsOfDecision
<1>3. AnchorsAreAudited'
  <2>1. /\ decision.revision \in DOMAIN audit
        /\ audit[decision.revision].at = tickCount
        /\ audit[decision.revision].type # "REJECT"
    BY <1>1, LenProperties DEF IInv, DecisionRecorded, Never
  <2>2. QED
    BY <1>1, <2>1 DEF IInv, AnchorsAreAudited
<1>4. \A m \in anchors : m.tick = tickCount => m = new
  BY <1>1 DEF IInv, AnchorsOfDecision
<1>5. OneManeuverPerTick'
  BY <1>1, <1>4 DEF IInv, OneManeuverPerTick
<1>6. QED
  BY <1>2, <1>3, <1>5

\* What every application does to the rest of the chain's state.
FlightFrame ==
    /\ UNCHANGED <<tickCount, clockState, lastSlot, step, resolution, published>>
    /\ UNCHANGED <<decision, audit, revalidation>>

\* A run after an application yields grades, and a typed queue.
LEMMA PostApplyType ==
    ASSUME TypeOK, NEW t, NEW v, NEW r \in PostApplyRun(t, v), queue' = Refreshed(queue, r)
    PROVE  r \in [Pairs -> Grades] /\ queue' \in [Pairs -> Grades]
BY RiskRunType, RefreshedType DEF PostApplyRun, TypeOK

\* The result of an application is typed (ApplicationResult).
LEMMA ApplicationType ==
    ASSUME TypeOK, NEW pair \in PairOrNone, NEW target \in Targets, NEW r
    PROVE  ApplicationResult(pair, target, r) \in Applications
BY DEF ApplicationResult, Applications, TypeOK, TickOrNever, Clear

\* Applying an accepted manoeuvre preserves the inductive invariant.
LEMMA ApplyKeepsIInv ==
    ASSUME IInv, ApplyAndRevalidate \/ ApplyWithoutEvidence
    PROVE  IInv'
<1>1. TypeOK
  BY DEF IInv
<1>2. /\ decision.type = "ACCEPT" /\ decision.tick = tickCount
      /\ AnchorAt(decision.target)
  BY DEF ApplyAndRevalidate, ApplyWithoutEvidence, ApprovedGuard, Contemporaneous
<1>3. FlightFrame /\ modApplication' = modApplication
  BY DEF ApplyAndRevalidate, ApplyWithoutEvidence, FlightFrame, clockVars, reviewVars
<1>4. PICK r \in PostApplyRun(tickCount, decision.set) :
         /\ queue' = Refreshed(queue, r)
         /\ \/ application' = ApplicationResult(resolution.pair, decision.target, r)
            \/ application' = application
  BY DEF ApplyAndRevalidate, ApplyWithoutEvidence
<1>5. application' \in Applications /\ application'.tick \in {application.tick, tickCount}
  BY <1>1, <1>4, ApplicationType DEF TypeOK, ApplicationResult
<1>6. TypeOK'
  <2>1. queue' \in [Pairs -> Grades]
    BY <1>1, <1>4, PostApplyType
  <2>2. anchors' \in SUBSET [aircraft : Aircraft, tick : Nat]
    BY <1>1, <1>2 DEF AnchorAt, TypeOK
  <2>3. QED
    BY <1>1, <1>3, <1>5, <2>1, <2>2 DEF FlightFrame, TypeOK
<1>7. EvidenceInOrder'
  BY <1>1, <1>2, <1>3, <1>5 DEF IInv, EvidenceInOrder, FlightFrame, TypeOK, Applications,
     TickOrNever, Never
<1>8. AnchorsOfDecision' /\ AnchorsAreAudited' /\ OneManeuverPerTick'
  BY <1>2, <1>3, AnchorKeepsRecord DEF FlightFrame
<1>9. DecisionRecorded' /\ RevalidationOfDecision' /\ ModifiedFlightIsClear'
  BY <1>3 DEF IInv, FlightFrame, DecisionRecorded, RevalidationOfDecision,
     ModifiedFlightIsClear
<1>10. QED
  BY <1>6, <1>7, <1>8, <1>9 DEF IInv

\* Applying a modified manoeuvre preserves the inductive invariant: the
\* verdict it flies under is of this tick, so the traffic is clear.
LEMMA AuthorizeKeepsIInv ==
    ASSUME IInv, AuthorizeApplyAndRevalidate
    PROVE  IInv'
<1>1. TypeOK
  BY DEF IInv
<1>2. /\ revalidation.tick = tickCount /\ revalidation.tick = step.tick
      /\ AnchorAt(revalidation.target)
  BY DEF AuthorizeApplyAndRevalidate, Contemporaneous
<1>3. FlightFrame /\ application' = application
  BY DEF AuthorizeApplyAndRevalidate, FlightFrame, clockVars, reviewVars
<1>4. PICK r \in PostApplyRun(tickCount, tickCount) :
         /\ queue' = Refreshed(queue, r)
         /\ modApplication' = ApplicationResult(revalidation.pair, revalidation.target, r)
  BY <1>2 DEF AuthorizeApplyAndRevalidate
<1>5. modApplication' \in Applications /\ modApplication'.tick = tickCount
  BY <1>1, <1>4, ApplicationType DEF TypeOK, ApplicationResult
<1>6. tickCount \in Nat /\ decision.tick \in TickOrNever /\ step.tick \in TickOrNever
  BY <1>1 DEF TypeOK
<1>7. decision.tick = tickCount
  BY <1>2, <1>6 DEF IInv, EvidenceInOrder, TickOrNever, Never
<1>8. decision.type = "MODIFY" /\ decision.target = revalidation.target
  <2>1. revalidation.tick # Never
    BY <1>2, <1>6 DEF Never
  <2>2. revalidation.tick = decision.tick
    BY <1>2, <1>7
  <2>3. QED
    BY <2>1, <2>2 DEF IInv, RevalidationOfDecision
<1>9. TypeOK'
  <2>1. queue' \in [Pairs -> Grades]
    BY <1>1, <1>4, PostApplyType
  <2>2. anchors' \in SUBSET [aircraft : Aircraft, tick : Nat]
    <3>1. /\ anchors \in SUBSET [aircraft : Aircraft, tick : Nat]
          /\ revalidation.target \in Aircraft
          /\ anchors' = anchors \cup {[aircraft |-> revalidation.target, tick |-> tickCount]}
      BY <1>1, <1>2 DEF AnchorAt, TypeOK
    <3>2. QED
      BY <1>6, <3>1
  <2>3. QED
    BY <1>1, <1>3, <1>5, <2>1, <2>2 DEF FlightFrame, TypeOK
<1>10. EvidenceInOrder'
  BY <1>2, <1>3, <1>5 DEF IInv, EvidenceInOrder, FlightFrame
<1>11. AnchorsOfDecision' /\ AnchorsAreAudited' /\ OneManeuverPerTick'
  BY <1>2, <1>3, <1>7, <1>8, AnchorKeepsRecord DEF FlightFrame
<1>12. ModifiedFlightIsClear'
  BY <1>4 DEF ModifiedFlightIsClear, ApplicationResult, PostApplyRun
<1>13. DecisionRecorded' /\ RevalidationOfDecision'
  BY <1>3 DEF IInv, FlightFrame, DecisionRecorded, RevalidationOfDecision
<1>14. QED
  BY <1>9, <1>10, <1>11, <1>12, <1>13 DEF IInv

-----------------------------------------------------------------------------
(* The calls as review steps.                                               *)

\* The clock's own operations change neither evidence nor decisions.
LEMMA ClockIsReview ==
    ASSUME IInv, Play \/ Pause \/ \E n \in 1 .. MaxStep : Tick(n)
    PROVE  TypeOK' /\ ReviewStep
<1>1. TypeOK
  BY DEF IInv
<1>2. /\ UNCHANGED <<lastSlot, queue, step, resolution, published, decision, audit>>
      /\ UNCHANGED <<revalidation, application, modApplication, anchors>>
  BY DEF Play, Pause, Tick, reviewVars, flightVars
<1>3. /\ tickCount' \in Nat /\ tickCount' >= tickCount
      /\ clockState' \in {"READY", "RUNNING", "PAUSED"}
  <2>1. tickCount \in Nat /\ clockState \in {"READY", "RUNNING", "PAUSED"}
    BY <1>1 DEF TypeOK
  <2>2. CASE Play \/ Pause
    BY <2>1, <2>2 DEF Play, Pause
  <2>3. CASE \E n \in 1 .. MaxStep : Tick(n)
    BY <2>1, <2>3, TimeAssumption DEF Tick
  <2>4. QED
    BY <2>2, <2>3
<1>4. TypeOK'
  BY <1>1, <1>2, <1>3 DEF TypeOK
<1>5. QED
  BY <1>2, <1>3, <1>4 DEF ReviewStep

\* A Step brings time and evidence forward together.
LEMMA StepIsReview ==
    ASSUME IInv, NEW n \in Nat, StepAt(tickCount + n),
           clockState' \in {"READY", "RUNNING", "PAUSED"}, UNCHANGED <<reviewVars, flightVars>>
    PROVE  TypeOK' /\ ReviewStep
<1>1. TypeOK /\ tickCount \in Nat /\ tickCount + n \in Nat
  BY DEF IInv, TypeOK
<1>2. /\ tickCount' = tickCount + n
      /\ lastSlot' \in TickOrNever
      /\ queue' \in [Pairs -> Grades]
      /\ step' \in StepType
      /\ step'.tick = tickCount + n
  BY <1>1, StepAtType
<1>3. /\ UNCHANGED <<resolution, published, decision, audit>>
      /\ UNCHANGED <<revalidation, application, modApplication, anchors>>
  BY DEF reviewVars, flightVars
<1>4. TypeOK'
  BY <1>1, <1>2, <1>3 DEF TypeOK, StepType
<1>5. QED
  BY <1>1, <1>2, <1>3, <1>4 DEF ReviewStep

\* A Resolution is a review step.
LEMMA ResolveIsReview ==
    ASSUME IInv, Resolve
    PROVE  TypeOK' /\ ReviewStep
<1>1. TypeOK /\ tickCount \in Nat
  BY DEF IInv, TypeOK
<1>2. /\ UNCHANGED <<tickCount, clockState, lastSlot, queue, step, decision, audit>>
      /\ UNCHANGED <<revalidation, application, modApplication, anchors>>
  BY DEF Resolve, clockVars, flightVars
<1>3. resolution' \in ResolutionType /\ published' \in SUBSET Nat
  BY <1>1, ResolveAtType DEF Resolve
<1>4. TypeOK'
  BY <1>1, <1>2, <1>3 DEF TypeOK, ResolutionType
<1>5. ResolveAt(tickCount', step')
  BY <1>2 DEF Resolve, ResolveAt
<1>6. QED
  BY <1>1, <1>2, <1>4, <1>5 DEF ReviewStep

\* A decision through the orchestrator is a review step.
LEMMA DecideIsReview ==
    ASSUME IInv, NEW type \in Types, Decide(type)
    PROVE  TypeOK' /\ ReviewStep
<1>1. TypeOK /\ tickCount \in Nat
  BY DEF IInv, TypeOK
<1>2. /\ UNCHANGED <<tickCount, clockState, lastSlot, queue, step, resolution, published>>
      /\ UNCHANGED <<revalidation, application, modApplication, anchors>>
  BY DEF Decide, clockVars, flightVars
<1>3. decision' \in DecisionType /\ audit' \in Seq(Entries)
  BY <1>1, DecideAtType DEF Decide
<1>4. TypeOK'
  BY <1>1, <1>2, <1>3 DEF TypeOK, DecisionType
<1>5. DecideAt(tickCount', step', type)
  BY <1>2 DEF Decide, DecideAt, DecisionDue
<1>6. QED
  BY <1>1, <1>2, <1>4, <1>5 DEF ReviewStep

\* So is a decision submitted past the orchestrator.
LEMMA SubmitIsReview ==
    ASSUME IInv, NEW set \in published, NEW type \in Types, NEW at \in 0 .. MaxTick,
           Submit(set, type, at)
    PROVE  TypeOK' /\ ReviewStep
<1> DEFINE entry == [set |-> set, type |-> type, at |-> at]
<1>1. TypeOK /\ tickCount \in Nat /\ published \in SUBSET Nat
  BY DEF IInv, TypeOK
<1>2. entry \in Entries
  BY <1>1, TimeAssumption DEF Entries
<1>3. /\ UNCHANGED <<tickCount, clockState, lastSlot, queue, step, resolution, published>>
      /\ UNCHANGED <<decision, revalidation, application, modApplication, anchors>>
      /\ audit' = Append(audit, entry)
  BY DEF Submit, clockVars, flightVars
<1>4. audit' \in Seq(Entries)
  BY <1>1, <1>2, <1>3, AppendProperties DEF TypeOK
<1>5. TypeOK'
  BY <1>1, <1>3, <1>4 DEF TypeOK
<1>6. QED
  BY <1>1, <1>2, <1>3, <1>5 DEF ReviewStep

-----------------------------------------------------------------------------
(* The theorems.                                                            *)

\* A run starts, and after a reset starts again, in the invariant.
LEMMA InitIInv == Init => IInv
<1> SUFFICES ASSUME Init PROVE IInv
  OBVIOUS
<1>1. TypeOK
  <2>1. audit \in Seq(Entries)
    BY EmptySeq DEF Init
  <2>2. QED
    BY <2>1 DEF Init, TypeOK, TickOrNever, Grades, NoItem, Unassessed, Never, NoStep,
       NoResolution, NoDecision, NoRevalidation, NoApplication, Targets, PairOrNone,
       Applications
<1>2. EvidenceInOrder
  BY DEF Init, EvidenceInOrder, Never, NoStep, NoResolution, NoDecision, NoRevalidation,
     NoApplication
<1>3. DecisionRecorded /\ RevalidationOfDecision
  BY DEF Init, DecisionRecorded, RevalidationOfDecision, NoDecision, NoRevalidation
<1>4. AnchorsOfDecision /\ AnchorsAreAudited /\ OneManeuverPerTick
  BY DEF Init, AnchorsOfDecision, AnchorsAreAudited, OneManeuverPerTick
<1>5. ModifiedFlightIsClear
  BY DEF Init, ModifiedFlightIsClear, NoApplication
<1>6. QED
  BY <1>1, <1>2, <1>3, <1>4, <1>5 DEF IInv

\* A reset leads back to it (RESET of the shared clock).
LEMMA ResetKeepsIInv == Reset => IInv'
<1>1. Reset => Init'
  BY DEF Reset, Init
<1>2. QED
  BY <1>1, InitIInv, PTL

\* Every call preserves the inductive invariant.
LEMMA NextKeepsIInv ==
    ASSUME IInv, [Next]_vars
    PROVE  IInv'
<1>1. CASE Play \/ Pause \/ \E n \in 1 .. MaxStep : Tick(n)
  BY <1>1, ClockIsReview, ReviewKeepsIInv
<1>2. CASE Reset
  BY <1>2, ResetKeepsIInv
<1>3. CASE \E n \in 0 .. MaxStep : Step(n)
  <2>1. PICK n \in Nat : Step(n)
    BY <1>3, TimeAssumption
  <2>2. clockState' \in {"READY", "RUNNING", "PAUSED"}
    BY <2>1 DEF Step
  <2>3. TypeOK' /\ ReviewStep
    BY <2>1, <2>2, StepIsReview DEF Step
  <2>4. QED
    BY <2>3, ReviewKeepsIInv
<1>4. CASE Resolve
  BY <1>4, ResolveIsReview, ReviewKeepsIInv
<1>5. CASE \E type \in Types : Decide(type)
  BY <1>5, DecideIsReview, ReviewKeepsIInv
<1>6. CASE \E set \in published, type \in Types, at \in 0 .. MaxTick : Submit(set, type, at)
  BY <1>6, SubmitIsReview, ReviewKeepsIInv
<1>7. CASE Revalidate
  BY <1>7, RevalidateKeepsIInv
<1>8. CASE ApplyAndRevalidate \/ ApplyWithoutEvidence
  BY <1>8, ApplyKeepsIInv
<1>9. CASE AuthorizeApplyAndRevalidate
  BY <1>9, AuthorizeKeepsIInv
<1>10. CASE UNCHANGED vars
  BY <1>10 DEF vars, clockVars, reviewVars, flightVars, IInv, TypeOK, EvidenceInOrder,
     DecisionRecorded, RevalidationOfDecision, AnchorsOfDecision, AnchorsAreAudited,
     OneManeuverPerTick, ModifiedFlightIsClear
<1>11. QED
  BY <1>1, <1>2, <1>3, <1>4, <1>5, <1>6, <1>7, <1>8, <1>9, <1>10 DEF Next

\* The inductive invariant holds of every behaviour of the chain.
THEOREM Invariance == Spec => []IInv
BY InitIInv, NextKeepsIInv, PTL DEF Spec

\* Type correctness of the chain's state.
THEOREM TypeCorrectness == Spec => []TypeOK
<1>1. IInv => TypeOK
  BY DEF IInv
<1>2. QED
  BY <1>1, Invariance, PTL

\* No result is ahead of the evidence it rests on, nor of the clock.
THEOREM OrderedEvidence == Spec => []EvidenceInOrder
<1>1. IInv => EvidenceInOrder
  BY DEF IInv
<1>2. QED
  BY <1>1, Invariance, PTL

\* Every manoeuvre flown is answered for by an audited decision of its tick.
THEOREM AuditedAnchors == Spec => []AnchorsAreAudited
<1>1. IInv => AnchorsAreAudited
  BY DEF IInv
<1>2. QED
  BY <1>1, Invariance, PTL

\* No tick sees two manoeuvres.
THEOREM SingleManeuver == Spec => []OneManeuverPerTick
<1>1. IInv => OneManeuverPerTick
  BY DEF IInv
<1>2. QED
  BY <1>1, Invariance, PTL

\* A modified manoeuvre is flown into the traffic it was found SAFE in.
THEOREM ClearModification == Spec => []ModifiedFlightIsClear
<1>1. IInv => ModifiedFlightIsClear
  BY DEF IInv
<1>2. QED
  BY <1>1, Invariance, PTL

-----------------------------------------------------------------------------
(***************************************************************************)
(* Only what a controller decided flies: the chain's action property and   *)
(* its refinement of HumanAuthority, for every scenario, every bound and   *)
(* every order of calls.  Both follow from the inductive invariant above,  *)
(* one lemma per kind of step.                                             *)
(***************************************************************************)

Flight == ApplyAndRevalidate \/ ApplyWithoutEvidence \/ AuthorizeApplyAndRevalidate

NewAnchor == [aircraft |-> decision.target, tick |-> tickCount]

\* Whichever path a manoeuvre takes, it is the decided one, of this tick, it
\* is new, and its authority is the newest entry of the log.
LEMMA FlightIsAuthorised ==
    ASSUME IInv, Flight
    PROVE  /\ decision.tick = tickCount
           /\ decision.target \in Aircraft
           /\ \/ decision.type = "ACCEPT"
              \/ decision.type = "MODIFY" /\ revalidation.tick = tickCount
                 /\ revalidation.safe /\ revalidation.target = decision.target
           /\ NewAnchor \notin anchors
           /\ anchors' = anchors \cup {NewAnchor}
           /\ AuditCurrent
           /\ UNCHANGED <<tickCount, decision, revalidation>>
<1>1. TypeOK /\ tickCount \in Nat
  BY DEF IInv, TypeOK
<1>2. CASE ApplyAndRevalidate \/ ApplyWithoutEvidence
  <2>1. ApprovedGuard /\ AnchorAt(decision.target)
    BY <1>2 DEF ApplyAndRevalidate, ApplyWithoutEvidence
  <2>2. decision.tick = tickCount /\ decision.type = "ACCEPT" /\ AuditCurrent
    BY <2>1 DEF ApprovedGuard, Contemporaneous
  <2>3. UNCHANGED <<tickCount, decision, revalidation>>
    BY <1>2 DEF ApplyAndRevalidate, ApplyWithoutEvidence, clockVars, reviewVars
  <2>4. QED
    BY <2>1, <2>2, <2>3 DEF AnchorAt, NewAnchor
<1>3. CASE AuthorizeApplyAndRevalidate
  <2>1. /\ revalidation.safe /\ AuditCurrent
        /\ revalidation.tick = tickCount /\ revalidation.tick = step.tick
        /\ AnchorAt(revalidation.target)
    BY <1>3 DEF AuthorizeApplyAndRevalidate, Validated, Contemporaneous
  <2>2. UNCHANGED <<tickCount, decision, revalidation>>
    BY <1>3 DEF AuthorizeApplyAndRevalidate, clockVars, reviewVars
  <2>3. decision.tick \in TickOrNever /\ step.tick \in TickOrNever
    BY <1>1 DEF TypeOK
  <2>4. decision.tick = tickCount
    BY <1>1, <2>1, <2>3 DEF IInv, EvidenceInOrder, TickOrNever, Never
  <2>5. decision.type = "MODIFY" /\ revalidation.target = decision.target
    <3>1. tickCount # Never
      BY <1>1 DEF Never
    <3>2. QED
      BY <2>1, <2>4, <3>1 DEF IInv, RevalidationOfDecision
  <2>6. AnchorAt(decision.target)
    BY <2>1, <2>5
  <2>7. QED
    BY <2>1, <2>2, <2>4, <2>5, <2>6 DEF AnchorAt, NewAnchor
<1>4. QED
  BY <1>2, <1>3 DEF Flight

\* A flight answers to the newest decision, made at its own tick.
LEMMA FlightHasAuthority ==
    ASSUME IInv, Flight
    PROVE  \A m \in anchors' \ anchors : Authority(m.aircraft, m.tick)
<1>1. /\ decision.tick = tickCount /\ tickCount \in Nat
      /\ decision.revision = Len(audit)
      /\ audit \in Seq(Entries)
  BY FlightIsAuthorised DEF AuditCurrent, IInv, TypeOK
<1>2. /\ Len(audit) \in 1 .. Len(audit)
      /\ audit[Len(audit)].at = tickCount
      /\ audit[Len(audit)].type = decision.type
  BY <1>1 DEF IInv, DecisionRecorded, Never
<1>3. audit # << >>
  BY <1>1, <1>2, EmptySeq
<1>4. Authority(decision.target, tickCount)
  BY <1>1, <1>2, <1>3, FlightIsAuthorised DEF Authority
<1>5. QED
  BY <1>4, FlightIsAuthorised DEF NewAnchor

\* Every call is a review step, a revalidation, a flight or a reset.
LEMMA NextCases ==
    ASSUME IInv, Next
    PROVE  (ReviewStep /\ TypeOK') \/ Revalidate \/ Flight \/ Reset
<1>1. CASE Play \/ Pause \/ \E n \in 1 .. MaxStep : Tick(n)
  BY <1>1, ClockIsReview
<1>2. CASE \E n \in 0 .. MaxStep : Step(n)
  <2>1. PICK n \in Nat : Step(n)
    BY <1>2, TimeAssumption
  <2>2. clockState' \in {"READY", "RUNNING", "PAUSED"}
    BY <2>1 DEF Step
  <2>3. QED
    BY <2>1, <2>2, StepIsReview DEF Step
<1>3. CASE Resolve
  BY <1>3, ResolveIsReview
<1>4. CASE \E type \in Types : Decide(type)
  BY <1>4, DecideIsReview
<1>5. CASE \E set \in published, type \in Types, at \in 0 .. MaxTick : Submit(set, type, at)
  BY <1>5, SubmitIsReview
<1>6. QED
  BY <1>1, <1>2, <1>3, <1>4, <1>5 DEF Next, Flight

\* Only a flight sets an anchor, and only with its authority.
LEMMA StepIsAuthorised ==
    ASSUME IInv, (ReviewStep /\ TypeOK') \/ Revalidate \/ Flight \/ Reset
    PROVE  \A m \in anchors' \ anchors : Authority(m.aircraft, m.tick)
BY FlightHasAuthority DEF ReviewStep, Revalidate, Reset

\* No aircraft is given a motion anchor without the controller's authority of
\* that very tick (apply_and_revalidate, authorize_apply_and_revalidate).
THEOREM AuthorisedAnchors == Spec => OnlyAuthorisedAnchors
<1>1. IInv /\ [Next]_vars => [\A m \in anchors' \ anchors : Authority(m.aircraft, m.tick)]_vars
  BY NextCases, StepIsAuthorised
<1>2. QED
  BY <1>1, Invariance, PTL DEF Spec, OnlyAuthorisedAnchors

-----------------------------------------------------------------------------
(* The refinement, one lemma per kind of step.                              *)

\* A review step grants the decided aircraft its manoeuvre if it accepts;
\* any other decision only withdraws what was granted before.
LEMMA DecisionOnlyGrants ==
    ASSUME IInv, ReviewStep, TypeOK'
    PROVE  HA!Next
<1>1. /\ tickCount' \in Nat /\ tickCount' >= tickCount
      /\ anchors' = anchors /\ revalidation' = revalidation
  BY DEF ReviewStep
<1>2. CASE UNCHANGED decision
  <2>1. Granted' = Granted
    BY <1>1, <1>2 DEF Granted
  <2>2. QED
    BY <1>1, <2>1 DEF HA!Next, HA!Elapse
<1>3. ASSUME NEW type \in Types, DecideAt(tickCount', step', type)
      PROVE  HA!Next
  <2>1. /\ decision'.tick = tickCount' /\ decision'.type = type
        /\ decision'.target = resolution.target
    <3>1. decision' = [tick |-> tickCount', type |-> type, set |-> resolution.tick,
                       pair |-> resolution.pair, target |-> resolution.target,
                       revision |-> Len(audit) + 1]
      BY <1>3 DEF DecideAt
    <3>2. QED
      BY <3>1
  <2>2. /\ resolution.target \in Targets /\ resolution.target # NoAircraft
        /\ revalidation.tick \in TickOrNever /\ decision.tick \in TickOrNever
        /\ step.tick \in TickOrNever /\ tickCount \in Nat
    BY <1>3 DEF IInv, TypeOK, DecideAt
  <2>3. revalidation'.tick # decision'.tick
    <3>1. /\ decision.tick # tickCount' /\ decision.tick <= step.tick
          /\ step.tick <= tickCount /\ revalidation.tick <= decision.tick
      BY <1>3 DEF DecideAt, DecisionDue, IInv, EvidenceInOrder
    <3>2. QED
      BY <1>1, <2>1, <2>2, <3>1 DEF TickOrNever, Never
  <2>4. CASE type = "ACCEPT"
    <3>1. Granted' = {[aircraft |-> resolution.target, tick |-> tickCount']}
      BY <2>1, <2>4 DEF Granted
    <3>2. HA!Grant(resolution.target)
      BY <1>1, <3>1 DEF HA!Grant
    <3>3. resolution.target \in Aircraft
      BY <2>2 DEF Targets
    <3>4. QED
      BY <3>2, <3>3 DEF HA!Next
  <2>5. CASE type # "ACCEPT"
    <3>1. Granted' = {}
      BY <2>1, <2>3, <2>5 DEF Granted
    <3>2. QED
      BY <1>1, <3>1 DEF HA!Next, HA!Elapse
  <2>6. QED
    BY <2>4, <2>5
<1>4. QED
  BY <1>2, <1>3 DEF ReviewStep

\* A revalidation grants the modified manoeuvre if it found it SAFE.
LEMMA RevalidationOnlyGrants ==
    ASSUME IInv, Revalidate
    PROVE  HA!Next
<1>1. PICK safe \in BOOLEAN :
         revalidation' = [tick |-> tickCount, safe |-> safe,
                          pair |-> resolution.pair, target |-> decision.target]
  BY DEF Revalidate
<1>2. /\ tickCount' = tickCount /\ decision' = decision /\ anchors' = anchors
      /\ tickCount \in Nat
  BY DEF Revalidate, clockVars, reviewVars, IInv, TypeOK
<1>3. decision.type = "MODIFY" /\ decision.tick = tickCount
  BY DEF Revalidate, Contemporaneous
<1>4. decision.target \in Aircraft
  BY AircraftAssumption DEF Revalidate, IInv, TypeOK, PairOrNone
<1>5. CASE safe
  <2>1. Granted' = {[aircraft |-> decision.target, tick |-> tickCount']}
    BY <1>1, <1>2, <1>3, <1>5 DEF Granted
  <2>2. HA!Grant(decision.target)
    BY <1>2, <2>1 DEF HA!Grant
  <2>3. QED
    BY <1>4, <2>2 DEF HA!Next
<1>6. CASE ~safe
  <2>1. Granted' = {}
    BY <1>1, <1>2, <1>3, <1>6 DEF Granted
  <2>2. QED
    BY <1>2, <2>1 DEF HA!Next, HA!Elapse
<1>7. QED
  BY <1>5, <1>6

\* A flight uses the grant in force, at its instant, for the first time.
LEMMA FlightFlies ==
    ASSUME IInv, Flight
    PROVE  HA!Next
<1>1. /\ decision.tick = tickCount
      /\ anchors' = anchors \cup {NewAnchor}
      /\ NewAnchor \notin anchors
      /\ tickCount' = tickCount /\ Granted' = Granted
  BY FlightIsAuthorised DEF Granted
<1>2. NewAnchor \in Granted
  BY FlightIsAuthorised DEF Granted, NewAnchor
<1>3. \A m \in anchors : m.tick # tickCount
  <2>1. SUFFICES ASSUME NEW m \in anchors, m.tick = tickCount PROVE FALSE
    OBVIOUS
  <2>2. m.aircraft = decision.target /\ m \in [aircraft : Aircraft, tick : Nat]
    BY <1>1, <2>1 DEF IInv, AnchorsOfDecision, TypeOK
  <2>3. m = NewAnchor
    BY <2>1, <2>2 DEF NewAnchor
  <2>4. QED
    BY <1>1, <2>3
<1>4. HA!Fly(NewAnchor)
  BY <1>1, <1>2, <1>3 DEF HA!Fly, NewAnchor
<1>5. QED
  BY <1>2, <1>4 DEF HA!Next

\* A reset is a new run.
LEMMA ResetIsNewRun ==
    ASSUME Reset
    PROVE  HA!Next
BY DEF Reset, Granted, NoDecision, HA!Next, HA!NewRun

\* The chain implements HumanAuthority.
THEOREM Refinement == Spec => ImplementsHumanAuthority
<1>1. Init => HA!Init
  BY DEF Init, HA!Init, Granted, NoDecision
<1>2. IInv /\ [Next]_vars => [HA!Next]_(HA!haVars)
  <2>1. CASE IInv /\ Next
    BY <2>1, NextCases, DecisionOnlyGrants, RevalidationOnlyGrants, FlightFlies, ResetIsNewRun
  <2>2. CASE UNCHANGED vars
    BY <2>2 DEF vars, clockVars, reviewVars, flightVars, Granted, HA!haVars
  <2>3. QED
    BY <2>1, <2>2
<1>3. QED
  BY <1>1, <1>2, Invariance, PTL DEF Spec, ImplementsHumanAuthority, HA!Spec

-----------------------------------------------------------------------------
(* The session: the chain driven by commands.                               *)

\* An application of a decision of this type, flown by the decided aircraft.
FlownBy(result, type) ==
    /\ decision.type = type
    /\ result.tick = decision.tick
    /\ result.target = decision.target
    /\ [aircraft |-> result.target, tick |-> result.tick] \in anchors

\* What the stage guards make of a run: one Resolution, one decision about
\* it, one manoeuvre under that decision.
SessionInv ==
    /\ decision.tick = Never => Len(audit) = 0
    /\ decision.tick # Never =>
          /\ Len(audit) = 1
          /\ resolution.tick # Never
          /\ decision.pair = resolution.pair
    /\ \A m \in anchors : m.tick = decision.tick
    /\ application.tick # Never =>
          /\ FlownBy(application, "ACCEPT")
          /\ application.pair = decision.pair
    /\ modApplication.tick # Never => FlownBy(modApplication, "MODIFY")

SInv == IInv /\ SessionInv

-----------------------------------------------------------------------------
(* What the stages say of the results.                                      *)

\* The stages before a decision: none is held, and nothing was applied.
LEMMA UndecidedStages ==
    ASSUME TypeOK, Stage \in {"CONFLICT_DETECTED", "RECOMMENDATION_AVAILABLE"}
    PROVE  /\ decision.type = "NONE"
           /\ resolution.tick = Never <=> Stage = "CONFLICT_DETECTED"
           /\ ~Applied
<1>1. decision.type \in Types \cup {"NONE"}
  BY DEF TypeOK
<1>2. QED
  BY <1>1 DEF Stage, Types

\* The stages a manoeuvre may be flown from: none has been in this run.
LEMMA UnappliedStages ==
    ASSUME Stage \in {"DECISION_ACCEPTED", "DECISION_MODIFIED", "MODIFICATION_REVALIDATED"}
    PROVE  ~Applied
BY DEF Stage

-----------------------------------------------------------------------------
(* The commands as steps of the chain.                                      *)

\* A command that makes a Step and nothing else, and the drift of the clock.
ClockCommand ==
    /\ ReviewStep /\ TypeOK'
    /\ UNCHANGED <<reviewVars, flightVars>>

\* A command that resolves or decides: no decision was held before it.
ReviewCommand ==
    /\ ReviewStep /\ TypeOK'
    /\ decision.type = "NONE"
    /\ UNCHANGED flightVars
    /\ \/ UNCHANGED <<decision, audit>>
       \/ /\ UNCHANGED resolution
          /\ resolution.tick # Never
          /\ \E type \in Types : DecideAt(tickCount', step', type)

\* A command that flies a manoeuvre: none was flown to its end before it.
FlightCommand == Flight /\ ~Applied

\* A Step made by a command is a Step of the chain.
LEMMA StepCommand ==
    ASSUME IInv, NEW n \in Nat, StepAt(tickCount + n),
           clockState' \in {"READY", "RUNNING", "PAUSED"}, UNCHANGED <<reviewVars, flightVars>>
    PROVE  ClockCommand
BY StepIsReview DEF ClockCommand

\* GENERATE_RECOMMENDATION makes a Step and resolves on it.
LEMMA GenerateIsReview ==
    ASSUME IInv, GenerateRecommendation
    PROVE  ReviewCommand
<1>1. /\ TypeOK /\ tickCount \in Nat
      /\ tickCount + GenerateSteps \in Nat /\ tickCount + GenerateSteps >= tickCount
  BY SessionAssumption DEF IInv, TypeOK
<1>2. /\ StepAt(tickCount + GenerateSteps)
      /\ ResolveAt(tickCount', step')
      /\ UNCHANGED <<clockState, decision, audit>>
      /\ UNCHANGED flightVars
      /\ Stage = "CONFLICT_DETECTED"
  BY DEF GenerateRecommendation, StepThen, Checkpoint
<1>3. /\ tickCount' = tickCount + GenerateSteps
      /\ lastSlot' \in TickOrNever
      /\ queue' \in [Pairs -> Grades]
      /\ step' \in StepType
      /\ step'.tick = tickCount'
  BY <1>1, <1>2, StepAtType
<1>4. resolution' \in ResolutionType /\ published' \in SUBSET Nat
  BY <1>1, <1>2, <1>3, ResolveAtType
<1>5. UNCHANGED <<revalidation, application, modApplication, anchors>>
  BY <1>2 DEF flightVars
<1>6. TypeOK'
  BY <1>1, <1>2, <1>3, <1>4, <1>5 DEF TypeOK, StepType, ResolutionType
<1>7. ReviewStep
  BY <1>1, <1>2, <1>3, <1>5 DEF ReviewStep
<1>8. decision.type = "NONE"
  BY <1>1, <1>2, UndecidedStages
<1>9. QED
  BY <1>2, <1>6, <1>7, <1>8 DEF ReviewCommand

\* ACCEPT, MODIFY and REJECT make a Step and record the decision on it.
LEMMA DecideCommandIsReview ==
    ASSUME IInv, NEW type \in Types, DecideRecommendation(type)
    PROVE  ReviewCommand
<1>1. /\ TypeOK /\ tickCount \in Nat
      /\ tickCount + DecisionSteps \in Nat /\ tickCount + DecisionSteps >= tickCount
  BY SessionAssumption DEF IInv, TypeOK
<1>2. /\ StepAt(tickCount + DecisionSteps)
      /\ DecideAt(tickCount', step', type)
      /\ UNCHANGED <<clockState, resolution, published>>
      /\ UNCHANGED flightVars
      /\ Stage = "RECOMMENDATION_AVAILABLE"
  BY DEF DecideRecommendation, StepThen, Checkpoint
<1>3. /\ tickCount' = tickCount + DecisionSteps
      /\ lastSlot' \in TickOrNever
      /\ queue' \in [Pairs -> Grades]
      /\ step' \in StepType
      /\ step'.tick = tickCount'
  BY <1>1, <1>2, StepAtType
<1>4. decision' \in DecisionType /\ audit' \in Seq(Entries)
  BY <1>1, <1>2, <1>3, DecideAtType
<1>5. UNCHANGED <<revalidation, application, modApplication, anchors>>
  BY <1>2 DEF flightVars
<1>6. TypeOK'
  BY <1>1, <1>2, <1>3, <1>4, <1>5 DEF TypeOK, StepType, DecisionType
<1>7. ReviewStep
  BY <1>1, <1>2, <1>3, <1>5 DEF ReviewStep
<1>8. decision.type = "NONE" /\ resolution.tick # Never
  BY <1>1, <1>2, UndecidedStages
<1>9. QED
  BY <1>2, <1>6, <1>7, <1>8 DEF ReviewCommand

\* Every command is one of these, a revalidation or a reset.
LEMMA CommandCases ==
    ASSUME IInv, SessionNext
    PROVE  ClockCommand \/ ReviewCommand \/ Revalidate \/ FlightCommand \/ Reset
<1>1. /\ tickCount + 0 = tickCount /\ tickCount \in Nat
      /\ clockState \in {"READY", "RUNNING", "PAUSED"}
  BY DEF IInv, TypeOK
<1>2. CASE Start
  BY <1>1, <1>2, StepCommand DEF Start
<1>3. CASE \E n \in 1 .. MaxAdvance : Advance(n)
  <2>1. PICK n \in Nat : Advance(n)
    BY <1>3, SessionAssumption
  <2>2. QED
    BY <2>1, StepCommand DEF Advance
<1>4. CASE AdvanceToConflict
  BY <1>1, <1>4, StepCommand, SessionAssumption DEF AdvanceToConflict, Step
<1>5. CASE GenerateRefused
  BY <1>1, <1>5, StepCommand, SessionAssumption DEF GenerateRefused, StepThen
<1>6. CASE DecideRefused
  BY <1>1, <1>6, StepCommand, SessionAssumption DEF DecideRefused, StepThen
<1>7. CASE GenerateRecommendation
  BY <1>7, GenerateIsReview
<1>8. CASE \E type \in Types : DecideRecommendation(type)
  BY <1>8, DecideCommandIsReview
<1>9. CASE RevalidateModifiedManeuver
  BY <1>9 DEF RevalidateModifiedManeuver
<1>10. CASE ApplyValidatedModifiedManeuver \/ ApplyApprovedManeuver \/ ApplyApprovedRefused
  <2>1. Flight
    BY <1>10 DEF ApplyValidatedModifiedManeuver, ApplyApprovedManeuver,
       ApplyApprovedRefused, Flight
  <2>2. ~Applied
    BY <1>10, UnappliedStages DEF ApplyValidatedModifiedManeuver, ApplyApprovedManeuver,
       ApplyApprovedRefused, Checkpoint
  <2>3. QED
    BY <2>1, <2>2 DEF FlightCommand
<1>11. CASE ClockDrift
  <2>1. UNCHANGED <<reviewVars, flightVars>>
    BY <1>11 DEF ClockDrift, Pause, Tick
  <2>2. QED
    BY <1>11, <2>1, ClockIsReview DEF ClockDrift, ClockCommand
<1>12. QED
  BY <1>2, <1>3, <1>4, <1>5, <1>6, <1>7, <1>8, <1>9, <1>10, <1>11 DEF SessionNext

-----------------------------------------------------------------------------
(* The session's invariant.                                                 *)

\* Every command preserves the invariant of the chain.
LEMMA CommandKeepsIInv ==
    ASSUME IInv, ClockCommand \/ ReviewCommand \/ Revalidate \/ FlightCommand \/ Reset
    PROVE  IInv'
<1>1. CASE ClockCommand \/ ReviewCommand
  BY <1>1, ReviewKeepsIInv DEF ClockCommand, ReviewCommand
<1>2. CASE Revalidate
  BY <1>2, RevalidateKeepsIInv
<1>3. CASE FlightCommand
  BY <1>3, ApplyKeepsIInv, AuthorizeKeepsIInv DEF FlightCommand, Flight
<1>4. CASE Reset
  BY <1>4, ResetKeepsIInv
<1>5. QED
  BY <1>1, <1>2, <1>3, <1>4

\* Before the decision of a run nothing is logged and nothing has flown.
LEMMA UndecidedRun ==
    ASSUME SInv, decision.type = "NONE"
    PROVE  /\ decision.tick = Never /\ Len(audit) = 0 /\ anchors = {}
           /\ application.tick = Never /\ modApplication.tick = Never
<1>1. decision.tick = Never
  BY DEF SInv, IInv, DecisionRecorded
<1>2. \A m \in anchors : m.tick \in Nat
  BY DEF SInv, IInv, TypeOK
<1>3. anchors = {}
  BY <1>1, <1>2 DEF SInv, SessionInv, Never
<1>4. QED
  BY <1>1, <1>3 DEF SInv, SessionInv, FlownBy

\* A review command of an undecided run leaves it undecided or decided once.
LEMMA ReviewCommandKeepsSessionInv ==
    ASSUME SInv, ReviewCommand
    PROVE  SessionInv'
<1>1. /\ decision.tick = Never /\ Len(audit) = 0 /\ anchors = {}
      /\ application.tick = Never /\ modApplication.tick = Never
  BY UndecidedRun DEF ReviewCommand
<1>2. anchors' = anchors /\ application' = application /\ modApplication' = modApplication
  BY DEF ReviewCommand, flightVars
<1>3. CASE UNCHANGED <<decision, audit>>
  BY <1>1, <1>2, <1>3 DEF SessionInv
<1>4. ASSUME NEW type \in Types, DecideAt(tickCount', step', type),
             UNCHANGED resolution, resolution.tick # Never
      PROVE  SessionInv'
  <2>1. TypeOK /\ tickCount' \in Nat
    BY DEF SInv, IInv, ReviewCommand, ReviewStep
  <2>2. Len(audit') = Len(audit) + 1
    BY <1>4, <2>1, DecideAtType
  <2>3. decision'.tick = tickCount' /\ decision'.pair = resolution.pair
    BY <1>4 DEF DecideAt
  <2>4. decision'.tick # Never
    BY <2>1, <2>3 DEF Never
  <2>5. QED
    BY <1>1, <1>2, <1>4, <2>2, <2>3, <2>4 DEF SessionInv
<1>5. QED
  BY <1>3, <1>4 DEF ReviewCommand

\* A flight of a run in which nothing was applied is that of its decision.
LEMMA FlightCommandKeepsSessionInv ==
    ASSUME SInv, FlightCommand
    PROVE  SessionInv'
<1>1. /\ Flight /\ IInv
      /\ application.tick = Never /\ modApplication.tick = Never
  BY DEF FlightCommand, Applied, SInv
<1>2. /\ decision.tick = tickCount /\ decision' = decision
      /\ anchors' = anchors \cup {NewAnchor}
  BY <1>1, FlightIsAuthorised
<1>3. audit' = audit /\ resolution' = resolution
  BY <1>1 DEF Flight, ApplyAndRevalidate, ApplyWithoutEvidence, AuthorizeApplyAndRevalidate,
     reviewVars
<1>4. tickCount # Never
  BY DEF SInv, IInv, TypeOK, Never
<1>5. \A m \in anchors' : m.tick = decision'.tick
  BY <1>2 DEF SInv, SessionInv, NewAnchor
<1>6. decision.pair = resolution.pair
  BY <1>2, <1>4 DEF SInv, SessionInv
<1>7. CASE ApplyAndRevalidate \/ ApplyWithoutEvidence
  <2>1. modApplication' = modApplication /\ decision.type = "ACCEPT"
    BY <1>7 DEF ApplyAndRevalidate, ApplyWithoutEvidence, ApprovedGuard
  <2>2. \/ application' = application
        \/ \E r : application' = ApplicationResult(resolution.pair, decision.target, r)
    BY <1>7 DEF ApplyAndRevalidate, ApplyWithoutEvidence
  <2>3. CASE application' = application
    BY <1>1, <1>2, <1>3, <1>5, <2>1, <2>3 DEF SInv, SessionInv
  <2>4. ASSUME NEW r, application' = ApplicationResult(resolution.pair, decision.target, r)
        PROVE  SessionInv'
    <3>1. /\ application'.tick = tickCount /\ application'.target = decision.target
          /\ application'.pair = resolution.pair
      BY <2>4 DEF ApplicationResult
    <3>2. FlownBy(application, "ACCEPT")'
      BY <1>2, <2>1, <3>1 DEF FlownBy, NewAnchor
    <3>3. QED
      BY <1>1, <1>2, <1>3, <1>5, <1>6, <2>1, <3>1, <3>2 DEF SInv, SessionInv
  <2>5. QED
    BY <2>2, <2>3, <2>4
<1>8. CASE AuthorizeApplyAndRevalidate
  <2>1. /\ application' = application
        /\ \E r : modApplication' =
                     ApplicationResult(revalidation.pair, revalidation.target, r)
    BY <1>8 DEF AuthorizeApplyAndRevalidate
  <2>2. /\ modApplication'.tick = tickCount
        /\ modApplication'.target = revalidation.target
    BY <2>1 DEF ApplicationResult
  <2>3. decision.type = "MODIFY" /\ revalidation.target = decision.target
    <3>1. revalidation.tick = tickCount
      BY <1>8 DEF AuthorizeApplyAndRevalidate, Contemporaneous
    <3>2. QED
      BY <1>1, <1>2, <1>4, <3>1 DEF IInv, RevalidationOfDecision
  <2>4. FlownBy(modApplication, "MODIFY")'
    BY <1>2, <2>2, <2>3 DEF FlownBy, NewAnchor
  <2>5. QED
    BY <1>1, <1>2, <1>3, <1>5, <2>1, <2>4 DEF SInv, SessionInv
<1>9. QED
  BY <1>1, <1>7, <1>8 DEF Flight

\* Every command preserves what the stage guards make of a run.
LEMMA CommandKeepsSessionInv ==
    ASSUME SInv, ClockCommand \/ ReviewCommand \/ Revalidate \/ FlightCommand \/ Reset
    PROVE  SessionInv'
<1>1. CASE ClockCommand
  BY <1>1 DEF ClockCommand, reviewVars, flightVars, SInv, SessionInv, FlownBy
<1>2. CASE ReviewCommand
  BY <1>2, ReviewCommandKeepsSessionInv
<1>3. CASE Revalidate
  BY <1>3 DEF Revalidate, reviewVars, SInv, SessionInv, FlownBy
<1>4. CASE FlightCommand
  BY <1>4, FlightCommandKeepsSessionInv
<1>5. CASE Reset
  <2>1. Len(audit') = 0
    BY <1>5, EmptySeq DEF Reset
  <2>2. QED
    BY <1>5, <2>1 DEF Reset, NoDecision, NoApplication, SessionInv
<1>6. QED
  BY <1>1, <1>2, <1>3, <1>4, <1>5

\* A session starts in its invariant.
LEMMA InitSInv == Init => SInv
<1>1. Init => Len(audit) = 0
  BY EmptySeq DEF Init
<1>2. QED
  BY <1>1, InitIInv DEF Init, SInv, SessionInv, NoDecision, NoApplication

\* Every step of a session preserves its invariant.
LEMMA SessionNextKeepsSInv ==
    ASSUME SInv, [SessionNext]_vars
    PROVE  SInv'
<1>1. CASE SessionNext
  BY <1>1, CommandCases, CommandKeepsIInv, CommandKeepsSessionInv DEF SInv
<1>2. CASE UNCHANGED vars
  <2>1. IInv'
    BY <1>2, NextKeepsIInv DEF SInv
  <2>2. SessionInv'
    BY <1>2 DEF vars, clockVars, reviewVars, flightVars, SInv, SessionInv, FlownBy
  <2>3. QED
    BY <2>1, <2>2 DEF SInv
<1>3. QED
  BY <1>1, <1>2

\* The session's invariant holds of every behaviour of a session.
THEOREM SessionInvariance == SessionSpec => []SInv
BY InitSInv, SessionNextKeepsSInv, PTL DEF SessionSpec

\* Type correctness of a session.
THEOREM SessionTypeCorrectness == SessionSpec => []TypeOK
<1>1. SInv => TypeOK
  BY DEF SInv, IInv
<1>2. QED
  BY <1>1, SessionInvariance, PTL

\* One run of a session flies at most one manoeuvre.
THEOREM SingleManeuverPerRun == SessionSpec => []OneManeuverPerRun
<1>1. SInv => OneManeuverPerRun
  BY DEF SInv, IInv, SessionInv, OneManeuverPerTick, OneManeuverPerRun
<1>2. QED
  BY <1>1, SessionInvariance, PTL

\* The pair re-evaluated after an application is the decided one.
THEOREM DecidedPairApplied == SessionSpec => []AppliedPairIsDecidedPair
<1>1. SInv => AppliedPairIsDecidedPair
  BY DEF SInv, SessionInv, AppliedPairIsDecidedPair
<1>2. QED
  BY <1>1, SessionInvariance, PTL

\* A session that shows a resolved conflict shows the manoeuvre flown, under
\* the one decision of its Audit Log.
THEOREM FlightShown == SessionSpec => []ResolvedShowsTheFlight
<1>1. ASSUME SInv, Stage = "CONFLICT_RESOLVED" PROVE ResolvedShowsTheFlight
  <2>1. Applied
    BY <1>1 DEF Stage
  <2>2. /\ decision.tick = Shown.tick
        /\ [aircraft |-> Shown.target, tick |-> Shown.tick] \in anchors
        /\ decision.type = IF Shown = modApplication THEN "MODIFY" ELSE "ACCEPT"
    <3>1. CASE modApplication.tick # Never
      BY <1>1, <3>1 DEF SInv, SessionInv, FlownBy, Shown
    <3>2. CASE modApplication.tick = Never
      BY <1>1, <2>1, <3>2 DEF SInv, SessionInv, FlownBy, Shown, Applied
    <3>3. QED
      BY <3>1, <3>2
  <2>3. decision.tick # Never
    BY <1>1, <2>1 DEF SInv, SessionInv, FlownBy, IInv, DecisionRecorded, Applied
  <2>4. Len(audit) = 1 /\ decision.revision = 1
    BY <1>1, <2>3 DEF SInv, SessionInv, IInv, DecisionRecorded
  <2>5. audit[1].at = decision.tick /\ audit[1].type = decision.type
    BY <1>1, <2>3, <2>4 DEF SInv, IInv, DecisionRecorded
  <2>6. QED
    BY <2>2, <2>4, <2>5 DEF ResolvedShowsTheFlight
<1>2. SInv => ResolvedShowsTheFlight
  BY <1>1 DEF ResolvedShowsTheFlight
<1>3. QED
  BY <1>2, SessionInvariance, PTL

\* A decision that time has overtaken never flies.
THEOREM OvertakenDecision == SessionSpec => OvertakenDecisionNeverFlies
<1>1. ASSUME SInv, SessionNext, decision.tick # tickCount
      PROVE  anchors' \subseteq anchors
  <2>1. IInv
    BY <1>1 DEF SInv
  <2>2. ~Flight
    BY <1>1, <2>1, FlightIsAuthorised
  <2>3. CASE ClockCommand \/ ReviewCommand \/ Revalidate \/ Reset
    BY <2>3 DEF ClockCommand, ReviewCommand, ReviewStep, Revalidate, Reset
  <2>4. QED
    BY <1>1, <2>1, <2>2, <2>3, CommandCases DEF FlightCommand
<1>2. SInv /\ [SessionNext]_vars =>
         [decision.tick # Never /\ decision.tick # tickCount => anchors' \subseteq anchors]_vars
  BY <1>1
<1>3. QED
  BY <1>2, SessionInvariance, PTL DEF SessionSpec, OvertakenDecisionNeverFlies

\* From the review stages, what each kind of command may make of the stage.
LEMMA StageMoves ==
    ASSUME SInv, ClockCommand \/ ReviewCommand \/ Revalidate \/ FlightCommand \/ Reset,
           NEW i \in 1 .. 6, Stage = StageOrder[i]
    PROVE  Stage' \in Followers(Stage) \cup {"READY"}
<1>1. Stage \in {"RECOMMENDATION_AVAILABLE", "DECISION_ACCEPTED", "DECISION_MODIFIED",
                  "DECISION_REJECTED", "MODIFICATION_REVALIDATED", "CONFLICT_RESOLVED"}
  BY DEF StageOrder
<1>2. Stage \in Followers(Stage)
  BY <1>1 DEF Followers, StageOrder
<1>3. decision.type \in Types \cup {"NONE"}
  BY DEF SInv, IInv, TypeOK
<1>4. CASE ClockCommand
  <2>1. UNCHANGED <<resolution, decision, revalidation, application, modApplication>>
    BY <1>4 DEF ClockCommand, reviewVars, flightVars
  <2>2. Stage' = Stage
    BY <1>1, <2>1 DEF Stage, Applied
  <2>3. QED
    BY <1>2, <2>2
<1>5. CASE ReviewCommand
  <2>1. /\ decision.type = "NONE" /\ decision.tick = Never
        /\ application.tick = Never /\ modApplication.tick = Never
        /\ UNCHANGED <<revalidation, application, modApplication>>
    BY <1>5, UndecidedRun DEF ReviewCommand, flightVars
  <2>2. revalidation.tick = Never
    <3>1. revalidation.tick <= decision.tick /\ revalidation.tick \in TickOrNever
      BY DEF SInv, IInv, EvidenceInOrder, TypeOK
    <3>2. QED
      BY <2>1, <3>1 DEF TickOrNever, Never
  <2>3. Stage = "RECOMMENDATION_AVAILABLE" /\ resolution.tick # Never
    BY <1>1, <2>1, <2>2 DEF Stage, Applied
  <2>4. resolution'.tick # Never
    <3>1. CASE UNCHANGED resolution
      BY <2>3, <3>1
    <3>2. CASE ResolveAt(tickCount', step')
      <4>1. tickCount' \in Nat /\ TypeOK
        BY <1>5 DEF ReviewCommand, ReviewStep, SInv, IInv
      <4>2. QED
        BY <3>2, <4>1, ResolveAtType DEF Never
    <3>3. QED
      BY <1>5, <3>1, <3>2 DEF ReviewCommand, ReviewStep
  <2>5. decision'.type \in Types \cup {"NONE"}
    BY <1>5 DEF ReviewCommand, TypeOK
  <2>6. Stage' \in {"RECOMMENDATION_AVAILABLE", "DECISION_ACCEPTED", "DECISION_MODIFIED",
                     "DECISION_REJECTED"}
    BY <2>1, <2>2, <2>4, <2>5 DEF Stage, Applied, Types
  <2>7. QED
    BY <2>3, <2>6 DEF Followers, StageOrder
<1>6. CASE Revalidate
  <2>1. /\ decision.type = "MODIFY" /\ tickCount # Never
        /\ UNCHANGED <<decision, resolution, application, modApplication>>
        /\ revalidation'.tick = tickCount
    BY <1>6 DEF Revalidate, reviewVars, SInv, IInv, TypeOK, Never
  <2>2. Stage \in {"DECISION_MODIFIED", "MODIFICATION_REVALIDATED", "CONFLICT_RESOLVED"}
    BY <2>1 DEF Stage
  <2>3. Stage' = IF Applied THEN "CONFLICT_RESOLVED" ELSE "MODIFICATION_REVALIDATED"
    BY <2>1 DEF Stage, Applied
  <2>4. Applied <=> Stage = "CONFLICT_RESOLVED"
    BY <2>2 DEF Stage
  <2>5. QED
    BY <2>2, <2>3, <2>4 DEF Followers
<1>7. CASE FlightCommand
  <2>1. /\ Flight /\ ~Applied /\ IInv
    BY <1>7 DEF FlightCommand, SInv
  <2>2. UNCHANGED <<decision, revalidation, resolution>>
    BY <2>1, FlightIsAuthorised DEF Flight, ApplyAndRevalidate, ApplyWithoutEvidence,
       AuthorizeApplyAndRevalidate, reviewVars
  <2>3. Stage \in {"DECISION_ACCEPTED", "MODIFICATION_REVALIDATED"}
    <3>1. CASE decision.type = "ACCEPT"
      BY <2>1, <3>1 DEF Stage
    <3>2. CASE revalidation.tick = tickCount
      <4>1. revalidation.tick # Never
        BY <3>2 DEF SInv, IInv, TypeOK, Never
      <4>2. QED
        BY <2>1, <4>1 DEF Stage
    <3>3. QED
      BY <2>1, <3>1, <3>2, FlightIsAuthorised
  <2>4. Stage' \in {Stage, "CONFLICT_RESOLVED"}
    <3>1. CASE Applied'
      BY <3>1 DEF Stage
    <3>2. CASE ~Applied'
      BY <2>1, <2>2, <2>3, <3>2 DEF Stage
    <3>3. QED
      BY <3>1, <3>2
  <2>5. QED
    BY <2>3, <2>4 DEF Followers
<1>8. CASE Reset
  BY <1>8 DEF Reset, Stage, Applied, NoStep, NoResolution, NoDecision, NoRevalidation,
     NoApplication
<1>9. QED
  BY <1>4, <1>5, <1>6, <1>7, <1>8

\* The review only moves forward, one command at a time, until RESET.
THEOREM ForwardReview == SessionSpec => ReviewMovesForward
<1>1. SInv /\ [SessionNext]_vars =>
         [\A stage \in {StageOrder[i] : i \in 1 .. 6} :
             Stage = stage => Stage' \in Followers(stage) \cup {"READY"}]_vars
  <2>1. SUFFICES ASSUME SInv, SessionNext, NEW i \in 1 .. 6, Stage = StageOrder[i]
                 PROVE  Stage' \in Followers(StageOrder[i]) \cup {"READY"}
    OBVIOUS
  <2>2. QED
    BY <2>1, CommandCases, StageMoves DEF SInv
<1>2. QED
  BY <1>1, SessionInvariance, PTL DEF SessionSpec, ReviewMovesForward

\* A session implements HumanAuthority.
THEOREM SessionRefinement == SessionSpec => ImplementsHumanAuthority
<1>1. Init => HA!Init
  BY DEF Init, HA!Init, Granted, NoDecision
<1>2. SInv /\ [SessionNext]_vars => [HA!Next]_(HA!haVars)
  <2>1. CASE SInv /\ SessionNext
    <3>1. IInv
      BY <2>1 DEF SInv
    <3>2. CASE ClockCommand \/ ReviewCommand
      BY <3>1, <3>2, DecisionOnlyGrants DEF ClockCommand, ReviewCommand
    <3>3. QED
      BY <2>1, <3>1, <3>2, CommandCases, RevalidationOnlyGrants, FlightFlies, ResetIsNewRun
         DEF FlightCommand
  <2>2. CASE UNCHANGED vars
    BY <2>2 DEF vars, clockVars, reviewVars, flightVars, Granted, HA!haVars
  <2>3. QED
    BY <2>1, <2>2
<1>3. QED
  BY <1>1, <1>2, SessionInvariance, PTL DEF SessionSpec, ImplementsHumanAuthority, HA!Spec

-----------------------------------------------------------------------------
(* The contract with the screens.                                           *)

\* A Step of n seconds that changes no result is a Flow of the contract.
LEMMA StepIsFlow ==
    ASSUME SInv, NEW n \in Nat, StepAt(tickCount + n), UNCHANGED <<reviewVars, flightVars>>
    PROVE  RS!Flow(n)
<1>1. /\ tickCount + n \in Nat /\ TypeOK
      /\ UNCHANGED <<resolution, decision, revalidation, application, modApplication>>
  BY DEF SInv, IInv, TypeOK, reviewVars, flightVars
<1>2. tickCount' = tickCount + n /\ step'.tick = tickCount + n
  BY <1>1, StepAtType
<1>3. step'.tick # Never
  BY <1>1, <1>2 DEF Never
<1>4. decision.type \in Types \cup {"NONE"}
  BY <1>1 DEF TypeOK
<1>5. CASE Stage \in {"READY", "MONITORING", "DEVIATION_DETECTED", "CONFLICT_DETECTED"}
  <2>1. /\ ~Applied /\ revalidation.tick = Never /\ resolution.tick = Never
        /\ decision.type \notin Types
    BY <1>4, <1>5 DEF Stage, Types
  <2>2. Stage' \in {"MONITORING", "DEVIATION_DETECTED", "CONFLICT_DETECTED"}
    BY <1>1, <1>3, <2>1 DEF Stage, Applied, Types
  <2>3. QED
    BY <1>1, <1>2, <1>5, <2>2 DEF RS!Flow
<1>6. CASE Stage \notin {"READY", "MONITORING", "DEVIATION_DETECTED", "CONFLICT_DETECTED"}
  <2>1. Stage' = Stage
    BY <1>1, <1>6 DEF Stage, Applied
  <2>2. QED
    BY <1>1, <1>2, <1>6, <2>1 DEF RS!Flow
<1>7. QED
  BY <1>5, <1>6

\* The seconds of every command are seconds of the contract.
LEMMA CommandSecondsBound ==
    /\ 0 .. MaxAdvance \subseteq Nat /\ 1 .. MaxStep \subseteq Nat
    /\ {ToConflictSteps, GenerateSteps, DecisionSteps} \subseteq Nat
BY SessionAssumption, TimeAssumption

\* A recommendation or a decision moves the stage as the contract says.
LEMMA ReviewMovesStage ==
    ASSUME SInv
    PROVE  /\ GenerateRecommendation => RS!Generate(GenerateSteps)
           /\ \A type \in Types :
                 DecideRecommendation(type) => RS!Decide(type, DecisionSteps)
<1>1. ASSUME GenerateRecommendation PROVE RS!Generate(GenerateSteps)
  <2>1. /\ Stage = "CONFLICT_DETECTED"
        /\ StepAt(tickCount + GenerateSteps) /\ ResolveAt(tickCount', step')
        /\ UNCHANGED <<decision, revalidation, application, modApplication>>
    BY <1>1 DEF GenerateRecommendation, StepThen, Checkpoint, flightVars
  <2>2. TypeOK /\ tickCount + GenerateSteps \in Nat
    BY SessionAssumption DEF SInv, IInv, TypeOK
  <2>3. tickCount' = tickCount + GenerateSteps
    BY <2>1, <2>2, StepAtType
  <2>4. resolution'.tick # Never
    BY <2>1, <2>2, <2>3 DEF ResolveAt, Never
  <2>5. decision.type \notin Types /\ ~Applied /\ revalidation.tick = Never
    BY <2>1, <2>2, UndecidedStages DEF Stage, Types
  <2>6. Stage' = "RECOMMENDATION_AVAILABLE"
    BY <2>1, <2>4, <2>5 DEF Stage, Applied, Types
  <2>7. QED
    BY <2>1, <2>3, <2>6 DEF RS!Generate
<1>2. ASSUME NEW type \in Types, DecideRecommendation(type)
      PROVE  RS!Decide(type, DecisionSteps)
  <2>1. /\ Stage = "RECOMMENDATION_AVAILABLE"
        /\ StepAt(tickCount + DecisionSteps) /\ DecideAt(tickCount', step', type)
        /\ UNCHANGED <<resolution, revalidation, application, modApplication>>
    BY <1>2 DEF DecideRecommendation, StepThen, Checkpoint, flightVars
  <2>2. TypeOK /\ tickCount + DecisionSteps \in Nat
    BY SessionAssumption DEF SInv, IInv, TypeOK
  <2>3. tickCount' = tickCount + DecisionSteps
    BY <2>1, <2>2, StepAtType
  <2>4. decision'.type = type
    BY <2>1 DEF DecideAt
  <2>5. ~Applied /\ revalidation.tick = Never
    BY <2>1 DEF Stage
  <2>6. Stage' = RS!Verdicts[type]
    BY <2>1, <2>4, <2>5 DEF Stage, Applied, Types, RS!Verdicts
  <2>7. QED
    BY <2>1, <2>3, <2>6 DEF RS!Decide
<1>3. QED
  BY <1>1, <1>2

\* A revalidation or an application moves the stage as the contract says; an
\* application that was refused after it set its anchor does not move it.
LEMMA FlightMovesStage ==
    ASSUME SInv
    PROVE  /\ RevalidateModifiedManeuver => RS!Revalidate
           /\ ApplyValidatedModifiedManeuver \/ ApplyApprovedManeuver => RS!Apply
           /\ ApplyApprovedRefused => UNCHANGED RS!serverVars
<1>1. tickCount # Never
  BY DEF SInv, IInv, TypeOK, Never
<1>2. ASSUME RevalidateModifiedManeuver PROVE RS!Revalidate
  <2>1. /\ Stage = "DECISION_MODIFIED" /\ ~Applied
        /\ UNCHANGED <<tickCount, application, modApplication>>
        /\ revalidation'.tick = tickCount /\ revalidation'.safe \in BOOLEAN
    BY <1>2, UnappliedStages DEF RevalidateModifiedManeuver, Checkpoint, Revalidate, clockVars
  <2>2. Stage' = "MODIFICATION_REVALIDATED"
    BY <1>1, <2>1 DEF Stage, Applied
  <2>3. QED
    BY <2>1, <2>2 DEF RS!Revalidate
<1>3. ASSUME ApplyValidatedModifiedManeuver \/ ApplyApprovedManeuver PROVE RS!Apply
  <2>1. /\ \/ Stage = "DECISION_ACCEPTED"
           \/ Stage = "MODIFICATION_REVALIDATED" /\ revalidation.safe
        /\ UNCHANGED <<tickCount, revalidation>>
        /\ application'.tick = tickCount \/ modApplication'.tick = tickCount
    BY <1>3 DEF ApplyValidatedModifiedManeuver, ApplyApprovedManeuver, Checkpoint,
       AuthorizeApplyAndRevalidate, ApplyAndRevalidate, Validated, ApplicationResult, clockVars
  <2>2. Stage' = "CONFLICT_RESOLVED"
    BY <1>1, <2>1 DEF Stage, Applied
  <2>3. QED
    BY <2>1, <2>2 DEF RS!Apply
<1>4. ASSUME ApplyApprovedRefused PROVE UNCHANGED RS!serverVars
  <2>1. UNCHANGED <<tickCount, step, resolution, decision, revalidation, application,
                    modApplication>>
    BY <1>4 DEF ApplyApprovedRefused, ApplyWithoutEvidence, clockVars, reviewVars
  <2>2. Stage' = Stage
    BY <2>1 DEF Stage, Applied
  <2>3. QED
    BY <2>1, <2>2 DEF RS!serverVars
<1>5. QED
  BY <1>2, <1>3, <1>4

\* A session implements ReviewStages: the promise the screens rely on holds
\* of every scenario, every pattern of risks and every order of commands.
THEOREM ContractRefinement == SessionSpec => ImplementsReviewStages
<1>1. Init => RS!Init
  BY DEF Init, RS!Init, Stage, Applied, NoStep, NoResolution, NoDecision, NoRevalidation,
     NoApplication
<1>2. SInv /\ [SessionNext]_vars => [RS!Next]_(RS!serverVars)
  <2>1. ASSUME SInv, SessionNext PROVE [RS!Next]_(RS!serverVars)
    <3>1. tickCount \in Nat /\ tickCount + 0 = tickCount
      BY <2>1 DEF SInv, IInv, TypeOK
    <3>2. CASE Start
      BY <2>1, <3>1, <3>2, StepIsFlow DEF Start, Checkpoint, RS!Start, RS!Next
    <3>3. CASE \E n \in 1 .. MaxAdvance : Advance(n)
      BY <2>1, <3>3, StepIsFlow, CommandSecondsBound DEF Advance, RS!Advance, RS!Next
    <3>4. CASE AdvanceToConflict
      BY <2>1, <3>4, StepIsFlow, CommandSecondsBound
         DEF AdvanceToConflict, Step, RS!Advance, RS!Next
    <3>5. CASE GenerateRecommendation
      BY <2>1, <3>5, ReviewMovesStage DEF RS!Next
    <3>6. CASE GenerateRefused
      BY <2>1, <3>6, StepIsFlow, CommandSecondsBound
         DEF GenerateRefused, StepThen, Checkpoint, RS!GenerateRefused, RS!Next
    <3>7. CASE \E type \in Types : DecideRecommendation(type)
      <4>1. PICK type \in Types : RS!Decide(type, DecisionSteps)
        BY <2>1, <3>7, ReviewMovesStage
      <4>2. type \in DOMAIN RS!Verdicts
        BY DEF RS!Verdicts, Types
      <4>3. QED
        BY <4>1, <4>2 DEF RS!Next
    <3>8. CASE DecideRefused
      BY <2>1, <3>8, StepIsFlow, CommandSecondsBound
         DEF DecideRefused, StepThen, Checkpoint, RS!DecideRefused, RS!Next
    <3>9. CASE \/ RevalidateModifiedManeuver \/ ApplyValidatedModifiedManeuver
               \/ ApplyApprovedManeuver \/ ApplyApprovedRefused
      BY <2>1, <3>9, FlightMovesStage DEF RS!Next
    <3>10. CASE Reset
      BY <3>10 DEF Reset, Stage, Applied, NoStep, NoResolution, NoDecision, NoRevalidation,
         NoApplication, RS!Reset, RS!Next
    <3>11. CASE ClockDrift
      <4>1. UNCHANGED <<step, resolution, decision, revalidation, application, modApplication>>
        BY <3>11 DEF ClockDrift, Pause, Tick, reviewVars, flightVars
      <4>2. Stage' = Stage
        BY <4>1 DEF Stage, Applied
      <4>3. QED
        BY <3>11, <4>1, <4>2 DEF ClockDrift, Pause, Tick, RS!Drift, RS!Next, RS!serverVars
    <3>12. QED
      BY <2>1, <3>2, <3>3, <3>4, <3>5, <3>6, <3>7, <3>8, <3>9, <3>10, <3>11 DEF SessionNext
  <2>2. CASE UNCHANGED vars
    BY <2>2 DEF vars, clockVars, reviewVars, flightVars, Stage, Applied, RS!serverVars
  <2>3. QED
    BY <2>1, <2>2
<1>3. QED
  BY <1>1, <1>2, SessionInvariance, PTL DEF SessionSpec, ImplementsReviewStages, RS!Spec
=============================================================================
