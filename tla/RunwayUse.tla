----------------------------- MODULE RunwayUse -----------------------------
(***************************************************************************)
(* The runway as a resource (regulation/runway.py) and the published       *)
(* holding patterns (regulation/hold.py): how long an operation must wait  *)
(* behind another, in which order operations are laid out, where an        *)
(* emergency is put in, and which arrivals can be kept waiting where.      *)
(* Times are in units of ten seconds.                                      *)
(***************************************************************************)
EXTENDS Integers, Sequences, FiniteSets, Separation

CONSTANTS
  Fleet,      \* per aircraft type: wake category, SRS category, runway
              \* occupancy, roll to 3000, 4500 and 6000 feet, circuit time
  Patterns    \* published patterns: <<floor, ceiling>> in thousands of feet,
              \* ceiling 0 when none is published

ASSUME FleetAssumption ==
  \A t \in DOMAIN Fleet :
    /\ Fleet[t].wake \in Categories
    /\ Fleet[t].srs \in {"I", "II", "III"}
    /\ Fleet[t].occupancy \in Nat \ {0}
    /\ Fleet[t].circuit \in Nat \ {0}
    /\ Fleet[t].roll \in [{3000, 4500, 6000} -> Nat \ {0}]
    /\ Fleet[t].roll[3000] <= Fleet[t].roll[4500]
    /\ Fleet[t].roll[4500] <= Fleet[t].roll[6000]

(* Every pattern has a published floor. *)
ASSUME PatternsAssumption == Patterns \in Seq(Nat \X Nat)

(* One use of the runway: a departure is timed at the start of its roll, an *)
(* arrival over the threshold; neither before its earliest.                 *)
Operations == [id : STRING, type : DOMAIN Fleet, departs : BOOLEAN,
               earliest : Nat, emergency : BOOLEAN]

SrsDistance(l, f) ==
  LET a == Fleet[l.type].srs
      b == Fleet[f.type].srs
  IN  IF "III" \in {a, b} THEN 6000 ELSE IF b = "II" THEN 4500 ELSE 3000

TimeToRoll(l, distance) == Fleet[l.type].roll[distance]

(* Behind a departing super three minutes, behind a heavy two. *)
DepartureWake(l, f) ==
  IF Fleet[f.type].wake = "J" THEN 0
  ELSE IF Fleet[l.type].wake = "J" THEN 18
  ELSE IF Fleet[l.type].wake = "H" THEN 12 ELSE 0

\* Mutant: an arrival is clear of the runway once it has landed.
RequirementBehindDepartures(l, f) ==
  IF l.departs THEN TimeToRoll(l, SrsDistance(l, f)) ELSE 0

(* Seconds from the leader's time to the follower's. *)
Requirement(l, f) ==
  LET roll == TimeToRoll(l, SrsDistance(l, f))
  IN  CASE ~ l.departs              -> Fleet[l.type].occupancy
        [] l.departs /\ f.departs   -> Larger(DepartureWake(l, f), roll)
        [] l.departs /\ ~ f.departs -> roll

(* A light aircraft may not wait on the runway behind a heavy departure. *)
LineUpProhibited(l, f) ==
  Fleet[l.type].wake \in {"J", "H"} /\ Fleet[f.type].wake = "S"

(* What stands at some of the places of a list, in the order of the list. *)
AtPlaces(list, places) ==
  [r \in 1 .. Cardinality(places) |->
     list[CHOOSE i \in places : Cardinality({j \in places : j < i}) = r - 1]]

(* Every operation at its earliest or behind the one before it. *)
LayOut(ops, now) ==
  LET time[i \in 1 .. Len(ops)] ==
        IF i = 1 THEN Larger(now, ops[1].earliest)
        ELSE Larger(time[i - 1] + Requirement(ops[i - 1], ops[i]), ops[i].earliest)
  IN  [i \in 1 .. Len(ops) |-> [op |-> ops[i], time |-> time[i]]]

(* sorted(): by the key, ties in the order given. *)
SortedByEarliest(ops) ==
  LET before(i, j) == \/ ops[i].earliest < ops[j].earliest
                      \/ ops[i].earliest = ops[j].earliest /\ i < j
      rank(i) == 1 + Cardinality({j \in DOMAIN ops : before(j, i)})
  IN  [r \in DOMAIN ops |-> ops[CHOOSE i \in DOMAIN ops : rank(i) = r]]

FirstComeFirstServed(ops, now) == LayOut(SortedByEarliest(ops), now)

SlotOf(schedule, id) == CHOOSE s \in DOMAIN schedule : schedule[s].op.id = id
TimeOf(schedule, id) == schedule[SlotOf(schedule, id)].time

PutAt(ops, op, i) == SubSeq(ops, 1, i) \o <<op>> \o SubSeq(ops, i + 1, Len(ops))

(* The first place, from the front, where the emergency lands as early as   *)
(* it can; at the end when there is none.                                   *)
InsertEmergency(ops, id, now) ==
  LET target == ops[CHOOSE i \in DOMAIN ops : ops[i].id = id]
      order == SortedByEarliest(AtPlaces(ops, {i \in DOMAIN ops : ops[i].id # id}))
      trial(i) == LayOut(PutAt(order, target, i), now)
      intime == {i \in 0 .. Len(order) : TimeOf(trial(i), id) <= target.earliest}
  IN  IF intime = {} THEN trial(Len(order))
      ELSE trial(CHOOSE i \in intime : \A j \in intime : i <= j)

Arrivals(schedule) == AtPlaces(schedule, {i \in DOMAIN schedule : ~ schedule[i].op.departs})
-----------------------------------------------------------------------------
(* Holding: published floor upwards in thousands, one level when no ceiling *)
(* is published.                                                            *)
Levels(p) ==
  LET floor == Patterns[p][1]
      ceiling == Patterns[p][2]
  IN  IF ceiling = 0 THEN {floor} ELSE floor .. ceiling

Capacity == LET sum[p \in 0 .. Len(Patterns)] ==
                  IF p = 0 THEN 0 ELSE sum[p - 1] + Cardinality(Levels(p))
            IN  sum[Len(Patterns)]

DelayInfoThreshold == 180

\* Mutant: the lowest level of the pattern, taken or not.
AssignLowest(req, p, taken) ==
  LET circuit == Fleet[req.type].circuit
      circuits == Larger(1, (req.need + circuit - 1) \div circuit)
      full == Cardinality({x \in taken : x.pattern = p}) >= Cardinality(Levels(p))
  IN  IF req.need <= 0 \/ full THEN {}
      ELSE {[id |-> req.id, pattern |-> p, level |-> Patterns[p][1],
             delay |-> circuits * circuit,
             informed |-> circuits * circuit >= DelayInfoThreshold]}

(* assign: whole circuits, at least one, at the lowest level still free;    *)
(* nothing (the empty set) when no time is needed or no level is free.      *)
Assign(req, p, taken) ==
  LET free == Levels(p) \ {h.level : h \in {x \in taken : x.pattern = p}}
      circuit == Fleet[req.type].circuit
      circuits == Larger(1, (req.need + circuit - 1) \div circuit)
  IN  IF req.need <= 0 \/ free = {} THEN {}
      ELSE {[id |-> req.id, pattern |-> p,
             level |-> CHOOSE v \in free : \A w \in free : v <= w,
             delay |-> circuits * circuit,
             informed |-> circuits * circuit >= DelayInfoThreshold]}

(* The first pattern of the procedure with room; who finds none is refused. *)
Stacked(request, before) ==
  LET room == {p \in DOMAIN Patterns : Assign(request, p, before.holds) # {}}
      first == CHOOSE p \in room : \A q \in room : p <= q
  IN  IF room = {} THEN [before EXCEPT !.refused = @ \cup {request.id}]
      ELSE [before EXCEPT !.holds = @ \cup Assign(request, first, @)]

(* stack: one request after the other. *)
Stack(requests) ==
  LET placed[i \in 0 .. Len(requests)] ==
        IF i = 0 THEN [holds |-> {}, refused |-> {}] ELSE Stacked(requests[i], placed[i - 1])
  IN  placed[Len(requests)]
=============================================================================
