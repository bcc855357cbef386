---------------------------- MODULE RouteSearch ----------------------------
(***************************************************************************)
(* RoutePlanner (regulation/route.py): the way home over published fixes.  *)
(* A direct leg when nothing is in the way, otherwise an A* search over    *)
(* the fixes; the recovery tries the initial approach fixes one after the  *)
(* other and keeps the shortest route.  One action per turn of the loop.   *)
(* Geometry is a metric Dist in whole miles; what is in the way is a set   *)
(* of blocked legs, chosen before the search.                              *)
(***************************************************************************)
EXTENDS Integers, Sequences, FiniteSets

CONSTANTS
  Fixes,     \* the published fixes, the nodes of the graph
  Start,     \* where the aircraft is
  Entries,   \* the initial approach fixes, in the order of the procedure
  Dist,      \* great-circle distance, by a pair of places
  MaxLeg,    \* longest leg between two fixes
  Blockable  \* legs that a restricted area may lie across

Places == Fixes \cup {Start}
Legs == {p \in Places \X Places : p[1] # p[2]}

Miles(a, b) == Dist[<<a, b>>]

ASSUME RouteAssumption ==
  /\ IsFiniteSet(Fixes) /\ Start \notin Fixes
  /\ Entries \in Seq(Fixes) /\ Entries # <<>>
  /\ MaxLeg \in Nat /\ Blockable \subseteq {{p[1], p[2]} : p \in Legs}
  /\ Dist \in [Places \X Places -> Nat]
  /\ \A a \in Places : Miles(a, a) = 0
  /\ \A a, b \in Places : Miles(a, b) = Miles(b, a)
  /\ \A a, b, c \in Places : Miles(a, c) <= Miles(a, b) + Miles(b, c)

VARIABLES
  blocked,   \* legs that cross a restricted area or a neighbour's zone
  entry,     \* which approach fix is being planned for
  open,      \* the heap: <<estimate, travelled, fix>>
  best,      \* shortest way found so far to the fixes reached
  prev,      \* the fix before, on that way
  seen,      \* fixes taken from the heap
  route,     \* shortest of the routes found: the fixes, or <<>>
  planned    \* for every approach fix tried, the route found, or <<>>

searchVars == <<open, best, prev, seen>>
routeVars == <<blocked, entry, open, best, prev, seen, route, planned>>

NoRoute == <<>>
Goal == Entries[entry]

Blocking(a, b) == {a, b} \in blocked

(* Legs the search may take: not too long, not of no length, clear. *)
Neighbours(a) ==
  {b \in Fixes \ {a} : /\ Miles(a, b) <= MaxLeg
                       /\ Miles(a, b) > 0
                       /\ ~ Blocking(a, b)}

RouteLength(r) ==
  LET len[i \in 0 .. Len(r)] ==
        IF i = 0 THEN 0
        ELSE len[i - 1] + Miles(IF i = 1 THEN Start ELSE r[i - 1], r[i])
  IN  len[Len(r)]

(* Back along prev from the goal to the start. *)
Chain ==
  LET back[n \in 0 .. Cardinality(Fixes)] ==
        IF n = 0 THEN <<Goal>>
        ELSE LET r == back[n - 1]
             IN  IF prev[Head(r)] = Start THEN r ELSE <<prev[Head(r)]>> \o r
  IN  back[Cardinality(Fixes)]

Empty == [f \in {} |-> Start]
FreshBest == [f \in {Start} |-> 0]
FreshOpen(n) == IF n <= Len(Entries) THEN {<<Miles(Start, Entries[n]), 0, Start>>} ELSE {}

\* Mutant: the last route found is kept, not the shortest.
KeptLast(r) == IF r # NoRoute THEN r ELSE route

(* recovery: the first approach fix whose route is strictly shorter wins. *)
Kept(r) ==
  IF r # NoRoute /\ (route = NoRoute \/ RouteLength(r) < RouteLength(route)) THEN r ELSE route

(* One approach fix is done: its result is compared, the next one started. *)
Conclude(r) ==
  /\ route' = Kept(r)
  /\ planned' = Append(planned, r)
  /\ entry' = entry + 1
  /\ open' = FreshOpen(entry + 1)
  /\ best' = FreshBest
  /\ prev' = Empty
  /\ seen' = {}
  /\ UNCHANGED blocked

Planning == entry <= Len(Entries)

RouteInit ==
  /\ blocked \in SUBSET Blockable
  /\ entry = 1
  /\ open = FreshOpen(1)
  /\ best = FreshBest /\ prev = Empty /\ seen = {}
  /\ route = <<>> /\ planned = <<>>

(* plan: the direct leg, of whatever length, when nothing blocks it. *)
Direct ==
  /\ Planning /\ ~ Blocking(Start, Goal)
  /\ Conclude(<<Goal>>)

Smallest(e) == \A o \in open : e[1] < o[1] \/ (e[1] = o[1] /\ e[2] <= o[2])

(* A fix that was taken before is skipped when the heap yields it again. *)
Skip(e) ==
  /\ e[3] \in seen
  /\ open' = open \ {e}
  /\ UNCHANGED <<blocked, entry, best, prev, seen, route, planned>>

Shorter(a, g) ==
  {b \in Neighbours(a) : b \notin DOMAIN best \/ g + Miles(a, b) < best[b]}

Expand(e) ==
  LET a == e[3]
      g == e[2]
      better == Shorter(a, g)
  IN  /\ a \notin seen /\ a # Goal
      /\ seen' = seen \cup {a}
      /\ best' = [b \in DOMAIN best \cup better |->
                    IF b \in better THEN g + Miles(a, b) ELSE best[b]]
      /\ prev' = [b \in DOMAIN prev \cup better |->
                    IF b \in better THEN a ELSE prev[b]]
      /\ open' = (open \ {e}) \cup
                 {<<g + Miles(a, b) + Miles(b, Goal), g + Miles(a, b), b>> : b \in better}
      /\ UNCHANGED <<blocked, entry, route, planned>>

(* The goal leaves the heap: the loop breaks and the chain is read back. *)
Arrive(e) == e[3] = Goal /\ Goal \in DOMAIN prev /\ Conclude(Chain)

\* Mutant: the search goes on until the goal is reached.
ExhaustedAtGoal ==
  Planning /\ open = {} /\ Goal \in DOMAIN prev /\ Conclude(Chain)

(* The heap is empty and the goal was never reached. *)
Exhausted == Planning /\ open = {} /\ Conclude(NoRoute)

Search ==
  /\ Planning /\ Blocking(Start, Goal)
  /\ \/ \E e \in open : Smallest(e) /\ (Skip(e) \/ Expand(e) \/ Arrive(e))
     \/ Exhausted

RouteNext == Direct \/ Search
-----------------------------------------------------------------------------
(* Reference: the lengths of all ways through the open legs that have no    *)
(* more legs than there are fixes, which every way without a loop has not.  *)
Lengths ==
  LET upTo[n \in 0 .. Cardinality(Fixes)] ==
        IF n = 0 THEN [p \in Places |-> IF p = Start THEN {0} ELSE {}]
        ELSE [p \in Places |->
                upTo[n - 1][p] \cup
                UNION {{d + Miles(a, p) : d \in upTo[n - 1][a]} :
                         a \in {q \in Places : p \in Neighbours(q)}}]
  IN  upTo[Cardinality(Fixes)]

IsShortest(length, lengths) == length \in lengths /\ \A d \in lengths : length <= d

Wanted(goal) == IF ~ Blocking(Start, goal) THEN {Miles(Start, goal)} ELSE Lengths[goal]

Legal(r) ==
  \A i \in 1 .. Len(r) :
    LET a == IF i = 1 THEN Start ELSE r[i - 1]
    IN  ~ Blocking(a, r[i]) /\ (Len(r) > 1 => Miles(a, r[i]) <= MaxLeg)

(* Every approach fix gets the shortest route that crosses nothing, no      *)
(* route only when there is none, and the recovery is the shortest of all:  *)
(* a fix taken from the heap is settled, so that skipping it when the heap  *)
(* yields it again loses nothing.                                           *)
RecoveryIsShortest ==
  /\ Planning => \A a \in seen : IsShortest(best[a], Lengths[a])
  /\ \A i \in 1 .. entry - 1 :
        IF planned[i] = NoRoute THEN Wanted(Entries[i]) = {}
        ELSE IsShortest(RouteLength(planned[i]), Wanted(Entries[i])) /\ Legal(planned[i])
  /\ ~ Planning =>
        LET found == {i \in DOMAIN planned : planned[i] # NoRoute}
        IN  /\ route = NoRoute <=> found = {}
            /\ found # {} =>
                 IsShortest(RouteLength(route), {RouteLength(planned[i]) : i \in found})
=============================================================================
