---------------------------- MODULE RunwayProofs ----------------------------
(***************************************************************************)
(* What the operators of RunwayUse return, whatever the fleet and the      *)
(* published patterns: a part of a list keeps its order, a sorted list is  *)
(* a permutation, operations laid out one behind the other leave each one  *)
(* the runway for as long as it needs, an emergency that is put in lands   *)
(* as early as it can, and a stack of holds has one aircraft per level.    *)
(***************************************************************************)
EXTENDS RunwayUse, NaturalOrder

(* Lists of things.                                                         *)

Less == {p \in Nat \X Nat : p[1] < p[2]}

LEMMA PlacesAreOrdered ==
  ASSUME NEW n \in Nat, NEW places, places \subseteq 1 .. n
  PROVE  IsFiniteSet(places) /\ StrictlyOrders(Less, places) /\ Cardinality(places) \in Nat
<1>1. IsFiniteSet(1 .. n)
  BY FS_Interval
<1>2. IsFiniteSet(places)
  BY <1>1, FS_Subset
<1>3. \A a, b \in places : <<a, b>> \in Less <=> a < b
  BY DEF Less
<1>4. \A a \in places : a \in Nat
  OBVIOUS
<1>5. StrictlyOrders(Less, places)
  BY <1>3, <1>4 DEF StrictlyOrders
<1>6. QED
  BY <1>2, <1>5, FS_CardinalityType

(* A part of a list is its members at the places, in order. *)
Picks(part, list, o, m) == part = [r \in 1 .. m |-> list[o[r]]]

LEMMA PartOfList ==
  ASSUME NEW n \in Nat, NEW places, places \subseteq 1 .. n, NEW list
  PROVE  \E o : /\ ListsBy(o, places, Less)
                /\ Picks(AtPlaces(list, places), list, o, Cardinality(places))
<1> DEFINE Pick(r) == CHOOSE i \in places : Cardinality({j \in places : j < i}) = r - 1
<1>1. PICK o : o = [r \in 1 .. Cardinality(places) |-> Pick(r)]
  OBVIOUS
<1>2. \A i \in places : {j \in places : j < i} = {b \in places \ {i} : <<b, i>> \in Less}
  <2> TAKE i \in places
  <2>1. \A j \in places : j < i <=> j # i /\ <<j, i>> \in Less
    BY DEF Less
  <2>2. QED
    BY <2>1
<1>3. ASSUME NEW r \in 1 .. Cardinality(places),
             \E a \in places : Cardinality({b \in places \ {a} : <<b, a>> \in Less}) = r - 1
      PROVE  /\ o[r] \in places
             /\ Cardinality({b \in places \ {o[r]} : <<b, o[r]>> \in Less}) = r - 1
  <2>1. \E a \in places : Cardinality({j \in places : j < a}) = r - 1
    BY <1>2, <1>3
  <2>2. Pick(r) \in places /\ Cardinality({j \in places : j < Pick(r)}) = r - 1
    BY <2>1
  <2> HIDE DEF Pick
  <2>3. o[r] = Pick(r)
    BY <1>1
  <2>4. QED
    BY <1>2, <2>2, <2>3
<1>4. ListsBy(o, places, Less)
  <2> HIDE DEF Pick
  <2>1. o = [r \in 1 .. Cardinality(places) |-> o[r]]
    BY <1>1
  <2>2. QED
    BY <1>3, <2>1, PlacesAreOrdered, SortedLists
<1>5. AtPlaces(list, places) = [r \in 1 .. Cardinality(places) |-> list[o[r]]]
  <2>1. AtPlaces(list, places) = [r \in 1 .. Cardinality(places) |-> list[Pick(r)]]
    BY DEF AtPlaces
  <2> HIDE DEF Pick
  <2>2. QED
    BY <1>1, <2>1
<1>6. QED
  BY <1>4, <1>5 DEF Picks

(* part has some of the members of list, each at most once. *)
TakenFrom(part, list, places) ==
  \E o \in [DOMAIN part -> places] :
    /\ \A i \in DOMAIN part : part[i] = list[o[i]]
    /\ \A i, j \in DOMAIN part : o[i] = o[j] => i = j
    /\ \A a \in places : \E i \in DOMAIN part : o[i] = a

LEMMA ListedOnce ==
  ASSUME NEW o, NEW S, IsFiniteSet(S), NEW R, StrictlyOrders(R, S), ListsBy(o, S, R)
  PROVE  \A i, j \in 1 .. Cardinality(S) : o[i] = o[j] => i = j
<1>1. Cardinality(S) \in Nat
  BY FS_CardinalityType
<1> SUFFICES ASSUME NEW i \in 1 .. Cardinality(S), NEW j \in 1 .. Cardinality(S), o[i] = o[j]
             PROVE  i = j
  OBVIOUS
<1>2. o[i] \in S /\ <<o[i], o[i]>> \notin R
  BY DEF ListsBy, StrictlyOrders
<1>3. (<<o[i], o[j]>> \in R <=> i < j) /\ (<<o[j], o[i]>> \in R <=> j < i)
  BY DEF ListsBy
<1>4. ~ (i < j) /\ ~ (j < i)
  BY <1>2, <1>3
<1>5. QED
  BY <1>1, <1>4

LEMMA PartIsTaken ==
  ASSUME NEW V, NEW list \in Seq(V), NEW places, places \subseteq 1 .. Len(list)
  PROVE  /\ AtPlaces(list, places) \in Seq(V)
         /\ Len(AtPlaces(list, places)) = Cardinality(places)
         /\ TakenFrom(AtPlaces(list, places), list, places)
<1>1. PICK n \in Nat : n = Len(list)
  OBVIOUS
<1>2. PICK o : /\ ListsBy(o, places, Less)
               /\ Picks(AtPlaces(list, places), list, o, Cardinality(places))
  <2>1. places \subseteq 1 .. n
    BY <1>1
  <2>2. QED
    BY <2>1, PartOfList
<1>3. IsFiniteSet(places) /\ StrictlyOrders(Less, places) /\ Cardinality(places) \in Nat
  BY <1>1, PlacesAreOrdered
<1>4. PICK m \in Nat : m = Cardinality(places)
  BY <1>3
<1>5. PICK part : part = AtPlaces(list, places)
  OBVIOUS
<1>6. part = [r \in 1 .. m |-> list[o[r]]] /\ o \in [1 .. m -> places]
  BY <1>2, <1>4, <1>5 DEF ListsBy, Picks
<1>7. \A i, j \in 1 .. m : o[i] = o[j] => i = j
  BY <1>2, <1>3, <1>4, ListedOnce
<1>8. part \in [1 .. m -> V]
  <2>0. \A i \in 1 .. n : list[i] \in V
    BY <1>1
  <2>1. \A r \in 1 .. m : o[r] \in places /\ list[o[r]] \in V
    BY <1>1, <1>6, <2>0
  <2>2. QED
    BY <1>6, <2>1
<1>9. part \in Seq(V) /\ Len(part) = m
  BY <1>8, FunctionIsSequence
<1>10. TakenFrom(part, list, places)
  <2>1. DOMAIN part = 1 .. m
    BY <1>6
  <2>2. \A a \in places : \E i \in 1 .. m : o[i] = a
    BY <1>2, <1>4 DEF ListsBy
  <2>3. QED
    BY <1>6, <1>7, <2>1, <2>2 DEF TakenFrom
<1>11. QED
  BY <1>4, <1>5, <1>9, <1>10

(* sorted() gives everything back once. *)
LEMMA SortedIsPermutation ==
  ASSUME NEW V, NEW ops \in Seq(V), \A i \in 1 .. Len(ops) : ops[i].earliest \in Nat
  PROVE  /\ SortedByEarliest(ops) \in Seq(V) /\ Len(SortedByEarliest(ops)) = Len(ops)
         /\ TakenFrom(SortedByEarliest(ops), ops, 1 .. Len(ops))
<1>1. PICK n \in Nat : n = Len(ops) /\ DOMAIN ops = 1 .. n
  OBVIOUS
<1> DEFINE before(i, j) == \/ ops[i].earliest < ops[j].earliest
                           \/ ops[i].earliest = ops[j].earliest /\ i < j
           R == {p \in (1 .. n) \X (1 .. n) : before(p[1], p[2])}
           Pick(r) == CHOOSE i \in 1 .. n : 1 + Cardinality({j \in 1 .. n : before(j, i)}) = r
<1>2. IsFiniteSet(1 .. n) /\ Cardinality(1 .. n) = n
  <2>1. 1 \in Int /\ n \in Int
    OBVIOUS
  <2>2. Cardinality(1 .. n) = IF 1 > n THEN 0 ELSE n - 1 + 1
    BY <2>1, FS_Interval
  <2>3. IsFiniteSet(1 .. n)
    BY <2>1, FS_Interval
  <2>4. QED
    BY <2>2, <2>3
<1>3. \A i, j \in 1 .. n : <<i, j>> \in R <=> before(i, j)
  OBVIOUS
<1>4. \A i \in 1 .. n : ops[i].earliest \in Nat
  BY <1>1
<1>5. \A i \in 1 .. n : ~ before(i, i)
  BY <1>4
<1>6. \A i, j \in 1 .. n : i # j => before(i, j) \/ before(j, i)
  BY <1>4
<1>7. \A i, j, k \in 1 .. n : before(i, j) /\ before(j, k) => before(i, k)
  BY <1>4
<1>8. PICK o : o = [r \in 1 .. n |-> Pick(r)]
  OBVIOUS
<1>9. SortedByEarliest(ops) = [r \in 1 .. n |-> ops[Pick(r)]]
  BY <1>1 DEF SortedByEarliest
<1> HIDE DEF before
<1>10. StrictlyOrders(R, 1 .. n)
  <2> HIDE DEF R
  <2>1. QED
    BY <1>3, <1>5, <1>6, <1>7 DEF StrictlyOrders
<1>11. \A i \in 1 .. n : {j \in 1 .. n : before(j, i)} = {b \in (1 .. n) \ {i} : <<b, i>> \in R}
  <2> TAKE i \in 1 .. n
  <2> HIDE DEF R
  <2>1. \A j \in 1 .. n : before(j, i) <=> j # i /\ <<j, i>> \in R
    BY <1>3, <1>5
  <2>2. QED
    BY <2>1
<1> HIDE DEF R
<1>12. ASSUME NEW r \in 1 .. n,
              \E a \in 1 .. n : Cardinality({b \in (1 .. n) \ {a} : <<b, a>> \in R}) = r - 1
       PROVE  /\ o[r] \in 1 .. n
              /\ Cardinality({b \in (1 .. n) \ {o[r]} : <<b, o[r]>> \in R}) = r - 1
  <2>1. PICK a \in 1 .. n : Cardinality({j \in 1 .. n : before(j, a)}) = r - 1
    BY <1>11, <1>12
  <2>2. 1 + Cardinality({j \in 1 .. n : before(j, a)}) = r
    BY <2>1
  <2>3. Pick(r) \in 1 .. n /\ 1 + Cardinality({j \in 1 .. n : before(j, Pick(r))}) = r
    BY <2>2
  <2> HIDE DEF Pick
  <2>4. PICK i \in 1 .. n : i = o[r] /\ 1 + Cardinality({j \in 1 .. n : before(j, i)}) = r
    BY <1>8, <2>3
  <2>5. IsFiniteSet({j \in 1 .. n : before(j, i)})
    BY <1>2, FS_Subset
  <2>6. Cardinality({j \in 1 .. n : before(j, i)}) \in Nat
    BY <2>5, FS_CardinalityType
  <2>7. Cardinality({j \in 1 .. n : before(j, i)}) = r - 1
    BY <2>4, <2>6
  <2>8. QED
    BY <1>11, <2>4, <2>7
<1> HIDE DEF Pick
<1>13. ListsBy(o, 1 .. n, R)
  <2>1. o = [r \in 1 .. n |-> o[r]]
    BY <1>8
  <2>2. PICK S : S = 1 .. n
    OBVIOUS
  <2>3. /\ IsFiniteSet(S) /\ StrictlyOrders(R, S) /\ Cardinality(S) = n
        /\ o = [r \in 1 .. Cardinality(S) |-> o[r]]
    BY <1>2, <1>10, <2>1, <2>2
  <2>4. \A r \in 1 .. Cardinality(S) :
          (\E a \in S : Cardinality({b \in S \ {a} : <<b, a>> \in R}) = r - 1) =>
            o[r] \in S /\ Cardinality({b \in S \ {o[r]} : <<b, o[r]>> \in R}) = r - 1
    BY <1>12, <2>2, <2>3
  <2>5. ListsBy(o, S, R)
    BY <2>3, <2>4, SortedLists
  <2>6. QED
    BY <2>2, <2>5
<1>14. o \in [1 .. n -> 1 .. n] /\ \A a \in 1 .. n : \E i \in 1 .. n : o[i] = a
  BY <1>2, <1>13 DEF ListsBy
<1>15. \A i, j \in 1 .. n : o[i] = o[j] => i = j
  BY <1>2, <1>10, <1>13, ListedOnce
<1>16. PICK s : s = SortedByEarliest(ops)
  OBVIOUS
<1>17. s = [r \in 1 .. n |-> ops[o[r]]]
  BY <1>8, <1>9, <1>16
<1>18. s \in [1 .. n -> V]
  BY <1>1, <1>14, <1>17
<1>19. s \in Seq(V) /\ Len(s) = n
  BY <1>18, FunctionIsSequence
<1>20. TakenFrom(s, ops, 1 .. n)
  BY <1>14, <1>15, <1>17 DEF TakenFrom
<1>21. QED
  BY <1>1, <1>16, <1>19, <1>20

-----------------------------------------------------------------------------
(* Operations on the runway, under the names of I.                          *)

OpsOf(I) == [id : I, type : DOMAIN Fleet, departs : BOOLEAN, earliest : Nat, emergency : BOOLEAN]
SlotsOf(I) == [op : OpsOf(I), time : Nat]

(* For as long as the leader keeps the runway, whoever follows. *)
Keeps(op) == IF op.departs THEN TimeToRoll(op, 3000) ELSE Fleet[op.type].occupancy

LEMMA RequirementBounds ==
  ASSUME NEW I, NEW l \in OpsOf(I), NEW f \in OpsOf(I)
  PROVE  /\ Requirement(l, f) \in Nat /\ Keeps(l) \in Nat /\ Requirement(l, f) >= Keeps(l)
         /\ l.departs /\ f.departs /\ LineUpProhibited(l, f) => Requirement(l, f) >= 12
<1>1. l.type \in DOMAIN Fleet /\ f.type \in DOMAIN Fleet /\ l.departs \in BOOLEAN /\ f.departs \in BOOLEAN
  BY DEF OpsOf
<1>2a. PICK a : a = Fleet[l.type].roll[3000]
  OBVIOUS
<1>2b. PICK b : b = Fleet[l.type].roll[4500]
  OBVIOUS
<1>2. PICK c : c = Fleet[l.type].roll[6000]
  OBVIOUS
<1>3. a \in Nat /\ b \in Nat /\ c \in Nat /\ a <= b /\ b <= c
  <2>1. /\ Fleet[l.type].roll \in [{3000, 4500, 6000} -> Nat \ {0}]
        /\ Fleet[l.type].roll[3000] <= Fleet[l.type].roll[4500]
        /\ Fleet[l.type].roll[4500] <= Fleet[l.type].roll[6000]
    BY <1>1, FleetAssumption
  <2>2. QED
    BY <1>2a, <1>2b, <1>2, <2>1
<1>4. Fleet[l.type].occupancy \in Nat
  BY <1>1, FleetAssumption
<1>5. PICK d : d = SrsDistance(l, f)
  OBVIOUS
<1>6. d \in {3000, 4500, 6000}
  BY <1>5 DEF SrsDistance
<1>7. PICK t : t = TimeToRoll(l, d)
  OBVIOUS
<1>8. t \in Nat /\ t >= a
  BY <1>2a, <1>2b, <1>2, <1>3, <1>6, <1>7 DEF TimeToRoll
<1>9. Keeps(l) = IF l.departs THEN a ELSE Fleet[l.type].occupancy
  BY <1>2a DEF Keeps, TimeToRoll
<1>10. PICK w : w = DepartureWake(l, f)
  OBVIOUS
<1>11. w \in Nat /\ (LineUpProhibited(l, f) => w >= 12)
  BY <1>10 DEF DepartureWake, LineUpProhibited
<1>12. PICK r : r = Requirement(l, f)
  OBVIOUS
<1>13. CASE ~ l.departs
  <2>1. r = Fleet[l.type].occupancy
    BY <1>12, <1>13 DEF Requirement
  <2>2. QED
    BY <1>4, <1>9, <1>12, <1>13, <2>1
<1>14. CASE l.departs /\ f.departs
  <2>1. r = Larger(w, t)
    BY <1>5, <1>7, <1>10, <1>12, <1>14 DEF Requirement
  <2>2. r \in Nat /\ r >= t /\ r >= w
    BY <1>8, <1>11, <2>1 DEF Larger
  <2>3. r >= a
    BY <1>3, <1>8, <2>2
  <2>4. LineUpProhibited(l, f) => r >= 12
    BY <1>11, <2>2
  <2>5. QED
    BY <1>3, <1>9, <1>12, <1>14, <2>2, <2>3, <2>4
<1>15. CASE l.departs /\ ~ f.departs
  <2>1. r = t
    BY <1>5, <1>7, <1>12, <1>15 DEF Requirement
  <2>2. QED
    BY <1>3, <1>8, <1>9, <1>12, <1>15, <2>1
<1>16. QED
  BY <1>1, <1>13, <1>14, <1>15

(* The recursion of LayOut. *)
EarliestAt(ops, now, i, before) ==
  IF i = 1 THEN Larger(now, ops[1].earliest)
  ELSE Larger(before + Requirement(ops[i - 1], ops[i]), ops[i].earliest)

LaysOut(schedule, ops, now) ==
  /\ DOMAIN schedule = 1 .. Len(ops)
  /\ \A i \in 1 .. Len(ops) : schedule[i].op = ops[i]
  /\ Len(ops) >= 1 => schedule[1].time = Larger(now, ops[1].earliest)
  /\ \A i \in 2 .. Len(ops) :
       schedule[i].time =
         Larger(schedule[i - 1].time + Requirement(ops[i - 1], ops[i]), ops[i].earliest)

LEMMA LargerIsBound ==
  ASSUME NEW a \in Int, NEW b \in Int
  PROVE  Larger(a, b) \in Int /\ Larger(a, b) >= a /\ Larger(a, b) >= b
BY DEF Larger

LEMMA EarliestAtIsNatural ==
  ASSUME NEW I, NEW ops \in Seq(OpsOf(I)), NEW now \in Nat, NEW i \in 1 .. Len(ops), NEW b \in Nat
  PROVE  EarliestAt(ops, now, i, b) \in Nat
<1>1. ops[i] \in OpsOf(I) /\ ops[1] \in OpsOf(I) /\ (i # 1 => ops[i - 1] \in OpsOf(I))
  OBVIOUS
<1>2. ops[i].earliest \in Nat /\ ops[1].earliest \in Nat
  BY <1>1 DEF OpsOf
<1>3. CASE i = 1
  BY <1>2, <1>3 DEF EarliestAt, Larger
<1>4. CASE i # 1
  <2>1. Requirement(ops[i - 1], ops[i]) \in Nat
    BY <1>1, <1>4, RequirementBounds
  <2>2. QED
    BY <1>2, <1>4, <2>1 DEF EarliestAt, Larger
<1>5. QED
  BY <1>3, <1>4

LEMMA LayOutRecurs ==
  ASSUME NEW I, NEW ops \in Seq(OpsOf(I)), NEW now \in Nat
  PROVE  /\ LayOut(ops, now) \in Seq(SlotsOf(I)) /\ Len(LayOut(ops, now)) = Len(ops)
         /\ LaysOut(LayOut(ops, now), ops, now)
<1>1. PICK n \in Nat : n = Len(ops)
  OBVIOUS
<1> DEFINE G == [p \in (1 .. n) \X Nat |-> EarliestAt(ops, now, p[1], p[2])]
           Recursion(f) == [i \in 1 .. n |-> EarliestAt(ops, now, i, f[i - 1])]
           time == CHOOSE f : f = Recursion(f)
<1>2. LayOut(ops, now) = [i \in 1 .. n |-> [op |-> ops[i], time |-> time[i]]]
  BY <1>1 DEF LayOut, EarliestAt
<1>3. G \in [(1 .. n) \X Nat -> Nat]
      /\ \A i \in 1 .. n, b \in Nat : G[<<i, b>>] = EarliestAt(ops, now, i, b)
  BY <1>1, EarliestAtIsNatural
<1> HIDE DEF G
<1>4. PICK g \in [0 .. n -> Nat] : g[0] = 0 /\ \A i \in 1 .. n : g[i] = G[<<i, g[i - 1]>>]
  <2> HIDE DEF Recursion, time
  <2>1. PICK U : U = Nat
    OBVIOUS
  <2>2. PICK x \in U, h \in {G} : StepsThrough(h, n, U) /\ x = 0
    BY <1>3, <2>1 DEF StepsThrough
  <2>3. PICK f \in [0 .. n -> U] : Recurs(f, n, x, h)
    BY <1>1, <2>2, RecursionExists
  <2>4. QED
    BY <2>1, <2>2, <2>3 DEF Recurs
<1>5. PICK f : f = [i \in 1 .. n |-> g[i]]
  OBVIOUS
<1>6. f = Recursion(f)
  <2>1. \A i \in 1 .. n : f[i] = EarliestAt(ops, now, i, g[i - 1])
    <3> TAKE i \in 1 .. n
    <3>1. i - 1 \in 0 .. n
      OBVIOUS
    <3>2. g[i - 1] \in Nat
      BY <1>4, <3>1
    <3>3. QED
      BY <1>3, <1>4, <1>5, <3>2
  <2>2. \A i \in 1 .. n : EarliestAt(ops, now, i, g[i - 1]) = EarliestAt(ops, now, i, f[i - 1])
    <3> TAKE i \in 1 .. n
    <3>1. CASE i = 1
      BY <3>1 DEF EarliestAt
    <3>2. CASE i # 1
      <4>1. f[i - 1] = g[i - 1]
        BY <1>5, <3>2
      <4>2. QED
        BY <4>1
    <3>3. QED
      BY <3>1, <3>2
  <2>3. f = [i \in 1 .. n |-> f[i]]
    BY <1>5
  <2>4. QED
    BY <2>1, <2>2, <2>3
<1>7. time = Recursion(time)
  <2> HIDE DEF Recursion
  <2>1. QED
    BY <1>6
<1>8. PICK t : t = time
  OBVIOUS
<1>9. t = [i \in 1 .. n |-> EarliestAt(ops, now, i, t[i - 1])]
  <2> HIDE DEF time
  <2>1. QED
    BY <1>7, <1>8
<1>10. \A i \in 1 .. n : t[i] = EarliestAt(ops, now, i, t[i - 1])
  BY <1>9
<1> DEFINE S == {i \in 1 .. n : t[i] \in Nat}
<1>11. \A i \in 1 .. n : i \in S
  <2>1. 1 \in S \/ n = 0
    <3>1. SUFFICES ASSUME 1 \in 1 .. n PROVE t[1] \in Nat
      BY <1>1
    <3>2. t[1] = EarliestAt(ops, now, 1, 0)
      BY <1>10, <3>1 DEF EarliestAt
    <3>3. EarliestAt(ops, now, 1, 0) \in Nat
      <4>1. 1 \in 1 .. Len(ops) /\ 0 \in Nat
        BY <1>1, <3>1
      <4>2. QED
        BY <4>1, EarliestAtIsNatural
    <3>4. QED
      BY <3>2, <3>3
  <2>2. ASSUME NEW i \in 1 .. n, i \in S, i + 1 \in 1 .. n PROVE i + 1 \in S
    <3>1. t[i + 1] = EarliestAt(ops, now, i + 1, t[i])
      <4>1. (i + 1) - 1 = i
        OBVIOUS
      <4>2. t[i + 1] = EarliestAt(ops, now, i + 1, t[(i + 1) - 1])
        BY <1>10, <2>2
      <4>3. QED
        BY <4>1, <4>2
    <3>2. t[i] \in Nat
      BY <2>2
    <3>3. EarliestAt(ops, now, i + 1, t[i]) \in Nat
      BY <1>1, <2>2, <3>2, EarliestAtIsNatural
    <3>4. QED
      BY <2>2, <3>1, <3>3
  <2> HIDE DEF S
  <2>3. QED
    BY <2>1, <2>2, PlaceInduction
<1>12. PICK s : s = LayOut(ops, now)
  OBVIOUS
<1>13. s = [i \in 1 .. n |-> [op |-> ops[i], time |-> t[i]]]
  <2> HIDE DEF time
  <2>1. QED
    BY <1>2, <1>8, <1>12
<1>14. \A i \in 1 .. n : [op |-> ops[i], time |-> t[i]] \in SlotsOf(I)
  <2> TAKE i \in 1 .. n
  <2>1. ops[i] \in OpsOf(I) /\ t[i] \in Nat
    BY <1>1, <1>11
  <2>2. QED
    BY <2>1 DEF SlotsOf
<1>15. s \in Seq(SlotsOf(I)) /\ Len(s) = n
  <2>1. s \in [1 .. n -> SlotsOf(I)]
    BY <1>13, <1>14
  <2>2. QED
    BY <2>1, FunctionIsSequence
<1>16. LaysOut(s, ops, now)
  <2>1. DOMAIN s = 1 .. n /\ \A i \in 1 .. n : s[i].op = ops[i] /\ s[i].time = t[i]
    BY <1>13
  <2>2. n >= 1 => t[1] = Larger(now, ops[1].earliest)
    BY <1>10 DEF EarliestAt
  <2>3. \A i \in 2 .. n : t[i] = Larger(t[i - 1] + Requirement(ops[i - 1], ops[i]), ops[i].earliest)
    BY <1>10 DEF EarliestAt
  <2>4. \A i \in 2 .. n : i \in 1 .. n /\ i - 1 \in 1 .. n
    OBVIOUS
  <2>5. n >= 1 => 1 \in 1 .. n
    OBVIOUS
  <2>6. QED
    BY <1>1, <2>1, <2>2, <2>3, <2>4, <2>5 DEF LaysOut
<1>17. QED
  BY <1>1, <1>12, <1>15, <1>16

(* Laid out, nobody has the runway before everyone ahead has left it. *)
LEMMA LaidOutKeepApart ==
  ASSUME NEW I, NEW ops \in Seq(OpsOf(I)), NEW now \in Nat,
         NEW s \in Seq(SlotsOf(I)), LaysOut(s, ops, now)
  PROVE  /\ \A i, j \in 1 .. Len(ops) : i < j => s[j].time >= s[i].time + Keeps(ops[i])
         /\ \A i \in 1 .. Len(ops) - 1 :
              ops[i].departs /\ ops[i + 1].departs /\ LineUpProhibited(ops[i], ops[i + 1]) =>
                s[i + 1].time >= s[i].time + 12
<1>1. PICK n \in Nat : n = Len(ops)
  OBVIOUS
<1>2. \A i \in 1 .. n : s[i].time \in Nat /\ ops[i] \in OpsOf(I)
  <2>1. \A i \in DOMAIN s : s[i] \in SlotsOf(I)
    OBVIOUS
  <2>2. DOMAIN s = 1 .. n
    BY <1>1 DEF LaysOut
  <2>3. QED
    BY <1>1, <2>1, <2>2 DEF SlotsOf
<1>3. \A i \in 1 .. n - 1 :
        /\ s[i + 1].time >= s[i].time + Keeps(ops[i]) /\ Keeps(ops[i]) \in Nat
        /\ ops[i].departs /\ ops[i + 1].departs /\ LineUpProhibited(ops[i], ops[i + 1]) =>
             s[i + 1].time >= s[i].time + 12
  <2> TAKE i \in 1 .. n - 1
  <2>1. i \in 1 .. n /\ i + 1 \in 1 .. n /\ i + 1 \in 2 .. n /\ (i + 1) - 1 = i
    BY <1>1
  <2>2. PICK l \in OpsOf(I), f \in OpsOf(I) : l = ops[i] /\ f = ops[i + 1]
    BY <1>2, <2>1
  <2>3. s[i + 1].time = Larger(s[i].time + Requirement(l, f), f.earliest)
    <3>1. s[i + 1].time = Larger(s[(i + 1) - 1].time + Requirement(ops[(i + 1) - 1], ops[i + 1]),
                                 ops[i + 1].earliest)
      BY <1>1, <2>1 DEF LaysOut
    <3>2. QED
      BY <2>1, <2>2, <3>1
  <2>4. PICK r : r = Requirement(l, f)
    OBVIOUS
  <2>5. /\ r \in Nat /\ Keeps(l) \in Nat /\ r >= Keeps(l)
        /\ l.departs /\ f.departs /\ LineUpProhibited(l, f) => r >= 12
    BY <2>4, RequirementBounds
  <2>6. PICK x \in Nat, p \in Nat : x = s[i].time /\ p = f.earliest
    BY <1>2, <2>1 DEF OpsOf
  <2>7. PICK y : y = s[i + 1].time
    OBVIOUS
  <2>8. y = Larger(x + r, p)
    BY <2>3, <2>4, <2>6, <2>7
  <2>9. y \in Nat /\ y >= x + r
    <3>1. PICK z \in Nat : z = x + r
      BY <2>5, <2>6
    <3>2. y = Larger(z, p)
      BY <2>8, <3>1
    <3>3. y \in Int /\ y >= z
      BY <3>2, LargerIsBound
    <3>4. QED
      BY <3>1, <3>3
  <2>10. PICK k \in Nat : k = Keeps(l)
    BY <2>5
  <2>11. y >= x + k
    BY <2>5, <2>9, <2>10
  <2>12. l.departs /\ f.departs /\ LineUpProhibited(l, f) => y >= x + 12
    BY <2>5, <2>9
  <2>13. QED
    BY <2>2, <2>5, <2>6, <2>7, <2>10, <2>11, <2>12
<1> DEFINE KeptUpTo(k) == \A i, j \in 1 .. n :
             i < j /\ j <= i + k => s[j].time >= s[i].time + Keeps(ops[i])
           S == {k \in Nat : KeptUpTo(k)}
<1>4. 0 \in S
  OBVIOUS
<1>5. ASSUME NEW k \in Nat, k \in S PROVE k + 1 \in S
  <2> SUFFICES KeptUpTo(k + 1)
    <3> HIDE DEF KeptUpTo
    <3>1. QED
      OBVIOUS
  <2> SUFFICES ASSUME NEW i \in 1 .. n, NEW j \in 1 .. n, i < j, j <= i + (k + 1)
               PROVE  s[j].time >= s[i].time + Keeps(ops[i])
    OBVIOUS
  <2>1. CASE j = i + 1
    BY <1>3, <2>1
  <2>2. CASE j # i + 1
    <3>1. i + 1 \in 1 .. n /\ i + 1 < j /\ j - 1 \in 1 .. n /\ j - 1 \in 1 .. n - 1
          /\ i < j - 1 /\ j - 1 <= i + k /\ (j - 1) + 1 = j
      BY <2>2
    <3>2. s[j - 1].time >= s[i].time + Keeps(ops[i])
      BY <1>5, <3>1
    <3>3. s[(j - 1) + 1].time >= s[j - 1].time + Keeps(ops[j - 1]) /\ Keeps(ops[j - 1]) \in Nat
      BY <1>3, <3>1
    <3>4. i \in 1 .. n - 1 /\ Keeps(ops[i]) \in Nat
      BY <1>3, <3>1
    <3>5. PICK x \in Nat, y \in Nat, z \in Nat :
            x = s[i].time /\ y = s[j - 1].time /\ z = s[j].time
      BY <1>2, <3>1
    <3>6. PICK a \in Nat, b \in Nat : a = Keeps(ops[i]) /\ b = Keeps(ops[j - 1])
      BY <3>3, <3>4
    <3>7. y >= x + a /\ z >= y + b
      BY <3>1, <3>2, <3>3, <3>5, <3>6
    <3>8. z >= x + a
      BY <3>7
    <3>9. QED
      BY <3>5, <3>6, <3>8
  <2>3. QED
    BY <2>1, <2>2
<1>6. ASSUME NEW i \in 1 .. n, NEW j \in 1 .. n, i < j
      PROVE  s[j].time >= s[i].time + Keeps(ops[i])
  <2>1. n \in S
    <3> HIDE DEF S
    <3>1. QED
      BY <1>4, <1>5, SetInduction
  <2>2. j <= i + n
    OBVIOUS
  <2>3. QED
    BY <1>6, <2>1, <2>2
<1>7. QED
  BY <1>1, <1>3, <1>6

LEMMA TakenTwice ==
  ASSUME NEW a, NEW b, NEW c, NEW P, TakenFrom(a, b, DOMAIN b), TakenFrom(b, c, P)
  PROVE  TakenFrom(a, c, P)
<1>1. PICK o \in [DOMAIN a -> DOMAIN b] :
        /\ \A i \in DOMAIN a : a[i] = b[o[i]]
        /\ \A i, j \in DOMAIN a : o[i] = o[j] => i = j
        /\ \A k \in DOMAIN b : \E i \in DOMAIN a : o[i] = k
  BY DEF TakenFrom
<1>2. PICK q \in [DOMAIN b -> P] :
        /\ \A i \in DOMAIN b : b[i] = c[q[i]]
        /\ \A i, j \in DOMAIN b : q[i] = q[j] => i = j
        /\ \A k \in P : \E i \in DOMAIN b : q[i] = k
  BY DEF TakenFrom
<1>3. PICK h : h = [i \in DOMAIN a |-> q[o[i]]]
  OBVIOUS
<1>4. h \in [DOMAIN a -> P] /\ \A i \in DOMAIN a : h[i] = q[o[i]] /\ o[i] \in DOMAIN b
  BY <1>1, <1>2, <1>3
<1>5. \A i \in DOMAIN a : a[i] = c[h[i]]
  BY <1>1, <1>2, <1>4
<1>6. \A i, j \in DOMAIN a : h[i] = h[j] => i = j
  BY <1>1, <1>2, <1>4
<1>7. \A k \in P : \E i \in DOMAIN a : h[i] = k
  BY <1>1, <1>2, <1>4
<1>8. QED
  BY <1>4, <1>5, <1>6, <1>7 DEF TakenFrom

LEMMA TakenMembers ==
  ASSUME NEW a, NEW b, NEW P, TakenFrom(a, b, P)
  PROVE  /\ \A i \in DOMAIN a : \E k \in P : a[i] = b[k]
         /\ \A k \in P : \E i \in DOMAIN a : a[i] = b[k]
BY DEF TakenFrom

(* What an emergency is put into, its place still open. *)
InsertedFrom(order, e, id, now, m) ==
  LET intime == {i \in 0 .. m : TimeOf(LayOut(PutAt(order, e, i), now), id) <= e.earliest}
  IN  IF intime = {} THEN LayOut(PutAt(order, e, m), now)
      ELSE LayOut(PutAt(order, e, CHOOSE i \in intime : \A j \in intime : i <= j), now)

OthersAt(ops, id) == {i \in DOMAIN ops : ops[i].id # id}
OnlyAt(ops, id, k) == k \in DOMAIN ops /\ \A i \in DOMAIN ops : ops[i].id = id <=> i = k

LEMMA InsertUnfolds ==
  ASSUME NEW ops, NEW id, NEW now, NEW k, OnlyAt(ops, id, k), NEW order, NEW m,
         order = SortedByEarliest(AtPlaces(ops, OthersAt(ops, id))), Len(order) = m
  PROVE  InsertEmergency(ops, id, now) = InsertedFrom(order, ops[k], id, now, m)
<1> DEFINE others == SortedByEarliest(AtPlaces(ops, {i \in DOMAIN ops : ops[i].id # id}))
           target == ops[CHOOSE i \in DOMAIN ops : ops[i].id = id]
<1>1. InsertEmergency(ops, id, now) = InsertedFrom(others, target, id, now, Len(others))
  BY DEF InsertEmergency, InsertedFrom
<1>2. others = order /\ Len(others) = m
  BY DEF OthersAt
<1>3. (CHOOSE i \in DOMAIN ops : ops[i].id = id) = k
  BY DEF OnlyAt
<1>4. target = ops[k]
  BY <1>3
<1> HIDE DEF others, target
<1>5. QED
  BY <1>1, <1>2, <1>4

(* An emergency is put in front: it lands at its earliest, and the others,  *)
(* each once, come behind it.                                               *)
PutInFront(s, others, rest, e, now) ==
  /\ InsertEmergency(Append(rest, e), e.id, now) = LayOut(s, now)
  /\ TimeOf(LayOut(s, now), e.id) = e.earliest
  /\ TakenFrom(others, rest, 1 .. Len(rest)) /\ Len(others) = Len(rest)
  /\ Len(s) = Len(rest) + 1 /\ s[1] = e
  /\ \A i \in 1 .. Len(others) : s[i + 1] = others[i]

LEMMA EmergencyLeads ==
  ASSUME NEW I, NEW rest \in Seq(OpsOf(I)), NEW e \in OpsOf(I), NEW now \in Nat,
         e.earliest >= now, \A i \in 1 .. Len(rest) : rest[i].id # e.id
  PROVE  \E s, others \in Seq(OpsOf(I)) : PutInFront(s, others, rest, e, now)
<1>1. PICK m \in Nat : m = Len(rest)
  OBVIOUS
<1>2. PICK ops \in Seq(OpsOf(I)) :
        /\ ops = Append(rest, e) /\ Len(ops) = m + 1 /\ ops[m + 1] = e
        /\ \A i \in 1 .. m : ops[i] = rest[i]
  <2>1. /\ Append(rest, e) \in Seq(OpsOf(I)) /\ Len(Append(rest, e)) = m + 1
        /\ Append(rest, e)[m + 1] = e /\ \A i \in 1 .. m : Append(rest, e)[i] = rest[i]
    BY <1>1
  <2>2. QED
    BY <2>1
<1>3. DOMAIN ops = 1 .. m + 1 /\ \A i \in 1 .. m + 1 : ops[i].id = e.id <=> i = m + 1
  <2>1. \A i \in 1 .. m + 1 : i \in 1 .. m \/ i = m + 1
    OBVIOUS
  <2>2. QED
    BY <1>1, <1>2, <2>1
<1>4. OthersAt(ops, e.id) = 1 .. m
  BY <1>3 DEF OthersAt
<1>5. OnlyAt(ops, e.id, m + 1)
  BY <1>1, <1>3 DEF OnlyAt
<1>6. PICK part : part = AtPlaces(ops, 1 .. m)
  OBVIOUS
<1>7. part \in Seq(OpsOf(I)) /\ Len(part) = m /\ TakenFrom(part, ops, 1 .. m)
  <2>1. 1 .. m \subseteq 1 .. Len(ops)
    BY <1>2
  <2>2. Cardinality(1 .. m) = m
    <3>1. 1 \in Int /\ m \in Int
      OBVIOUS
    <3>2. Cardinality(1 .. m) = IF 1 > m THEN 0 ELSE m - 1 + 1
      BY <3>1, FS_Interval
    <3>3. QED
      BY <3>2
  <2>3. QED
    BY <1>6, <2>1, <2>2, PartIsTaken
<1>8. TakenFrom(part, rest, 1 .. m)
  <2>1. PICK o \in [DOMAIN part -> 1 .. m] :
          /\ \A i \in DOMAIN part : part[i] = ops[o[i]]
          /\ \A i, j \in DOMAIN part : o[i] = o[j] => i = j
          /\ \A a \in 1 .. m : \E i \in DOMAIN part : o[i] = a
    BY <1>7 DEF TakenFrom
  <2>2. \A i \in DOMAIN part : part[i] = rest[o[i]]
    BY <1>2, <2>1
  <2>3. QED
    BY <2>1, <2>2 DEF TakenFrom
<1>9. PICK order : order = SortedByEarliest(part)
  OBVIOUS
<1>10. order \in Seq(OpsOf(I)) /\ Len(order) = m /\ TakenFrom(order, part, 1 .. m)
  <2>1. \A i \in 1 .. Len(part) : part[i].earliest \in Nat
    <3>1. \A i \in 1 .. Len(part) : part[i] \in OpsOf(I)
      BY <1>7
    <3>2. QED
      BY <3>1 DEF OpsOf
  <2>2. QED
    BY <1>7, <1>9, <2>1, SortedIsPermutation
<1>11. TakenFrom(order, rest, 1 .. m)
  <2>1. DOMAIN part = 1 .. m
    BY <1>1, <1>7
  <2>2. QED
    BY <1>8, <1>10, <2>1, TakenTwice
<1>12. \A k \in 0 .. m : PutAt(order, e, k) \in Seq(OpsOf(I)) /\ Len(PutAt(order, e, k)) = m + 1
                         /\ PutBehind(PutAt(order, e, k), m, order, e, k)
  <2> TAKE k \in 0 .. m
  <2>1. order \in [1 .. m -> OpsOf(I)] /\ Len(order) = m
    BY <1>10, SequenceIsFunction
  <2>2. PICK V : V = OpsOf(I)
    OBVIOUS
  <2>3. PICK s \in [1 .. m + 1 -> V] :
          s = SubSeq(order, 1, k) \o <<e>> \o SubSeq(order, k + 1, Len(order))
          /\ PutBehind(s, m, order, e, k)
    BY <2>1, <2>2, PutIntoSequence
  <2>4. s = PutAt(order, e, k)
    BY <2>3 DEF PutAt
  <2>5. m + 1 \in Nat
    OBVIOUS
  <2>6. s \in Seq(V) /\ Len(s) = m + 1
    BY <2>3, <2>5, FunctionIsSequence
  <2>7. QED
    BY <2>2, <2>3, <2>4, <2>6
<1>13. PICK s \in Seq(OpsOf(I)) : s = PutAt(order, e, 0)
  BY <1>12
<1>14. Len(s) = m + 1 /\ s[1] = e /\ \A i \in 1 .. m : s[i + 1] = order[i]
  <2>1. Len(s) = m + 1 /\ PutBehind(s, m, order, e, 0)
    BY <1>12, <1>13
  <2>2. \A i \in 1 .. m + 1 : s[i] = IF i <= 0 THEN order[i] ELSE IF i = 0 + 1 THEN e ELSE order[i - 1]
    BY <2>1 DEF PutBehind
  <2>3. 1 \in 1 .. m + 1
    OBVIOUS
  <2>4. s[1] = e
    BY <2>2, <2>3
  <2>5. \A i \in 1 .. m : i + 1 \in 1 .. m + 1 /\ ~ (i + 1 <= 0) /\ i + 1 # 0 + 1 /\ (i + 1) - 1 = i
    OBVIOUS
  <2>6. \A i \in 1 .. m : s[i + 1] = order[i]
    BY <2>2, <2>5
  <2>7. QED
    BY <2>1, <2>4, <2>6
<1>15. PICK day : day = LayOut(s, now)
  OBVIOUS
<1>16. day \in Seq(SlotsOf(I)) /\ Len(day) = m + 1 /\ LaysOut(day, s, now)
  BY <1>14, <1>15, LayOutRecurs
<1>17. SlotOf(day, e.id) = 1
  <2>1. DOMAIN day = 1 .. m + 1 /\ \A i \in 1 .. m + 1 : day[i].op = s[i]
    BY <1>14, <1>16 DEF LaysOut
  <2>2. \A i \in 1 .. m : order[i].id # e.id
    <3>1. DOMAIN order = 1 .. m
      BY <1>1, <1>10
    <3>2. \A i \in 1 .. m : \E k \in 1 .. m : order[i] = rest[k]
      BY <1>11, <3>1 DEF TakenFrom
    <3>3. QED
      BY <1>1, <3>2
  <2>3. \A i \in 1 .. m + 1 : i # 1 => i - 1 \in 1 .. m /\ (i - 1) + 1 = i
    OBVIOUS
  <2>4. \A i \in 1 .. m + 1 : s[i].id = e.id <=> i = 1
    <3> TAKE i \in 1 .. m + 1
    <3>1. CASE i = 1
      BY <1>14, <3>1
    <3>2. CASE i # 1
      <4>1. s[i] = order[i - 1]
        BY <1>14, <2>3, <3>2
      <4>2. QED
        BY <2>2, <2>3, <3>2, <4>1
    <3>3. QED
      BY <3>1, <3>2
  <2>5. 1 \in 1 .. m + 1
    OBVIOUS
  <2>6. QED
    BY <2>1, <2>4, <2>5 DEF SlotOf
<1>18. TimeOf(day, e.id) = e.earliest
  <2>1. day[1].time = Larger(now, e.earliest)
    BY <1>14, <1>16 DEF LaysOut
  <2>2. e.earliest \in Nat
    BY DEF OpsOf
  <2>3. QED
    BY <1>17, <2>1, <2>2 DEF TimeOf, Larger
<1>19. InsertEmergency(ops, e.id, now) = LayOut(s, now)
  <2> DEFINE trial(i) == LayOut(PutAt(order, e, i), now)
             intime == {i \in 0 .. m : TimeOf(trial(i), e.id) <= e.earliest}
  <2>1. InsertEmergency(ops, e.id, now) =
          IF intime = {} THEN trial(m) ELSE trial(CHOOSE i \in intime : \A j \in intime : i <= j)
    <3>1. order = SortedByEarliest(AtPlaces(ops, OthersAt(ops, e.id)))
      BY <1>4, <1>6, <1>9
    <3>2. ops[m + 1] = e /\ Len(order) = m
      BY <1>2, <1>10
    <3>3. InsertEmergency(ops, e.id, now) = InsertedFrom(order, ops[m + 1], e.id, now, m)
      BY <1>5, <3>1, <3>2, InsertUnfolds
    <3>4. QED
      BY <3>2, <3>3 DEF InsertedFrom
  <2>2. 0 \in intime /\ intime \subseteq 0 .. m
    <3>1. 0 \in 0 .. m /\ e.earliest \in Nat /\ trial(0) = day
      BY <1>13, <1>15 DEF OpsOf
    <3> HIDE DEF trial
    <3>2. TimeOf(trial(0), e.id) <= e.earliest
      BY <1>18, <3>1
    <3>3. QED
      BY <3>1, <3>2
  <2>3. (CHOOSE i \in intime : \A j \in intime : i <= j) = 0
    <3> HIDE DEF intime
    <3>1. \A j \in intime : 0 <= j
      BY <2>2
    <3>2. \A i \in intime : (\A j \in intime : i <= j) => i = 0
      BY <2>2
    <3>3. QED
      BY <2>2, <3>1, <3>2
  <2> HIDE DEF intime
  <2>4. InsertEmergency(ops, e.id, now) = trial(0)
    <3> HIDE DEF trial
    <3>1. QED
      BY <2>1, <2>2, <2>3
  <2>5. QED
    BY <1>13, <2>4
<1>20. QED
  BY <1>1, <1>2, <1>10, <1>11, <1>14, <1>15, <1>18, <1>19 DEF PutInFront

-----------------------------------------------------------------------------
(* Holding, for requests under the names of I.                              *)

HoldsOf(I) == [id : I, pattern : Nat, level : Nat, delay : Int, informed : BOOLEAN]
RequestsOf(I) == [id : I, type : DOMAIN Fleet, need : Int]
StacksOf(I) == [holds : SUBSET HoldsOf(I), refused : SUBSET I]

(* h is what r asked for, at a published level. *)
Grants(h, r) ==
  /\ h.id = r.id /\ h.delay >= r.need
  /\ h.pattern \in DOMAIN Patterns /\ h.level \in Levels(h.pattern)

(* Somebody is at every published level. *)
Full(holds) ==
  \A p \in DOMAIN Patterns : \A v \in Levels(p) : \E x \in holds : x.pattern = p /\ x.level = v

LEMMA LevelsAreNatural ==
  ASSUME NEW p \in DOMAIN Patterns
  PROVE  Levels(p) \subseteq Nat /\ IsFiniteSet(Levels(p))
<1>1. Patterns[p] \in Nat \X Nat
  BY PatternsAssumption
<1>2. PICK a \in Nat, b \in Nat : a = Patterns[p][1] /\ b = Patterns[p][2]
  BY <1>1
<1>3. Levels(p) = IF b = 0 THEN {a} ELSE a .. b
  BY <1>2 DEF Levels
<1>4. IsFiniteSet({a}) /\ IsFiniteSet(a .. b)
  <2>1. a \in Int /\ b \in Int
    OBVIOUS
  <2>2. QED
    BY <2>1, FS_Singleton, FS_Interval
<1>5. QED
  BY <1>3, <1>4

(* Whole circuits, rounded up, last as long as they are needed. *)
LEMMA CircuitsSuffice ==
  ASSUME NEW circuit \in Nat \ {0}, NEW need \in Int
  PROVE  /\ Larger(1, (need + circuit - 1) \div circuit) \in Int
         /\ Larger(1, (need + circuit - 1) \div circuit) * circuit \in Int
         /\ Larger(1, (need + circuit - 1) \div circuit) * circuit >= need
<1>1. PICK n \in Int : n = need + circuit - 1
  OBVIOUS
<1>2. PICK q \in Int : q = n \div circuit
  OBVIOUS
<1>3. n < q * circuit + circuit
  BY <1>2
<1>4. PICK r : r = Larger(1, q)
  OBVIOUS
<1>5. r \in Int /\ q <= r
  BY <1>4 DEF Larger
<1>6. PICK x \in Int, y \in Int : x = q * circuit /\ y = r * circuit
  BY <1>5
<1>7. x <= y
  BY <1>5, <1>6, SMT
<1>8. y >= need
  BY <1>1, <1>3, <1>6, <1>7
<1>9. QED
  BY <1>1, <1>2, <1>4, <1>5, <1>6, <1>8

(* A hold is in the pattern asked for, at a level nobody there has; there   *)
(* is none only when all of them are taken.                                 *)
LEMMA AssignedLevelIsFree ==
  ASSUME NEW I, NEW r \in RequestsOf(I), NEW p \in DOMAIN Patterns, NEW taken
  PROVE  /\ Assign(r, p, taken) # {} =>
              \E h \in HoldsOf(I) :
                /\ Assign(r, p, taken) = {h} /\ Grants(h, r)
                /\ \A x \in taken : x.pattern = h.pattern => x.level # h.level
         /\ Assign(r, p, taken) = {} /\ r.need > 0 =>
              \A v \in Levels(p) : \E x \in taken : x.pattern = p /\ x.level = v
<1> DEFINE free == Levels(p) \ {h.level : h \in {x \in taken : x.pattern = p}}
           circuit == Fleet[r.type].circuit
           circuits == Larger(1, (r.need + circuit - 1) \div circuit)
           delay == circuits * circuit
           level == CHOOSE v \in free : \A w \in free : v <= w
           informed == delay >= DelayInfoThreshold
           h == [id |-> r.id, pattern |-> p, level |-> level, delay |-> delay, informed |-> informed]
<1>1. Assign(r, p, taken) = IF r.need <= 0 \/ free = {} THEN {} ELSE {h}
  BY DEF Assign
<1>2. r.id \in I /\ r.need \in Int /\ r.type \in DOMAIN Fleet
  BY DEF RequestsOf
<1>3. delay \in Int /\ delay >= r.need
  <2>1. circuit \in Nat \ {0}
    BY <1>2, FleetAssumption
  <2> HIDE DEF circuit
  <2>2. QED
    BY <1>2, <2>1, CircuitsSuffice
<1>4. ASSUME Assign(r, p, taken) # {}
      PROVE  \E g \in HoldsOf(I) :
               /\ Assign(r, p, taken) = {g} /\ Grants(g, r)
               /\ \A x \in taken : x.pattern = g.pattern => x.level # g.level
  <2>1. free # {} /\ free \subseteq Nat
    BY <1>1, <1>4, LevelsAreNatural
  <2>2. level \in free
    <3> HIDE DEF free
    <3>1. \E v \in free : \A w \in free : v <= w
      BY <2>1, LeastExists
    <3>2. QED
      BY <3>1
  <2>3. p \in Nat
    BY PatternsAssumption
  <2>4. informed \in BOOLEAN
    OBVIOUS
  <2>5. /\ level \in Nat /\ level \in Levels(p)
        /\ \A x \in taken : x.pattern = p => x.level # level
    BY <2>1, <2>2
  <2> HIDE DEF free, level, delay, informed
  <2>6. h \in HoldsOf(I) /\ h.id = r.id /\ h.pattern = p /\ h.level = level /\ h.delay = delay
    BY <1>2, <1>3, <2>3, <2>4, <2>5 DEF HoldsOf
  <2>7. Assign(r, p, taken) = {h}
    BY <1>1, <1>4
  <2> HIDE DEF h
  <2>8. Grants(h, r)
    BY <1>3, <2>5, <2>6 DEF Grants
  <2>9. QED
    BY <2>5, <2>6, <2>7, <2>8
<1>5. ASSUME Assign(r, p, taken) = {}, r.need > 0, NEW v \in Levels(p)
      PROVE  \E x \in taken : x.pattern = p /\ x.level = v
  <2>1. free = {}
    <3>1. ~ (r.need <= 0)
      BY <1>2, <1>5
    <3> HIDE DEF free, h
    <3>2. QED
      BY <1>1, <1>5, <3>1
  <2>2. QED
    BY <2>1
<1> HIDE DEF h, free
<1>6. QED
  BY <1>4, <1>5

(* One request is held where nobody is, or refused because somebody is      *)
(* everywhere; nothing else changes.                                        *)
LEMMA StackedOne ==
  ASSUME NEW I, NEW r \in RequestsOf(I), NEW s \in StacksOf(I)
  PROVE  /\ Stacked(r, s) \in StacksOf(I)
         /\ \/ /\ Stacked(r, s).holds = s.holds
               /\ Stacked(r, s).refused = s.refused \cup {r.id}
               /\ r.need > 0 => Full(s.holds)
            \/ /\ Stacked(r, s).refused = s.refused
               /\ \E h \in HoldsOf(I) :
                    /\ Stacked(r, s).holds = s.holds \cup {h} /\ Grants(h, r)
                    /\ \A x \in s.holds : x.pattern = h.pattern => x.level # h.level
<1> DEFINE room == {p \in DOMAIN Patterns : Assign(r, p, s.holds) # {}}
           first == CHOOSE p \in room : \A q \in room : p <= q
<1>1. Stacked(r, s) = IF room = {} THEN [s EXCEPT !.refused = @ \cup {r.id}]
                      ELSE [s EXCEPT !.holds = @ \cup Assign(r, first, @)]
  BY DEF Stacked
<1>2. CASE room = {}
  <2>1. Stacked(r, s) = [s EXCEPT !.refused = s.refused \cup {r.id}]
    BY <1>1, <1>2
  <2>2. r.id \in I /\ s.refused \cup {r.id} \in SUBSET I
    BY DEF RequestsOf, StacksOf
  <2>3. r.need > 0 => Full(s.holds)
    <3>1. PICK taken : taken = s.holds
      OBVIOUS
    <3>2. \A p \in DOMAIN Patterns : Assign(r, p, taken) = {}
      BY <1>2, <3>1
    <3>3. r.need > 0 => Full(taken)
      BY <3>2, AssignedLevelIsFree DEF Full
    <3>4. QED
      BY <3>1, <3>3
  <2>4. QED
    BY <2>1, <2>2, <2>3 DEF StacksOf
<1>3. CASE room # {}
  <2>1. room \subseteq Nat
    BY PatternsAssumption
  <2>2. first \in room
    <3> HIDE DEF room
    <3>1. \E p \in room : \A q \in room : p <= q
      BY <1>3, <2>1, LeastExists
    <3>2. QED
      BY <3>1
  <2>3. PICK p \in DOMAIN Patterns : p = first /\ Assign(r, p, s.holds) # {}
    BY <2>2
  <2>4. PICK h \in HoldsOf(I) :
          /\ Assign(r, p, s.holds) = {h} /\ Grants(h, r)
          /\ \A x \in s.holds : x.pattern = h.pattern => x.level # h.level
    <3> HIDE DEF room, first
    <3>1. PICK taken : taken = s.holds
      OBVIOUS
    <3>2. QED
      BY <2>3, <3>1, AssignedLevelIsFree
  <2>5. Stacked(r, s) = [s EXCEPT !.holds = s.holds \cup {h}]
    <3> HIDE DEF room, first
    <3>1. QED
      BY <1>1, <1>3, <2>3, <2>4
  <2>6. s.holds \cup {h} \in SUBSET HoldsOf(I)
    BY DEF StacksOf
  <2>7. /\ Stacked(r, s) \in StacksOf(I) /\ Stacked(r, s).holds = s.holds \cup {h}
        /\ Stacked(r, s).refused = s.refused
    BY <2>5, <2>6 DEF StacksOf
  <2>8. QED
    BY <2>4, <2>7
<1>4. QED
  BY <1>2, <1>3

(* Stacking is the recursion over the requests. *)
Stacks(f, q, n) ==
  /\ f[0] = [holds |-> {}, refused |-> {}]
  /\ \A i \in 1 .. n : f[i] = Stacked(q[i], f[i - 1])
  /\ Stack(q) = f[n]

LEMMA StackRecurs ==
  ASSUME NEW I, NEW n \in Nat, NEW q, q \in [1 .. n -> RequestsOf(I)]
  PROVE  \E f \in [0 .. n -> StacksOf(I)] : Stacks(f, q, n)
<1> DEFINE nothing == [holds |-> {}, refused |-> {}]
           G == [p \in (1 .. n) \X StacksOf(I) |-> Stacked(q[p[1]], p[2])]
           Recursion(f) == [i \in 0 .. Len(q) |->
                              IF i = 0 THEN nothing ELSE Stacked(q[i], f[i - 1])]
           placed == CHOOSE f : f = Recursion(f)
<1>1. Len(q) = n
  BY FunctionIsSequence
<1>2. nothing \in StacksOf(I)
  BY DEF StacksOf
<1>3. G \in [(1 .. n) \X StacksOf(I) -> StacksOf(I)]
  BY StackedOne
<1>4. \A i \in 1 .. n, s \in StacksOf(I) : G[<<i, s>>] = Stacked(q[i], s)
  OBVIOUS
<1>5. Stack(q) = placed[n]
  BY <1>1 DEF Stack
<1> HIDE DEF G, nothing
<1>6. PICK f \in [0 .. n -> StacksOf(I)] :
        f[0] = nothing /\ \A i \in 1 .. n : f[i] = G[<<i, f[i - 1]>>]
  <2> HIDE DEF Recursion, placed
  <2>1. PICK V : V = StacksOf(I)
    OBVIOUS
  <2>2. PICK x \in V, g \in {G} : StepsThrough(g, n, V) /\ x = nothing
    BY <1>2, <1>3, <2>1 DEF StepsThrough
  <2>3. n \in Nat
    OBVIOUS
  <2>4. PICK f \in [0 .. n -> V] : Recurs(f, n, x, g)
    BY <2>2, <2>3, RecursionExists
  <2>5. QED
    BY <2>1, <2>2, <2>4 DEF Recurs
<1>7. \A i \in 1 .. n : f[i] = Stacked(q[i], f[i - 1])
  <2> TAKE i \in 1 .. n
  <2>1. f[i - 1] \in StacksOf(I)
    OBVIOUS
  <2>2. QED
    BY <1>4, <1>6, <2>1
<1>8. f = Recursion(f)
  <2>1. \A i \in 0 .. n : f[i] = IF i = 0 THEN nothing ELSE Stacked(q[i], f[i - 1])
    BY <1>6, <1>7
  <2>2. f = [i \in 0 .. n |-> f[i]]
    OBVIOUS
  <2>3. QED
    BY <1>1, <2>1, <2>2
<1>9. placed = Recursion(placed)
  <2> HIDE DEF Recursion
  <2>1. QED
    BY <1>8
<1>10. placed \in [0 .. n -> StacksOf(I)] /\ placed[0] = nothing
       /\ \A i \in 1 .. n : placed[i] = Stacked(q[i], placed[i - 1])
  <2> HIDE DEF placed
  <2>1. placed = [i \in 0 .. n |-> IF i = 0 THEN nothing ELSE Stacked(q[i], placed[i - 1])]
    BY <1>1, <1>9
  <2> HIDE DEF Recursion
  <2>2. placed[0] = nothing /\ \A i \in 1 .. n : placed[i] = Stacked(q[i], placed[i - 1])
    <3>1. 0 \in 0 .. n /\ \A i \in 1 .. n : i \in 0 .. n /\ i # 0
      OBVIOUS
    <3>2. \A i \in 0 .. n : placed[i] = IF i = 0 THEN nothing ELSE Stacked(q[i], placed[i - 1])
      BY <2>1
    <3>3. QED
      BY <3>1, <3>2
  <2> DEFINE S == {i \in Nat : i <= n => placed[i] \in StacksOf(I)}
  <2>3. 0 \in S
    BY <1>2, <2>2
  <2>4. ASSUME NEW i \in Nat, i \in S PROVE i + 1 \in S
    <3>1. CASE i + 1 <= n
      <4>1. placed[i] \in StacksOf(I) /\ i + 1 \in 1 .. n /\ (i + 1) - 1 = i
        BY <2>4, <3>1
      <4>2. placed[i + 1] = Stacked(q[i + 1], placed[i])
        BY <2>2, <4>1
      <4>3. QED
        BY <4>1, <4>2, StackedOne
    <3>2. QED
      BY <3>1
  <2>5. \A i \in 0 .. n : placed[i] \in StacksOf(I)
    <3> HIDE DEF S
    <3>1. Nat \subseteq S
      BY <2>3, <2>4, SetInduction
    <3>2. QED
      BY <3>1 DEF S
  <2>6. placed \in [0 .. n -> StacksOf(I)]
    <3>1. placed = [i \in 0 .. n |-> placed[i]]
      BY <2>1
    <3>2. QED
      BY <2>5, <3>1
  <2>7. QED
    BY <2>2, <2>6
<1>11. QED
  <2> HIDE DEF placed
  <2>1. QED
    BY <1>5, <1>10 DEF nothing, Stacks

(* Everyone asked for is told where to hold or that there is no room,       *)
(* nobody else is, and no two have the same level of a pattern.             *)
Accounts(s, ids) ==
  /\ {x.id : x \in s.holds} \cup s.refused = ids
  /\ \A x, y \in s.holds : x.pattern = y.pattern /\ x.level = y.level => x = y

LEMMA StackAccounts ==
  ASSUME NEW I, NEW n \in Nat, NEW q, q \in [1 .. n -> RequestsOf(I)]
  PROVE  Accounts(Stack(q), {q[i].id : i \in 1 .. n})
<1>0. PICK f \in [0 .. n -> StacksOf(I)] : Stacks(f, q, n)
  BY StackRecurs
<1>1. /\ f[0] = [holds |-> {}, refused |-> {}]
      /\ \A i \in 1 .. n : f[i] = Stacked(q[i], f[i - 1])
      /\ Stack(q) = f[n]
  BY <1>0 DEF Stacks
<1> DEFINE S == {m \in Nat : m <= n => Accounts(f[m], {q[i].id : i \in 1 .. m})}
<1>2. 0 \in S
  <2>1. {q[i].id : i \in 1 .. 0} = {}
    OBVIOUS
  <2>2. f[0].holds = {} /\ f[0].refused = {}
    BY <1>1
  <2>3. QED
    BY <2>1, <2>2 DEF Accounts
<1>3. ASSUME NEW m \in Nat, m \in S
      PROVE  m + 1 \in S
  <2>1. SUFFICES ASSUME m + 1 <= n
                 PROVE  Accounts(f[m + 1], {q[i].id : i \in 1 .. m + 1})
    OBVIOUS
  <2>2. m + 1 \in 1 .. n /\ (m + 1) - 1 = m /\ m \in 0 .. n
    BY <2>1
  <2>3. PICK r \in RequestsOf(I) : r = q[m + 1]
    BY <2>2
  <2>4. PICK s \in StacksOf(I) : s = f[m]
    BY <2>2
  <2>5. PICK t : t = Stacked(r, s)
    OBVIOUS
  <2>6. f[m + 1] = t
    BY <1>1, <2>2, <2>3, <2>4, <2>5
  <2>7. PICK ids : ids = {q[i].id : i \in 1 .. m}
    OBVIOUS
  <2>8. Accounts(s, ids)
    BY <1>3, <2>1, <2>4, <2>7
  <2>9. {q[i].id : i \in 1 .. m + 1} = ids \cup {r.id}
    <3>1. \A i \in 1 .. m + 1 : i \in 1 .. m \/ i = m + 1
      OBVIOUS
    <3>2. \A i \in 1 .. m : i \in 1 .. m + 1
      OBVIOUS
    <3>3. m + 1 \in 1 .. m + 1
      OBVIOUS
    <3>4. \A x : x \in {q[i].id : i \in 1 .. m + 1} <=> x \in ids \cup {r.id}
      BY <2>3, <2>7, <3>1, <3>2, <3>3
    <3>5. QED
      BY <3>4
  <2>10. Accounts(t, ids \cup {r.id})
    <3>1. CASE t.holds = s.holds /\ t.refused = s.refused \cup {r.id}
      BY <2>8, <3>1 DEF Accounts
    <3>2. ASSUME t.refused = s.refused,
                 NEW h \in HoldsOf(I), t.holds = s.holds \cup {h}, Grants(h, r),
                 \A x \in s.holds : x.pattern = h.pattern => x.level # h.level
          PROVE  Accounts(t, ids \cup {r.id})
      <4>1. {x.id : x \in t.holds} = {x.id : x \in s.holds} \cup {r.id}
        BY <3>2 DEF Grants
      <4>2. \A x, y \in t.holds : x.pattern = y.pattern /\ x.level = y.level => x = y
        BY <2>8, <3>2 DEF Accounts
      <4>3. QED
        BY <2>8, <3>2, <4>1, <4>2 DEF Accounts, Grants
    <3>3. \/ t.holds = s.holds /\ t.refused = s.refused \cup {r.id}
          \/ /\ t.refused = s.refused
             /\ \E h \in HoldsOf(I) :
                  /\ t.holds = s.holds \cup {h} /\ Grants(h, r)
                  /\ \A x \in s.holds : x.pattern = h.pattern => x.level # h.level
      BY <2>5, StackedOne
    <3>4. QED
      BY <3>1, <3>2, <3>3
  <2>11. QED
    BY <2>6, <2>9, <2>10
<1>4. n \in S
  <2> HIDE DEF S
  <2>1. QED
    BY <1>2, <1>3, SetInduction
<1>5. QED
  BY <1>1, <1>4

(* Each hold answers a request of its own, for long enough at a published   *)
(* level; who is refused are the requests no hold answers, and requests     *)
(* that all need time are refused only when every level is taken.           *)
Answers(a, s, q, n) ==
  /\ a \in [s.holds -> 1 .. n]
  /\ \A h, k \in s.holds : a[h] = a[k] => h = k
  /\ \A h \in s.holds : Grants(h, q[a[h]])
  /\ \A x : x \in s.refused <=> \E i \in 1 .. n : x = q[i].id /\ \A h \in s.holds : a[h] # i
Granted(s, q, n) ==
  /\ \E a : Answers(a, s, q, n)
  /\ s.refused # {} => Full(s.holds)

LEMMA StackGrants ==
  ASSUME NEW I, NEW n \in Nat, NEW q, q \in [1 .. n -> RequestsOf(I)],
         \A i \in 1 .. n : q[i].need > 0
  PROVE  Granted(Stack(q), q, n) /\ Stack(q) \in StacksOf(I)
<1>0. PICK f \in [0 .. n -> StacksOf(I)] : Stacks(f, q, n)
  BY StackRecurs
<1>1. /\ f[0] = [holds |-> {}, refused |-> {}]
      /\ \A i \in 1 .. n : f[i] = Stacked(q[i], f[i - 1])
      /\ Stack(q) = f[n]
  BY <1>0 DEF Stacks
<1> DEFINE S == {m \in Nat : m <= n => Granted(f[m], q, m)}
<1>2. 0 \in S
  <2>1. PICK s : s = f[0]
    OBVIOUS
  <2>2. s.holds = {} /\ s.refused = {}
    BY <1>1, <2>1
  <2>3. PICK a : a = [h \in {} |-> 0]
    OBVIOUS
  <2>4. Answers(a, s, q, 0)
    <3>1. a \in [s.holds -> 1 .. 0]
      BY <2>2, <2>3
    <3>2. \A i \in 1 .. 0 : FALSE
      OBVIOUS
    <3>3. QED
      BY <2>2, <3>1, <3>2 DEF Answers
  <2>5. QED
    BY <2>1, <2>2, <2>4 DEF Granted
<1>3. ASSUME NEW m \in Nat, m \in S PROVE m + 1 \in S
  <2>1. SUFFICES ASSUME m + 1 <= n PROVE Granted(f[m + 1], q, m + 1)
    OBVIOUS
  <2>2. m + 1 \in 1 .. n /\ (m + 1) - 1 = m /\ m \in 0 .. n
    BY <2>1
  <2>3. PICK r \in RequestsOf(I) : r = q[m + 1]
    BY <2>2
  <2>4. PICK s \in StacksOf(I) : s = f[m]
    BY <2>2
  <2>5. PICK t : t = Stacked(r, s)
    OBVIOUS
  <2>6. f[m + 1] = t
    BY <1>1, <2>2, <2>3, <2>4, <2>5
  <2>7. PICK a : Answers(a, s, q, m)
    BY <1>3, <2>1, <2>4 DEF Granted
  <2>8. s.refused # {} => Full(s.holds)
    BY <1>3, <2>1, <2>4 DEF Granted
  <2>9. r.need > 0
    BY <2>2, <2>3
  <2>10. /\ \A i \in 1 .. m : i \in 1 .. m + 1 /\ i # m + 1
         /\ \A i \in 1 .. m + 1 : i \in 1 .. m \/ i = m + 1
         /\ m + 1 \in 1 .. m + 1
    OBVIOUS
  <2>11. /\ a \in [s.holds -> 1 .. m]
         /\ \A h, k \in s.holds : a[h] = a[k] => h = k
         /\ \A h \in s.holds : a[h] \in 1 .. m /\ Grants(h, q[a[h]])
         /\ \A x : x \in s.refused <=>
                     \E i \in 1 .. m : x = q[i].id /\ \A h \in s.holds : a[h] # i
    BY <2>7 DEF Answers
  <2>12. CASE t.holds = s.holds /\ t.refused = s.refused \cup {r.id} /\ Full(s.holds)
    <3>1. a \in [t.holds -> 1 .. m + 1]
      BY <2>10, <2>11, <2>12
    <3>2. \A h \in t.holds : a[h] # m + 1
      BY <2>10, <2>11, <2>12
    <3>3. ASSUME NEW x
          PROVE  x \in t.refused <=>
                   \E i \in 1 .. m + 1 : x = q[i].id /\ \A h \in t.holds : a[h] # i
      <4>1. x \in t.refused <=> x \in s.refused \/ x = q[m + 1].id
        BY <2>3, <2>12
      <4>2. x \in s.refused <=>
              \E i \in 1 .. m : x = q[i].id /\ \A h \in t.holds : a[h] # i
        BY <2>11, <2>12
      <4>3. QED
        BY <2>10, <3>2, <4>1, <4>2
    <3>4. Answers(a, t, q, m + 1)
      BY <2>11, <2>12, <3>1, <3>3 DEF Answers
    <3>5. QED
      BY <2>6, <2>12, <3>4 DEF Granted
  <2>13. ASSUME t.refused = s.refused, NEW g \in HoldsOf(I),
                t.holds = s.holds \cup {g}, Grants(g, r),
                \A x \in s.holds : x.pattern = g.pattern => x.level # g.level
         PROVE  Granted(f[m + 1], q, m + 1)
    <3>1. g \notin s.holds
      BY <2>13
    <3>2. PICK b : b = [h \in t.holds |-> IF h = g THEN m + 1 ELSE a[h]]
      OBVIOUS
    <3>3. b[g] = m + 1 /\ \A h \in s.holds : b[h] = a[h] /\ h # g
      BY <2>13, <3>1, <3>2
    <3>4. \A h \in t.holds : h \in s.holds \/ h = g
      BY <2>13
    <3>5. b \in [t.holds -> 1 .. m + 1]
      <4>1. \A h \in t.holds : b[h] \in 1 .. m + 1
        BY <2>10, <2>11, <3>3, <3>4
      <4>2. QED
        BY <3>2, <4>1
    <3>6. \A h, k \in t.holds : b[h] = b[k] => h = k
      BY <2>10, <2>11, <3>3, <3>4
    <3>7. \A h \in t.holds : Grants(h, q[b[h]])
      BY <2>3, <2>11, <2>13, <3>3, <3>4
    <3>8. ASSUME NEW x
          PROVE  x \in t.refused <=>
                   \E i \in 1 .. m + 1 : x = q[i].id /\ \A h \in t.holds : b[h] # i
      <4>1. \A i \in 1 .. m : (\A h \in s.holds : a[h] # i) <=> (\A h \in t.holds : b[h] # i)
        BY <2>10, <2>13, <3>3, <3>4
      <4>2. g \in t.holds
        BY <2>13
      <4>3. b[g] = m + 1
        BY <3>3
      <4>4. \A i \in 1 .. m + 1 : (\A h \in t.holds : b[h] # i) => i \in 1 .. m
        BY <2>10, <4>2, <4>3
      <4>5. x \in t.refused <=>
              \E i \in 1 .. m : x = q[i].id /\ \A h \in t.holds : b[h] # i
        <5>1. x \in s.refused <=>
                \E i \in 1 .. m : x = q[i].id /\ \A h \in s.holds : a[h] # i
          BY <2>11
        <5>2. QED
          BY <2>13, <4>1, <5>1
      <4>6. QED
        BY <2>10, <4>4, <4>5
    <3>9. Answers(b, t, q, m + 1)
      BY <3>5, <3>6, <3>7, <3>8 DEF Answers
    <3>10. t.refused # {} => Full(t.holds)
      BY <2>8, <2>13 DEF Full
    <3>11. QED
      BY <2>6, <3>9, <3>10 DEF Granted
  <2>14. \/ t.holds = s.holds /\ t.refused = s.refused \cup {r.id} /\ Full(s.holds)
         \/ /\ t.refused = s.refused
            /\ \E g \in HoldsOf(I) :
                 /\ t.holds = s.holds \cup {g} /\ Grants(g, r)
                 /\ \A x \in s.holds : x.pattern = g.pattern => x.level # g.level
    BY <2>5, <2>9, StackedOne
  <2>15. QED
    BY <2>12, <2>13, <2>14
<1>4. n \in S
  <2> HIDE DEF S
  <2>1. QED
    BY <1>2, <1>3, SetInduction
<1>5. Stack(q) \in StacksOf(I)
  <2>1. n \in 0 .. n
    OBVIOUS
  <2>2. QED
    BY <1>1, <2>1
<1>6. QED
  BY <1>1, <1>4, <1>5

(* The capacity counts the published levels.                                *)
Spots(n) == UNION {{p} \X Levels(p) : p \in 1 .. n}

LEMMA CapacityCounts ==
  IsFiniteSet(Spots(Len(Patterns))) /\ Cardinality(Spots(Len(Patterns))) = Capacity
<1>1. PICK n \in Nat : n = Len(Patterns) /\ DOMAIN Patterns = 1 .. n
  BY PatternsAssumption
<1>2. \A p \in 1 .. n : IsFiniteSet(Levels(p)) /\ Cardinality(Levels(p)) \in Nat
  BY <1>1, LevelsAreNatural, FS_CardinalityType
<1> DEFINE G == [p \in (1 .. n) \X Nat |-> p[2] + Cardinality(Levels(p[1]))]
           Recursion(f) == [p \in 0 .. n |-> IF p = 0 THEN 0 ELSE f[p - 1] + Cardinality(Levels(p))]
           sum == CHOOSE f : f = Recursion(f)
<1>3. Capacity = sum[n]
  BY <1>1 DEF Capacity
<1>4. G \in [(1 .. n) \X Nat -> Nat]
      /\ \A p \in 1 .. n, v \in Nat : G[<<p, v>>] = v + Cardinality(Levels(p))
  BY <1>2
<1> HIDE DEF G
<1>5. PICK f \in [0 .. n -> Nat] : f[0] = 0 /\ \A i \in 1 .. n : f[i] = G[<<i, f[i - 1]>>]
  <2> HIDE DEF Recursion, sum
  <2>1. PICK U : U = Nat
    OBVIOUS
  <2>2. PICK x \in U, g \in {G} : StepsThrough(g, n, U) /\ x = 0
    BY <1>4, <2>1 DEF StepsThrough
  <2>3. n \in Nat
    OBVIOUS
  <2>4. PICK f \in [0 .. n -> U] : Recurs(f, n, x, g)
    BY <2>2, <2>3, RecursionExists
  <2>5. QED
    BY <2>1, <2>2, <2>4 DEF Recurs
<1>6. f = Recursion(f)
  <2>1. \A i \in 0 .. n : f[i] = IF i = 0 THEN 0 ELSE f[i - 1] + Cardinality(Levels(i))
    <3> TAKE i \in 0 .. n
    <3>1. i # 0 => i \in 1 .. n /\ f[i - 1] \in Nat
      OBVIOUS
    <3>2. QED
      BY <1>4, <1>5, <3>1
  <2>2. f = [i \in 0 .. n |-> f[i]]
    OBVIOUS
  <2>3. QED
    BY <2>1, <2>2
<1>7. sum = Recursion(sum)
  <2> HIDE DEF Recursion
  <2>1. QED
    BY <1>6
<1>8. PICK l : l = sum
  OBVIOUS
<1>9. l = [i \in 0 .. n |-> IF i = 0 THEN 0 ELSE l[i - 1] + Cardinality(Levels(i))]
  <2> HIDE DEF sum
  <2>1. QED
    BY <1>7, <1>8
<1>10. l[0] = 0 /\ \A i \in 1 .. n : l[i] = l[i - 1] + Cardinality(Levels(i))
  <2>1. \A i \in 0 .. n : l[i] = IF i = 0 THEN 0 ELSE l[i - 1] + Cardinality(Levels(i))
    BY <1>9
  <2>2. 0 \in 0 .. n /\ \A i \in 1 .. n : i \in 0 .. n /\ i # 0
    OBVIOUS
  <2>3. QED
    BY <2>1, <2>2
<1> DEFINE S == {m \in Nat : m <= n => IsFiniteSet(Spots(m)) /\ Cardinality(Spots(m)) = l[m]}
<1>11. 0 \in S
  <2>1. Spots(0) = {}
    BY DEF Spots
  <2>2. QED
    BY <1>10, <2>1, FS_EmptySet
<1>12. ASSUME NEW m \in Nat, m \in S PROVE m + 1 \in S
  <2>1. SUFFICES ASSUME m + 1 <= n
                 PROVE  IsFiniteSet(Spots(m + 1)) /\ Cardinality(Spots(m + 1)) = l[m + 1]
    OBVIOUS
  <2>2. m + 1 \in 1 .. n /\ (m + 1) - 1 = m
    BY <2>1
  <2>3. PICK c \in Nat : c = Cardinality(Levels(m + 1)) /\ IsFiniteSet(Levels(m + 1))
    BY <1>2, <2>2
  <2>4. PICK A, B : A = Spots(m) /\ B = {m + 1} \X Levels(m + 1)
    OBVIOUS
  <2>5. IsFiniteSet(A) /\ Cardinality(A) = l[m] /\ Cardinality(A) \in Nat
    BY <1>12, <2>1, <2>4, FS_CardinalityType
  <2>6. IsFiniteSet(B) /\ Cardinality(B) = c
    <3>1. IsFiniteSet({m + 1}) /\ Cardinality({m + 1}) = 1
      BY FS_Singleton
    <3>2. IsFiniteSet(B) /\ Cardinality(B) = 1 * c
      BY <2>3, <2>4, <3>1, FS_Product
    <3>3. QED
      BY <2>3, <3>2
  <2>7. Spots(m + 1) = A \cup B
    <3>1. \A x : x \in Spots(m + 1) <=> \E p \in 1 .. m + 1 : x \in {p} \X Levels(p)
      BY DEF Spots
    <3>2. \A x : x \in A <=> \E p \in 1 .. m : x \in {p} \X Levels(p)
      BY <2>4 DEF Spots
    <3>3. \A p : p \in 1 .. m + 1 <=> p \in 1 .. m \/ p = m + 1
      OBVIOUS
    <3>4. QED
      BY <2>4, <3>1, <3>2, <3>3
  <2>8. A \cap B = {}
    <3> SUFFICES ASSUME NEW x, x \in A, x \in B PROVE FALSE
      OBVIOUS
    <3>1. PICK p \in 1 .. m : x \in {p} \X Levels(p)
      BY <2>4 DEF Spots
    <3>2. x[1] = p /\ x[1] = m + 1
      BY <2>4, <3>1
    <3>3. QED
      BY <3>2
  <2>9. IsFiniteSet(A \cup B) /\ Cardinality(A \cup B) = Cardinality(A) + Cardinality(B)
    <3>1. /\ IsFiniteSet(A \cup B)
          /\ Cardinality(A \cup B) = Cardinality(A) + Cardinality(B) - Cardinality(A \cap B)
      BY <2>5, <2>6, FS_Union
    <3>2. Cardinality(A \cap B) = 0
      BY <2>8, FS_EmptySet
    <3>3. QED
      BY <2>3, <2>5, <2>6, <3>1, <3>2
  <2>10. l[m + 1] = l[m] + c
    BY <1>10, <2>2, <2>3
  <2>11. QED
    BY <2>5, <2>6, <2>7, <2>9, <2>10
<1>13. n \in S
  <2> HIDE DEF S
  <2>1. QED
    BY <1>11, <1>12, SetInduction
<1>14. Capacity = l[n]
  <2> HIDE DEF sum
  <2>1. QED
    BY <1>3, <1>8
<1>15. QED
  BY <1>1, <1>13, <1>14

(* One hold per level and somebody at every level: that many are held. *)
LEMMA FullIsCapacity ==
  ASSUME NEW holds, Full(holds),
         \A h \in holds : h.pattern \in DOMAIN Patterns /\ h.level \in Levels(h.pattern),
         \A h, k \in holds : h.pattern = k.pattern /\ h.level = k.level => h = k
  PROVE  Cardinality(holds) = Capacity
<1>1. PICK n \in Nat : n = Len(Patterns) /\ DOMAIN Patterns = 1 .. n
  BY PatternsAssumption
<1>2. PICK T : T = Spots(n)
  OBVIOUS
<1>3. PICK f : f = [h \in holds |-> <<h.pattern, h.level>>]
  OBVIOUS
<1>4. \A p, v : <<p, v>> \in T <=> p \in 1 .. n /\ v \in Levels(p)
  BY <1>2 DEF Spots
<1>5. f \in [holds -> T]
  BY <1>1, <1>3, <1>4
<1>6. \A h, k \in holds : f[h] = f[k] => h = k
  BY <1>3
<1>7. \A x \in T : \E h \in holds : f[h] = x
  <2> TAKE x \in T
  <2>1. PICK p \in 1 .. n : \E v \in Levels(p) : x = <<p, v>>
    BY <1>2 DEF Spots
  <2>2. PICK v \in Levels(p) : x = <<p, v>>
    BY <2>1
  <2>3. PICK h \in holds : h.pattern = p /\ h.level = v
    BY <1>1 DEF Full
  <2>4. QED
    BY <1>3, <2>2, <2>3
<1>8. f \in Injection(holds, T) /\ f \in Surjection(holds, T)
  BY <1>5, <1>6, <1>7 DEF Injection, IsInjective, Surjection
<1>9. IsFiniteSet(T) /\ Cardinality(T) = Capacity
  BY <1>1, <1>2, CapacityCounts
<1>10. QED
  BY <1>8, <1>9, FS_Injection
=============================================================================
