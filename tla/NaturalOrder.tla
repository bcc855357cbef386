---------------------------- MODULE NaturalOrder ----------------------------
(***************************************************************************)
(* Facts about natural numbers and sequences that the other proofs rest    *)
(* on: a set of numbers has a least element, what holds of the first and   *)
(* of the next one of each holds of all, what is computed step by step     *)
(* exists, and where the elements of a sequence are once one of them has   *)
(* been put in or taken out.  The library states induction for an operator *)
(* P(_); here it is stated for a set, which a prover can instantiate, and  *)
(* follows from the well-foundedness of < on Nat.                          *)
(***************************************************************************)
EXTENDS Integers, Sequences, FiniteSets, WellFoundedInduction, FiniteSetTheorems, TLAPS

LEMMA LessIsWellFounded == IsWellFoundedOn({p \in Nat \X Nat : p[1] < p[2]}, Nat)
<1>1. OpToRel(<, Nat) = {p \in Nat \X Nat : p[1] < p[2]}
  BY DEF OpToRel
<1>2. QED
  BY <1>1, NatLessThanWellFounded

LEMMA LeastExists ==
  ASSUME NEW T, T \subseteq Nat, T # {}
  PROVE  \E x \in T : \A y \in T : x <= y
<1> DEFINE R == {p \in Nat \X Nat : p[1] < p[2]}
<1>1. PICK x \in T : \A y \in T : ~ (<<y, x>> \in R)
  <2>1. IsWellFoundedOn(R, Nat)
    BY LessIsWellFounded
  <2> HIDE DEF R
  <2>2. QED
    BY <2>1, WFMin
<1>2. \A y \in T : <<y, x>> \in Nat \X Nat
  OBVIOUS
<1>3. \A y \in T : ~ (y < x)
  BY <1>1, <1>2
<1>4. \A y \in T : x <= y
  BY <1>3
<1>5. QED
  BY <1>4

LEMMA SetInduction ==
  ASSUME NEW S, 0 \in S, \A n \in Nat : n \in S => n + 1 \in S
  PROVE  Nat \subseteq S
<1>1. SUFFICES ASSUME Nat \ S # {} PROVE FALSE
  OBVIOUS
<1>2. PICK x \in Nat \ S : \A y \in Nat \ S : x <= y
  BY <1>1, LeastExists
<1>3. x - 1 \in Nat
  BY <1>2
<1>4. x - 1 \in S
  BY <1>2, <1>3
<1>5. QED
  BY <1>2, <1>3, <1>4

(* What is computed element by element along a sequence exists: a function  *)
(* f that begins with x and whose i-th value is made of the one before it.  *)
StepsThrough(G, n, V) == G \in [(1 .. n) \X V -> V]
Recurs(f, n, x, G) == f[0] = x /\ \A i \in 1 .. n : f[i] = G[<<i, f[i - 1]>>]

LEMMA RecursionExists ==
  ASSUME NEW n \in Nat, NEW V, NEW x \in V, NEW G, StepsThrough(G, n, V)
  PROVE  \E f \in [0 .. n -> V] : Recurs(f, n, x, G)
<1> USE DEF StepsThrough, Recurs
<1> DEFINE Solves(f, m) ==
             f \in [0 .. m -> V] /\ f[0] = x /\ \A i \in 1 .. m : f[i] = G[<<i, f[i - 1]>>]
           S == {m \in Nat : m <= n => \E f : Solves(f, m)}
<1>1. 0 \in S
  <2>1. Solves([i \in 0 .. 0 |-> x], 0)
    OBVIOUS
  <2>2. QED
    BY <2>1
<1>2. ASSUME NEW m \in Nat, m \in S
      PROVE  m + 1 \in S
  <2>1. SUFFICES ASSUME m + 1 <= n
                 PROVE  \E f : Solves(f, m + 1)
    OBVIOUS
  <2>2. PICK f : Solves(f, m)
    BY <1>2, <2>1
  <2>3. f[m] \in V /\ m + 1 \in 1 .. n
    BY <2>1, <2>2
  <2>4. PICK v \in V : v = G[<<m + 1, f[m]>>]
    BY <2>3
  <2> DEFINE g == [i \in 0 .. m + 1 |-> IF i = m + 1 THEN v ELSE f[i]]
  <2>5. g \in [0 .. m + 1 -> V]
    BY <2>2
  <2>6. \A i \in 0 .. m : g[i] = f[i]
    OBVIOUS
  <2>7. g[m + 1] = v
    OBVIOUS
  <2> HIDE DEF g
  <2>8. g[0] = x
    BY <2>2, <2>6
  <2>9. ASSUME NEW i \in 1 .. m + 1
        PROVE  g[i] = G[<<i, g[i - 1]>>]
    <3>1. CASE i = m + 1
      <4>1. g[i - 1] = f[m]
        BY <2>6, <3>1
      <4>2. QED
        BY <2>4, <2>7, <3>1, <4>1
    <3>2. CASE i # m + 1
      <4>1. i \in 1 .. m /\ i - 1 \in 0 .. m /\ i \in 0 .. m
        BY <3>2
      <4>2. g[i] = f[i] /\ g[i - 1] = f[i - 1]
        BY <2>6, <4>1
      <4>3. QED
        BY <2>2, <4>1, <4>2
    <3>3. QED
      BY <3>1, <3>2
  <2>10. Solves(g, m + 1)
    BY <2>5, <2>8, <2>9
  <2>11. QED
    BY <2>10
<1>3. n \in S
  <2> HIDE DEF S
  <2>1. QED
    BY <1>1, <1>2, SetInduction
<1>4. QED
  BY <1>3

LEMMA Concatenation ==
  ASSUME NEW V, NEW a \in Seq(V), NEW c \in Seq(V)
  PROVE  /\ a \o c \in Seq(V) /\ Len(a \o c) = Len(a) + Len(c)
         /\ \A i \in 1 .. Len(a) : (a \o c)[i] = a[i]
         /\ \A i \in 1 .. Len(a) + Len(c) : i > Len(a) => (a \o c)[i] = c[i - Len(a)]
  OBVIOUS

LEMMA SequenceIsFunction ==
  ASSUME NEW V, NEW s \in Seq(V), NEW n \in Nat, Len(s) = n
  PROVE  s \in [1 .. n -> V]
  OBVIOUS

LEMMA FunctionIsSequence ==
  ASSUME NEW V, NEW n \in Nat, NEW s, s \in [1 .. n -> V]
  PROVE  s \in Seq(V) /\ Len(s) = n
  OBVIOUS

(* s is q, which has N elements, with e behind the first n.                *)
PutBehind(s, N, q, e, n) ==
  \A i \in 1 .. N + 1 :
    s[i] = IF i <= n THEN q[i] ELSE IF i = n + 1 THEN e ELSE q[i - 1]

LEMMA PutIntoSequence ==
  ASSUME NEW V, NEW N \in Nat, NEW q, q \in [1 .. N -> V], NEW e \in V, NEW n \in 0 .. N
  PROVE  \E s \in [1 .. N + 1 -> V] :
           /\ s = SubSeq(q, 1, n) \o <<e>> \o SubSeq(q, n + 1, Len(q))
           /\ PutBehind(s, N, q, e, n)
<1>1. q \in Seq(V) /\ Len(q) = N
  OBVIOUS
<1>2. /\ SubSeq(q, 1, n) \in Seq(V) /\ Len(SubSeq(q, 1, n)) = n
      /\ \A i \in 1 .. n : SubSeq(q, 1, n)[i] = q[i]
  BY <1>1
<1>3. /\ SubSeq(q, n + 1, N) \in Seq(V) /\ Len(SubSeq(q, n + 1, N)) = N - n
      /\ \A i \in 1 .. N - n : SubSeq(q, n + 1, N)[i] = q[i + n]
  BY <1>1
<1>4. PICK a \in Seq(V), c \in Seq(V) :
        /\ a = SubSeq(q, 1, n) /\ c = SubSeq(q, n + 1, N)
        /\ Len(a) = n /\ Len(c) = N - n
        /\ \A i \in 1 .. n : a[i] = q[i]
        /\ \A i \in 1 .. N - n : c[i] = q[i + n]
  BY <1>2, <1>3
<1>5. SubSeq(q, 1, n) \o <<e>> \o SubSeq(q, n + 1, Len(q)) = (a \o <<e>>) \o c
  BY <1>1, <1>4
<1>6. PICK d \in Seq(V) : /\ d = a \o <<e>> /\ Len(d) = n + 1
                          /\ \A i \in 1 .. n : d[i] = a[i]
                          /\ d[n + 1] = e
  <2>1. <<e>> \in Seq(V) /\ Len(<<e>>) = 1 /\ <<e>>[1] = e
    OBVIOUS
  <2>2. a \o <<e>> \in Seq(V) /\ Len(a \o <<e>>) = n + 1
    BY <1>4, <2>1
  <2>3. (a \o <<e>>)[n + 1] = e /\ \A i \in 1 .. n : (a \o <<e>>)[i] = a[i]
    BY <1>4, <2>1
  <2>4. QED
    BY <2>2, <2>3
<1>7. PICK s : s = d \o c
  OBVIOUS
<1>12. /\ s \in Seq(V) /\ Len(s) = Len(d) + Len(c)
       /\ \A i \in 1 .. Len(d) : s[i] = d[i]
       /\ \A i \in 1 .. Len(d) + Len(c) : i > Len(d) => s[i] = c[i - Len(d)]
  BY <1>7, Concatenation
<1>13. Len(d) + Len(c) = N + 1
  BY <1>4, <1>6
<1>8. s \in [1 .. N + 1 -> V]
  <2>1. N + 1 \in Nat /\ Len(s) = N + 1
    BY <1>12, <1>13
  <2>2. QED
    BY <1>12, <2>1, SequenceIsFunction
<1>9. ASSUME NEW i \in 1 .. N + 1
      PROVE  s[i] = IF i <= n THEN q[i] ELSE IF i = n + 1 THEN e ELSE q[i - 1]
  <2>1. CASE i <= n + 1
    <3>1. s[i] = d[i]
      <4>1. i \in 1 .. Len(d)
        BY <1>6, <2>1
      <4>2. QED
        BY <1>12, <4>1
    <3>2. i \in 1 .. n \/ i = n + 1
      BY <2>1
    <3>3. QED
      BY <1>4, <1>6, <3>1, <3>2
  <2>2. CASE i > n + 1
    <3>1. i - (n + 1) \in 1 .. N - n
      BY <2>2
    <3>2. s[i] = c[i - (n + 1)]
      BY <1>6, <1>12, <1>13, <2>2
    <3>3. c[i - (n + 1)] = q[(i - (n + 1)) + n]
      BY <1>4, <3>1
    <3>4. (i - (n + 1)) + n = i - 1
      OBVIOUS
    <3>5. QED
      BY <2>2, <3>2, <3>3, <3>4
  <2>3. QED
    BY <2>1, <2>2
<1>10. s = SubSeq(q, 1, n) \o <<e>> \o SubSeq(q, n + 1, Len(q))
  BY <1>5, <1>6, <1>7
<1>11. QED
  BY <1>8, <1>9, <1>10 DEF PutBehind

LEMMA GreatestExists ==
  ASSUME NEW N \in Nat, NEW T, T \subseteq 0 .. N, T # {}
  PROVE  \E x \in T : \A y \in T : y <= x
<1> DEFINE U == {k \in 0 .. N : N - k \in T}
<1>1. U \subseteq Nat /\ U # {}
  <2>1. PICK y \in T : TRUE
    OBVIOUS
  <2>2. N - y \in 0 .. N /\ N - (N - y) = y
    BY <2>1
  <2>3. N - y \in U
    BY <2>2
  <2>4. U \subseteq Nat
    OBVIOUS
  <2>5. QED
    BY <2>3, <2>4
<1>2. PICK k \in U : \A l \in U : k <= l
  <2> HIDE DEF U
  <2>1. QED
    BY <1>1, LeastExists
<1>3. ASSUME NEW y \in T PROVE y <= N - k
  <2>1. N - y \in 0 .. N /\ N - (N - y) = y
    OBVIOUS
  <2>2. N - y \in U
    BY <2>1
  <2>3. k \in 0 .. N /\ y \in 0 .. N
    OBVIOUS
  <2>4. k <= N - y
    BY <1>2, <2>2
  <2>5. QED
    BY <2>3, <2>4
<1>4. N - k \in T
  BY <1>2
<1>5. QED
  BY <1>3, <1>4

(* s is q, which has N elements, without the p-th. *)
LacksPlace(s, N, q, p) == \A i \in 1 .. N - 1 : s[i] = IF i < p THEN q[i] ELSE q[i + 1]

LEMMA TakenFromSequence ==
  ASSUME NEW V, NEW N \in Nat, NEW q, q \in [1 .. N -> V], NEW p \in 1 .. N
  PROVE  \E s \in [1 .. N - 1 -> V] :
           /\ s = SubSeq(q, 1, p - 1) \o SubSeq(q, p + 1, Len(q))
           /\ LacksPlace(s, N, q, p)
<1>1. q \in Seq(V) /\ Len(q) = N
  OBVIOUS
<1>2. /\ SubSeq(q, 1, p - 1) \in Seq(V) /\ Len(SubSeq(q, 1, p - 1)) = p - 1
      /\ \A i \in 1 .. p - 1 : SubSeq(q, 1, p - 1)[i] = q[i]
  BY <1>1
<1>3. /\ SubSeq(q, p + 1, N) \in Seq(V) /\ Len(SubSeq(q, p + 1, N)) = N - p
      /\ \A i \in 1 .. N - p : SubSeq(q, p + 1, N)[i] = q[i + p]
  BY <1>1
<1>4. PICK a \in Seq(V), c \in Seq(V) :
        /\ a = SubSeq(q, 1, p - 1) /\ c = SubSeq(q, p + 1, Len(q))
        /\ Len(a) = p - 1 /\ Len(c) = N - p
        /\ \A i \in 1 .. p - 1 : a[i] = q[i]
        /\ \A i \in 1 .. N - p : c[i] = q[i + p]
  BY <1>1, <1>2, <1>3
<1>5. PICK s : s = a \o c
  OBVIOUS
<1>6. /\ s \in Seq(V) /\ Len(s) = Len(a) + Len(c)
      /\ \A i \in 1 .. Len(a) : s[i] = a[i]
      /\ \A i \in 1 .. Len(a) + Len(c) : i > Len(a) => s[i] = c[i - Len(a)]
  BY <1>5, Concatenation
<1>7. Len(a) + Len(c) = N - 1 /\ N - 1 \in Nat
  BY <1>4
<1>8. s \in [1 .. N - 1 -> V]
  BY <1>6, <1>7, SequenceIsFunction
<1>9. ASSUME NEW i \in 1 .. N - 1
      PROVE  s[i] = IF i < p THEN q[i] ELSE q[i + 1]
  <2>1. CASE i < p
    <3>1. i \in 1 .. p - 1
      BY <2>1
    <3>2. QED
      BY <1>4, <1>6, <2>1, <3>1
  <2>2. CASE ~ (i < p)
    <3>1. i - (p - 1) \in 1 .. N - p /\ (i - (p - 1)) + p = i + 1
      BY <2>2
    <3>2. i \in 1 .. Len(a) + Len(c) /\ i > Len(a) /\ Len(a) = p - 1
      <4>1. Len(a) = p - 1 /\ i \in 1 .. Len(a) + Len(c)
        BY <1>4, <1>7
      <4>2. i > p - 1
        BY <2>2
      <4>3. QED
        BY <4>1, <4>2
    <3>3. s[i] = c[i - (p - 1)]
      BY <1>6, <3>2
    <3>4. QED
      BY <1>4, <2>2, <3>1, <3>3
  <2>3. QED
    BY <2>1, <2>2
<1>10. QED
  BY <1>4, <1>5, <1>8, <1>9 DEF LacksPlace

LEMMA PlaceInduction ==
  ASSUME NEW n \in Nat, NEW S, 1 \in S \/ n = 0,
         \A i \in 1 .. n : i \in S /\ i + 1 \in 1 .. n => i + 1 \in S
  PROVE  \A i \in 1 .. n : i \in S
<1> DEFINE T == {m \in Nat : m + 1 \in 1 .. n => m + 1 \in S}
<1>1. 0 \in T
  OBVIOUS
<1>2. \A m \in Nat : m \in T => m + 1 \in T
  <2> SUFFICES ASSUME NEW m \in Nat, m \in T, m + 2 \in 1 .. n PROVE m + 2 \in S
    OBVIOUS
  <2>1. m + 1 \in 1 .. n /\ m + 2 = (m + 1) + 1
    OBVIOUS
  <2>2. QED
    BY <2>1
<1>3. Nat \subseteq T
  <2> HIDE DEF T
  <2>1. QED
    BY <1>1, <1>2, SetInduction
<1>4. ASSUME NEW i \in 1 .. n PROVE i \in S
  <2>1. i - 1 \in Nat /\ (i - 1) + 1 = i
    OBVIOUS
  <2>2. i - 1 \in T
    BY <1>3, <2>1
  <2>3. QED
    BY <2>1, <2>2
<1>5. QED
  BY <1>4

-----------------------------------------------------------------------------
(* Sorting (sorted() with a key that tells everybody apart).                *)

(* R orders the members of S strictly and totally. *)
StrictlyOrders(R, S) ==
  /\ \A a \in S : <<a, a>> \notin R
  /\ \A a, b \in S : a # b => <<a, b>> \in R \/ <<b, a>> \in R
  /\ \A a, b, c \in S : <<a, b>> \in R /\ <<b, c>> \in R => <<a, c>> \in R

(* o lists the members of S, each once, by R. *)
ListsBy(o, S, R) ==
  /\ o \in [1 .. Cardinality(S) -> S]
  /\ \A a \in S : \E i \in 1 .. Cardinality(S) : o[i] = a
  /\ \A i, j \in 1 .. Cardinality(S) : <<o[i], o[j]>> \in R <=> i < j

LEMMA RanksExist ==
  ASSUME NEW S, IsFiniteSet(S), NEW R, StrictlyOrders(R, S)
  PROVE  \A a \in S :
           /\ Cardinality({b \in S \ {a} : <<b, a>> \in R}) \in 0 .. Cardinality(S) - 1
           /\ \A c \in S : <<a, c>> \in R =>
                Cardinality({b \in S \ {a} : <<b, a>> \in R})
                  < Cardinality({b \in S \ {c} : <<b, c>> \in R})
<1> DEFINE Before(a) == {b \in S \ {a} : <<b, a>> \in R}
<1>1. ASSUME NEW a \in S
      PROVE  IsFiniteSet(Before(a)) /\ Cardinality(Before(a)) \in 0 .. Cardinality(S) - 1
  <2>1. IsFiniteSet(S \ {a}) /\ Cardinality(S \ {a}) = Cardinality(S) - 1
    BY FS_RemoveElement
  <2>2. Before(a) \in SUBSET (S \ {a})
    OBVIOUS
  <2> HIDE DEF Before
  <2>3. IsFiniteSet(Before(a)) /\ Cardinality(Before(a)) <= Cardinality(S) - 1
    BY <2>1, <2>2, FS_Subset
  <2>4. Cardinality(Before(a)) \in Nat /\ Cardinality(S) \in Nat
    BY <2>3, FS_CardinalityType
  <2>5. QED
    BY <2>3, <2>4
<1>2. ASSUME NEW a \in S, NEW c \in S, <<a, c>> \in R
      PROVE  Cardinality(Before(a)) < Cardinality(Before(c))
  <2>1. Before(a) \in SUBSET Before(c) /\ a \in Before(c) /\ a \notin Before(a)
    BY <1>2 DEF StrictlyOrders
  <2>2. IsFiniteSet(Before(c)) /\ Cardinality(Before(c)) \in Nat /\ Cardinality(Before(a)) \in Nat
    BY <1>1
  <2> HIDE DEF Before
  <2>3. Cardinality(Before(a)) <= Cardinality(Before(c))
    BY <2>1, <2>2, FS_Subset
  <2>4. Cardinality(Before(a)) # Cardinality(Before(c))
    BY <2>1, <2>2, FS_Subset
  <2>5. QED
    BY <2>2, <2>3, <2>4
<1>3. QED
  BY <1>1, <1>2

LEMMA SortedLists ==
  ASSUME NEW S, IsFiniteSet(S), NEW R, StrictlyOrders(R, S),
         NEW o, o = [r \in 1 .. Cardinality(S) |-> o[r]],
         \A r \in 1 .. Cardinality(S) :
           (\E a \in S : Cardinality({b \in S \ {a} : <<b, a>> \in R}) = r - 1) =>
             o[r] \in S /\ Cardinality({b \in S \ {o[r]} : <<b, o[r]>> \in R}) = r - 1
  PROVE  ListsBy(o, S, R)
<1>0. PICK rank : rank = [a \in S |-> Cardinality({b \in S \ {a} : <<b, a>> \in R})]
  OBVIOUS
<1> DEFINE n == Cardinality(S)
<1>1. n \in Nat
  BY FS_CardinalityType
<1>2. \A a \in S : rank[a] \in 0 .. n - 1
  BY <1>0, RanksExist
<1>3. \A a, c \in S : <<a, c>> \in R => rank[a] < rank[c]
  BY <1>0, RanksExist
<1> HIDE DEF n
<1>5. \A a, c \in S : rank[a] = rank[c] => a = c
  <2> SUFFICES ASSUME NEW a \in S, NEW c \in S, rank[a] = rank[c]
               PROVE  a = c
    OBVIOUS
  <2>1. ~ (rank[a] < rank[c]) /\ ~ (rank[c] < rank[a])
    BY <1>1, <1>2
  <2>2. QED
    BY <1>3, <2>1 DEF StrictlyOrders
<1>6. \A r \in 1 .. n : \E a \in S : rank[a] = r - 1
  <2> DEFINE f == [a \in S |-> rank[a]]
  <2>1. IsFiniteSet(0 .. n - 1) /\ Cardinality(0 .. n - 1) = n
    <3>1. 0 \in Int /\ n - 1 \in Int
      BY <1>1
    <3>2. Cardinality(0 .. n - 1) = IF 0 > n - 1 THEN 0 ELSE n - 1 - 0 + 1
      BY <3>1, FS_Interval
    <3>3. IsFiniteSet(0 .. n - 1)
      BY <3>1, FS_Interval
    <3>4. QED
      BY <1>1, <3>2, <3>3
  <2>2. f \in Injection(S, 0 .. n - 1)
    BY <1>2, <1>5 DEF Injection, IsInjective
  <2> HIDE DEF f
  <2>3. f \in Surjection(S, 0 .. n - 1)
    BY <2>1, <2>2, FS_Injection DEF n
  <2>4. \A k \in 0 .. n - 1 : \E a \in S : f[a] = k
    BY <2>3 DEF Surjection
  <2>5. \A r \in 1 .. n : r - 1 \in 0 .. n - 1
    BY <1>1
  <2>6. QED
    BY <2>4, <2>5 DEF f
<1>7. \A r \in 1 .. n : o[r] \in S /\ rank[o[r]] = r - 1
  <2> TAKE r \in 1 .. n
  <2>1. \E a \in S : Cardinality({b \in S \ {a} : <<b, a>> \in R}) = r - 1
    BY <1>0, <1>6
  <2>2. o[r] \in S /\ Cardinality({b \in S \ {o[r]} : <<b, o[r]>> \in R}) = r - 1
    BY <2>1 DEF n
  <2>3. QED
    BY <1>0, <2>2
<1>8. o \in [1 .. n -> S]
  BY <1>7 DEF n
<1>9. \A a \in S : \E i \in 1 .. n : o[i] = a
  <2> TAKE a \in S
  <2>1. rank[a] + 1 \in 1 .. n
    BY <1>1, <1>2
  <2>2. rank[o[rank[a] + 1]] = rank[a] /\ o[rank[a] + 1] \in S
    <3>1. (rank[a] + 1) - 1 = rank[a]
      BY <1>1, <1>2
    <3>2. QED
      BY <1>7, <2>1, <3>1
  <2>3. QED
    BY <1>5, <2>1, <2>2
<1>10. ASSUME NEW i \in 1 .. n, NEW j \in 1 .. n
       PROVE  <<o[i], o[j]>> \in R <=> i < j
  <2>1. o[i] \in S /\ o[j] \in S /\ rank[o[i]] = i - 1 /\ rank[o[j]] = j - 1
    BY <1>7
  <2>2. <<o[i], o[j]>> \in R => i < j
    <3>1. <<o[i], o[j]>> \in R => rank[o[i]] < rank[o[j]]
      BY <1>3, <2>1
    <3>2. QED
      BY <1>1, <2>1, <3>1
  <2>3. <<o[j], o[i]>> \in R => j < i
    <3>1. <<o[j], o[i]>> \in R => rank[o[j]] < rank[o[i]]
      BY <1>3, <2>1
    <3>2. QED
      BY <1>1, <2>1, <3>1
  <2>4. i < j => o[i] # o[j]
    BY <1>1, <2>1
  <2>5. QED
    <3>1. i = j => <<o[i], o[j]>> \notin R
      BY <2>1 DEF StrictlyOrders
    <3>2. i < j => <<o[i], o[j]>> \in R \/ <<o[j], o[i]>> \in R
      BY <2>1, <2>4 DEF StrictlyOrders
    <3>3. QED
      BY <1>1, <2>2, <2>3, <3>1, <3>2
<1>11. QED
  BY <1>8, <1>9, <1>10 DEF ListsBy, n
=============================================================================
