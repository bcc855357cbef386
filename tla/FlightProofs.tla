---------------------------- MODULE FlightProofs ----------------------------
(***************************************************************************)
(* What is proved about the flown traffic, for every scenario, envelope,   *)
(* profile and bound the constructors accept.                              *)
(***************************************************************************)
EXTENDS AssessedFlight, NaturalOrder, FiniteSetTheorems

-----------------------------------------------------------------------------
(* Motion. *)
LEMMA TwelvePoints == Points = 12
  BY DEF Points, Compass

LEMMA CompassIsWhole ==
  ASSUME NEW h \in 1 .. Points
  PROVE  Compass[h][1] \in Int /\ Compass[h][2] \in Int
<1>1. h \in 1 .. 12
  BY TwelvePoints
<1>2. \/ h = 1 \/ h = 2 \/ h = 3 \/ h = 4 \/ h = 5 \/ h = 6
      \/ h = 7 \/ h = 8 \/ h = 9 \/ h = 10 \/ h = 11 \/ h = 12
  BY <1>1
<1>3. QED
  BY <1>2 DEF Compass

LEMMA VelocityIsWhole ==
  ASSUME NEW s \in States
  PROVE  Velocity(s)[1] \in Int /\ Velocity(s)[2] \in Int
<1>1. s.speed \in Int /\ s.heading \in 1 .. Points
  BY DEF States
<1>2. Compass[s.heading][1] \in Int /\ Compass[s.heading][2] \in Int
  BY <1>1, CompassIsWhole
<1>3. s.speed * Compass[s.heading][1] \in Int /\ s.speed * Compass[s.heading][2] \in Int
  BY <1>1, <1>2
<1>4. QED
  BY <1>3 DEF Velocity

LEMMA AdvancedFields ==
  ASSUME NEW s \in States, NEW t \in Nat
  PROVE  /\ Advanced(s, t) \in States
         /\ Advanced(s, t).at = t
         /\ Advanced(s, t).x = s.x + Velocity(s)[1] * (t - s.at)
         /\ Advanced(s, t).y = s.y + Velocity(s)[2] * (t - s.at)
         /\ Advanced(s, t).alt = s.alt + s.climb * (t - s.at)
         /\ Advanced(s, t).heading = s.heading
         /\ Advanced(s, t).speed = s.speed
         /\ Advanced(s, t).climb = s.climb
         /\ Advanced(s, t).emergency = s.emergency
         /\ Advanced(s, t).stabilised = s.stabilised
         /\ Velocity(Advanced(s, t)) = Velocity(s)
<1> DEFINE v1 == Velocity(s)[1]
           v2 == Velocity(s)[2]
<1>1. v1 \in Int /\ v2 \in Int
  BY VelocityIsWhole
<1>2. s.x \in Int /\ s.y \in Int /\ s.alt \in Int /\ s.climb \in Int /\ s.at \in Int
  BY DEF States
<1>3. /\ s.x + v1 * (t - s.at) \in Int
      /\ s.y + v2 * (t - s.at) \in Int
      /\ s.alt + s.climb * (t - s.at) \in Int
  <2> HIDE DEF v1, v2
  <2>1. QED
    BY <1>1, <1>2
<1> DEFINE X == s.x + v1 * (t - s.at)
           Y == s.y + v2 * (t - s.at)
           A == s.alt + s.climb * (t - s.at)
<1>4. Advanced(s, t) = [s EXCEPT !.at = t, !.x = X, !.y = Y, !.alt = A]
  BY DEF Advanced, States
<1>5. X \in Int /\ Y \in Int /\ A \in Int
  BY <1>3
<1>6. /\ Advanced(s, t) \in States
      /\ Advanced(s, t).at = t /\ Advanced(s, t).x = X /\ Advanced(s, t).y = Y
      /\ Advanced(s, t).alt = A
      /\ Advanced(s, t).heading = s.heading /\ Advanced(s, t).speed = s.speed
      /\ Advanced(s, t).climb = s.climb /\ Advanced(s, t).emergency = s.emergency
      /\ Advanced(s, t).stabilised = s.stabilised
  <2> HIDE DEF X, Y, A
  <2>1. QED
    BY <1>4, <1>5 DEF States
<1>7. Velocity(Advanced(s, t)) = Velocity(s)
  BY <1>6 DEF Velocity
<1>8. QED
  BY <1>6, <1>7

(* Two states with the same fields are one state. *)
LEMMA SameState ==
  ASSUME NEW r \in States, NEW s \in States,
         r.at = s.at, r.x = s.x, r.y = s.y, r.alt = s.alt, r.heading = s.heading,
         r.speed = s.speed, r.climb = s.climb, r.emergency = s.emergency,
         r.stabilised = s.stabilised
  PROVE  r = s
  BY DEF States

LEMMA NoTimeNoMotion ==
  ASSUME NEW s \in States
  PROVE  Advanced(s, s.at) = s
<1>1. s.at \in Nat /\ s.x \in Int /\ s.y \in Int /\ s.alt \in Int /\ s.climb \in Int
  BY DEF States
<1>2. Advanced(s, s.at) \in States
  BY <1>1, AdvancedFields
<1>3. s.at - s.at = 0
  BY <1>1
<1>4. \A p, c \in Int : p + c * (s.at - s.at) = p
  BY <1>3
<1>5. /\ Advanced(s, s.at).x = s.x + Velocity(s)[1] * (s.at - s.at)
      /\ Advanced(s, s.at).y = s.y + Velocity(s)[2] * (s.at - s.at)
      /\ Advanced(s, s.at).alt = s.alt + s.climb * (s.at - s.at)
  BY <1>1, AdvancedFields
<1>7. /\ Advanced(s, s.at).x = s.x /\ Advanced(s, s.at).y = s.y
      /\ Advanced(s, s.at).alt = s.alt
  BY <1>1, <1>4, <1>5, VelocityIsWhole
<1>6. QED
  BY <1>1, <1>2, <1>7, AdvancedFields, SameState

(* Motion goes on from where it is. *)
LEMMA MotionComposes ==
  ASSUME NEW s \in States, NEW t0 \in Nat, NEW t \in Nat
  PROVE  Advanced(Advanced(s, t0), t) = Advanced(s, t)
<1>0. PICK r : r = Advanced(s, t0)
  OBVIOUS
<1>1. r \in States /\ r.at = t0
  BY <1>0, AdvancedFields
<1>2. s.at \in Nat /\ s.x \in Int /\ s.y \in Int /\ s.alt \in Int /\ s.climb \in Int
  BY DEF States
<1>3. \A p, c \in Int : (p + c * (t0 - s.at)) + c * (t - t0) = p + c * (t - s.at)
  <2>1. SUFFICES ASSUME NEW p \in Int, NEW c \in Int
                 PROVE  (p + c * (t0 - s.at)) + c * (t - t0) = p + c * (t - s.at)
    OBVIOUS
  <2>2. c * (t0 - s.at) = c * t0 - c * s.at /\ c * (t - t0) = c * t - c * t0
        /\ c * (t - s.at) = c * t - c * s.at
    BY <1>2
  <2>3. c * t0 \in Int /\ c * t \in Int /\ c * s.at \in Int
    BY <1>2
  <2>4. QED
    BY <2>2, <2>3
<1>4. Advanced(r, t) \in States /\ Advanced(s, t) \in States
  BY <1>1, AdvancedFields
<1>5. Velocity(r) = Velocity(s) /\ r.climb = s.climb
  BY <1>0, AdvancedFields
<1>6. Advanced(r, t).x = Advanced(s, t).x
  <2>1. Advanced(r, t).x = r.x + Velocity(s)[1] * (t - t0)
    <3>1. Advanced(r, t).x = r.x + Velocity(r)[1] * (t - r.at)
      BY <1>1, AdvancedFields
    <3>2. QED
      BY <1>1, <1>5, <3>1
  <2>2. r.x = s.x + Velocity(s)[1] * (t0 - s.at)
    BY <1>0, AdvancedFields
  <2>3. Advanced(s, t).x = s.x + Velocity(s)[1] * (t - s.at)
    BY AdvancedFields
  <2>4. QED
    BY <2>1, <2>2, <2>3, <1>2, <1>3, VelocityIsWhole, ZenonT(40)
<1>7. Advanced(r, t).y = Advanced(s, t).y
  <2>1. Advanced(r, t).y = r.y + Velocity(s)[2] * (t - t0)
    <3>1. Advanced(r, t).y = r.y + Velocity(r)[2] * (t - r.at)
      BY <1>1, AdvancedFields
    <3>2. QED
      BY <1>1, <1>5, <3>1
  <2>2. r.y = s.y + Velocity(s)[2] * (t0 - s.at)
    BY <1>0, AdvancedFields
  <2>3. Advanced(s, t).y = s.y + Velocity(s)[2] * (t - s.at)
    BY AdvancedFields
  <2>4. QED
    BY <2>1, <2>2, <2>3, <1>2, <1>3, VelocityIsWhole
<1>8. Advanced(r, t).alt = Advanced(s, t).alt
  <2>1. Advanced(r, t).alt = r.alt + s.climb * (t - t0)
    <3>1. Advanced(r, t).alt = r.alt + r.climb * (t - r.at)
      BY <1>1, AdvancedFields
    <3>2. QED
      BY <1>1, <1>5, <3>1
  <2>2. r.alt = s.alt + s.climb * (t0 - s.at)
    BY <1>0, AdvancedFields
  <2>3. Advanced(s, t).alt = s.alt + s.climb * (t - s.at)
    BY AdvancedFields
  <2>4. QED
    BY <2>1, <2>2, <2>3, <1>2, <1>3
<1>9. /\ Advanced(r, t).at = Advanced(s, t).at
      /\ Advanced(r, t).heading = Advanced(s, t).heading
      /\ Advanced(r, t).speed = Advanced(s, t).speed
      /\ Advanced(r, t).climb = Advanced(s, t).climb
      /\ Advanced(r, t).emergency = Advanced(s, t).emergency
      /\ Advanced(r, t).stabilised = Advanced(s, t).stabilised
  <2>1. /\ r.heading = s.heading
        /\ r.speed = s.speed
        /\ r.climb = s.climb
        /\ r.emergency = s.emergency
        /\ r.stabilised = s.stabilised
    BY <1>0, AdvancedFields
  <2>2. /\ Advanced(r, t).heading = r.heading
        /\ Advanced(r, t).speed = r.speed
        /\ Advanced(r, t).climb = r.climb
        /\ Advanced(r, t).emergency = r.emergency
        /\ Advanced(r, t).stabilised = r.stabilised
    BY <1>1, AdvancedFields
  <2>3. /\ Advanced(s, t).heading = s.heading
        /\ Advanced(s, t).speed = s.speed
        /\ Advanced(s, t).climb = s.climb
        /\ Advanced(s, t).emergency = s.emergency
        /\ Advanced(s, t).stabilised = s.stabilised
    BY AdvancedFields
  <2>4. Advanced(r, t).at = t /\ Advanced(s, t).at = t
    BY <1>1, AdvancedFields
  <2>5. QED
    BY <2>1, <2>2, <2>3, <2>4
<1>10. Advanced(r, t) = Advanced(s, t)
  BY <1>4, <1>6, <1>7, <1>8, <1>9, SameState
<1>11. QED
  BY <1>0, <1>10

-----------------------------------------------------------------------------
(* Squared distance of two straight motions, as a polynomial of the time. *)
LEMMA SquaresExpand ==
  ASSUME NEW x \in Int, NEW y \in Int, NEW u \in Int, NEW v \in Int, NEW t \in Int
  PROVE  (x + u * t) * (x + u * t) + (y + v * t) * (y + v * t)
           = (x * x + y * y) + 2 * (x * u + y * v) * t + (u * u + v * v) * (t * t)
  OBVIOUS

LEMMA Lagrange ==
  ASSUME NEW x \in Int, NEW y \in Int, NEW u \in Int, NEW v \in Int
  PROVE  (u * u + v * v) * (x * x + y * y)
           = (x * v - y * u) * (x * v - y * u) + (x * u + y * v) * (x * u + y * v)
  OBVIOUS

LEMMA CompletedSquare ==
  ASSUME NEW q \in Int, NEW e \in Int, NEW d \in Int, NEW c \in Int, NEW t \in Int,
         q * e = c * c + d * d
  PROVE  q * (e + 2 * d * t + q * (t * t)) = c * c + (d + q * t) * (d + q * t)
<1>1. q * (e + 2 * d * t + q * (t * t)) = q * e + 2 * q * d * t + q * q * (t * t)
  OBVIOUS
<1>2. (d + q * t) * (d + q * t) = d * d + 2 * q * d * t + q * q * (t * t)
  OBVIOUS
<1>3. QED
  BY <1>1, <1>2

LEMMA SquareIsNatural ==
  ASSUME NEW i \in Int
  PROVE  i * i \in Nat
  OBVIOUS

LEMMA SquareOfNone ==
  ASSUME NEW i \in Int, i * i = 0
  PROVE  i = 0
<1>1. CASE i > 0
  <2>1. i * i >= i
    BY <1>1
  <2>2. QED
    BY <1>1, <2>1
<1>2. CASE i < 0
  <2>1. i * i >= -i
    BY <1>2
  <2>2. QED
    BY <1>2, <2>1
<1>3. QED
  BY <1>1, <1>2

LEMMA ProductIsNatural ==
  ASSUME NEW i \in Nat, NEW j \in Nat
  PROVE  i * j \in Nat
  OBVIOUS

-----------------------------------------------------------------------------
(* Closest approach. *)
Relatives == [x : Int, y : Int, z : Int, vx : Int, vy : Int, vz : Int]

DistanceAt(r, t) == (r.x + r.vx * t) * (r.x + r.vx * t) + (r.y + r.vy * t) * (r.y + r.vy * t)
Opening(r) == r.x * r.vx + r.y * r.vy
Swiftness(r) == r.vx * r.vx + r.vy * r.vy
Crossing(r) == r.x * r.vy - r.y * r.vx

LEMMA RelativeNumbers ==
  ASSUME NEW r \in Relatives
  PROVE  /\ r.x \in Int /\ r.y \in Int /\ r.z \in Int
         /\ r.vx \in Int /\ r.vy \in Int /\ r.vz \in Int
         /\ Opening(r) \in Int /\ Swiftness(r) \in Nat /\ Crossing(r) \in Int
         /\ Swiftness(r) = 0 => Opening(r) = 0
<1>1. /\ r.x \in Int /\ r.y \in Int /\ r.z \in Int
      /\ r.vx \in Int /\ r.vy \in Int /\ r.vz \in Int
  BY DEF Relatives
<1>2. Opening(r) \in Int /\ Crossing(r) \in Int
  BY <1>1 DEF Opening, Crossing
<1>3. r.vx * r.vx \in Nat /\ r.vy * r.vy \in Nat
  BY <1>1, SquareIsNatural
<1>4. Swiftness(r) \in Nat
  BY <1>3 DEF Swiftness
<1>5. ASSUME Swiftness(r) = 0 PROVE Opening(r) = 0
  <2>1. r.vx * r.vx = 0 /\ r.vy * r.vy = 0
    BY <1>3, <1>5 DEF Swiftness
  <2>2. r.vx = 0 /\ r.vy = 0
    BY <1>1, <2>1, SquareOfNone
  <2>3. QED
    BY <1>1, <2>2 DEF Opening
<1>6. QED
  BY <1>1, <1>2, <1>4, <1>5

LEMMA DistanceIsQuadratic ==
  ASSUME NEW r \in Relatives, NEW t \in Int
  PROVE  /\ DistanceAt(r, t) \in Nat
         /\ DistanceAt(r, t)
              = DistanceAt(r, 0) + 2 * Opening(r) * t + Swiftness(r) * (t * t)
         /\ Swiftness(r) * DistanceAt(r, t)
              = Crossing(r) * Crossing(r)
                + (Opening(r) + Swiftness(r) * t) * (Opening(r) + Swiftness(r) * t)
<1>1. /\ r.x \in Int /\ r.y \in Int /\ r.vx \in Int /\ r.vy \in Int
      /\ Opening(r) \in Int /\ Swiftness(r) \in Int /\ Crossing(r) \in Int
  BY RelativeNumbers
<1>2. r.x + r.vx * t \in Int /\ r.y + r.vy * t \in Int
  BY <1>1
<1>3. DistanceAt(r, t) \in Nat
  BY <1>2, SquareIsNatural DEF DistanceAt
<1>4. DistanceAt(r, 0) = r.x * r.x + r.y * r.y
  BY <1>1 DEF DistanceAt
<1>5. DistanceAt(r, t) = DistanceAt(r, 0) + 2 * Opening(r) * t + Swiftness(r) * (t * t)
  BY <1>1, <1>4, SquaresExpand DEF DistanceAt, Opening, Swiftness
<1>6. Swiftness(r) * DistanceAt(r, 0) = Crossing(r) * Crossing(r) + Opening(r) * Opening(r)
  BY <1>1, <1>4, Lagrange DEF Swiftness, Opening, Crossing
<1>7. DistanceAt(r, 0) \in Int
  BY <1>1, <1>4
<1>8. Swiftness(r) * (DistanceAt(r, 0) + 2 * Opening(r) * t + Swiftness(r) * (t * t))
        = Crossing(r) * Crossing(r)
          + (Opening(r) + Swiftness(r) * t) * (Opening(r) + Swiftness(r) * t)
  BY <1>1, <1>6, <1>7, CompletedSquare
<1>9. QED
  BY <1>3, <1>5, <1>8

LEMMA NoOpening ==
  ASSUME NEW d \in Int, NEW q \in Nat, NEW t \in Nat, d >= 0
  PROVE  2 * d * t + q * (t * t) >= 0
<1>1. d * t \in Nat /\ t * t \in Nat
  BY ProductIsNatural
<1>2. q * (t * t) \in Nat
  BY <1>1, ProductIsNatural
<1>3. QED
  BY <1>1, <1>2

LEMMA StillClosing ==
  ASSUME NEW d \in Int, NEW q \in Nat, NEW h \in Nat, NEW t \in Nat, t <= h,
         -d >= h * q
  PROVE  2 * d * h + q * (h * h) <= 2 * d * t + q * (t * t)
<1>1. PICK k \in Nat : h = t + k
  <2>1. h - t \in Nat /\ h = t + (h - t)
    OBVIOUS
  <2>2. QED
    BY <2>1
<1>2. PICK e \in Nat : d = -(h * q) - e
  <2>1. h * q \in Int
    OBVIOUS
  <2>2. -d - h * q \in Nat /\ d = -(h * q) - (-d - h * q)
    BY <2>1
  <2>3. QED
    BY <2>2
<1>3. 2 * d * t + q * (t * t) - (2 * d * h + q * (h * h)) = q * (k * k) + 2 * e * k
  BY <1>1, <1>2
<1>4. q * (k * k) \in Nat /\ e * k \in Nat
  BY ProductIsNatural
<1>5. QED
  BY <1>3, <1>4

(* The three ways an approach is timed. *)
LEMMA ApproachTimed ==
  ASSUME NEW r \in Relatives, NEW h \in Nat
  PROVE  /\ Opening(r) >= 0 => TimeOfApproach(r, h) = <<0, 1>>
         /\ -Opening(r) > h * Swiftness(r) /\ Opening(r) < 0 => TimeOfApproach(r, h) = <<h, 1>>
         /\ -Opening(r) <= h * Swiftness(r) /\ Opening(r) < 0
              => /\ TimeOfApproach(r, h) = <<-Opening(r), Swiftness(r)>>
                 /\ Swiftness(r) > 0
<1>1. Opening(r) \in Int /\ Swiftness(r) \in Nat /\ (Swiftness(r) = 0 => Opening(r) = 0)
  BY RelativeNumbers
<1>2. TimeOfApproach(r, h) =
        IF -Opening(r) <= 0 THEN <<0, 1>>
        ELSE IF -Opening(r) > h * Swiftness(r) THEN <<h, 1>>
        ELSE <<-Opening(r), Swiftness(r)>>
  BY DEF TimeOfApproach, Opening, Swiftness
<1>3. h * Swiftness(r) \in Int
  BY <1>1
<1>4. QED
  BY <1>1, <1>2, <1>3

LEMMA DistanceAtStop ==
  ASSUME NEW r \in Relatives, NEW n \in Nat
  PROVE  SquaredDistance(r, <<n, 1>>) = <<DistanceAt(r, n), 1>>
  BY DEF SquaredDistance, DistanceAt

LEMMA DistanceInside ==
  ASSUME NEW r \in Relatives, Swiftness(r) > 0
  PROVE  SquaredDistance(r, <<-Opening(r), Swiftness(r)>>)
           = <<Crossing(r) * Crossing(r), Swiftness(r)>>
<1>1. Opening(r) \in Int /\ Swiftness(r) \in Nat /\ Crossing(r) \in Int
  BY RelativeNumbers
<1>2. CASE Swiftness(r) = 1
  <2>1. SquaredDistance(r, <<-Opening(r), 1>>) = <<DistanceAt(r, -Opening(r)), 1>>
    BY DEF SquaredDistance, DistanceAt
  <2>2. -Opening(r) \in Int
    BY <1>1
  <2>3. Swiftness(r) * DistanceAt(r, -Opening(r))
          = Crossing(r) * Crossing(r)
            + (Opening(r) + Swiftness(r) * (-Opening(r)))
              * (Opening(r) + Swiftness(r) * (-Opening(r)))
    BY <2>2, DistanceIsQuadratic
  <2>4. Opening(r) + Swiftness(r) * (-Opening(r)) = 0
    BY <1>1, <1>2
  <2>5. DistanceAt(r, -Opening(r)) \in Nat
    BY <2>2, DistanceIsQuadratic
  <2>6. Crossing(r) * Crossing(r) \in Int
    BY <1>1
  <2>7. DistanceAt(r, -Opening(r)) = Crossing(r) * Crossing(r)
    BY <1>2, <2>3, <2>4, <2>5, <2>6
  <2>8. QED
    BY <1>2, <2>1, <2>7
<1>3. CASE Swiftness(r) # 1
  BY <1>3 DEF SquaredDistance, Crossing
<1>4. QED
  BY <1>2, <1>3

(* The approach that is assessed is the closest of the horizon. *)
LEMMA ApproachIsClosest ==
  ASSUME NEW r \in Relatives, NEW h \in Nat, NEW time, time = TimeOfApproach(r, h),
         NEW distance, distance = SquaredDistance(r, time)
  PROVE  /\ time[1] \in Nat /\ time[2] \in Nat \ {0} /\ time[1] <= h * time[2]
         /\ distance[1] \in Nat /\ distance[2] = time[2]
         /\ \A t \in 0 .. h : distance[1] <= DistanceAt(r, t) * time[2]
<1> DEFINE d == Opening(r)
           q == Swiftness(r)
           c == Crossing(r)
<1>1. d \in Int /\ q \in Nat /\ c \in Int
  BY RelativeNumbers
<1>2. h * q \in Nat
  BY <1>1, ProductIsNatural
<1>3. \A t \in Nat : DistanceAt(r, t) \in Nat
  BY DistanceIsQuadratic
<1>4. \A t \in Nat : DistanceAt(r, t) = DistanceAt(r, 0) + 2 * d * t + q * (t * t)
  BY DistanceIsQuadratic
<1>5. \A t \in Nat : q * DistanceAt(r, t) = c * c + (d + q * t) * (d + q * t)
  BY DistanceIsQuadratic
<1>6. CASE d >= 0
  <2>1. time = <<0, 1>>
    BY <1>6, ApproachTimed
  <2>2. distance = <<DistanceAt(r, 0), 1>>
    BY <2>1, DistanceAtStop
  <2>3. ASSUME NEW t \in 0 .. h PROVE DistanceAt(r, 0) <= DistanceAt(r, t) * 1
    <3> HIDE DEF d, q, c
    <3>1. 2 * d * t + q * (t * t) >= 0
      BY <1>1, <1>6, NoOpening
    <3>2. DistanceAt(r, t) = DistanceAt(r, 0) + 2 * d * t + q * (t * t)
      BY <1>4
    <3>3. 2 * d * t \in Int /\ q * (t * t) \in Int
      BY <1>1
    <3>4. DistanceAt(r, t) \in Nat /\ DistanceAt(r, 0) \in Nat
      BY <1>3
    <3>5. QED
      BY <3>1, <3>2, <3>3, <3>4
  <2>4. h * 1 \in Nat /\ 0 <= h * 1
    OBVIOUS
  <2>5. QED
    BY <1>3, <2>1, <2>2, <2>3, <2>4
<1>7. CASE d < 0 /\ -d > h * q
  <2>1. time = <<h, 1>>
    BY <1>7, ApproachTimed
  <2>2. distance = <<DistanceAt(r, h), 1>>
    BY <2>1, DistanceAtStop
  <2>3. ASSUME NEW t \in 0 .. h PROVE DistanceAt(r, h) <= DistanceAt(r, t) * 1
    <3> HIDE DEF d, q, c
    <3>1. 2 * d * h + q * (h * h) <= 2 * d * t + q * (t * t)
      BY <1>1, <1>2, <1>7, StillClosing
    <3>2. DistanceAt(r, t) = DistanceAt(r, 0) + 2 * d * t + q * (t * t)
      BY <1>4
    <3>6. DistanceAt(r, h) = DistanceAt(r, 0) + 2 * d * h + q * (h * h)
      BY <1>4
    <3>3. 2 * d * t \in Int /\ q * (t * t) \in Int /\ 2 * d * h \in Int /\ q * (h * h) \in Int
      BY <1>1
    <3>4. DistanceAt(r, t) \in Nat /\ DistanceAt(r, 0) \in Nat
      BY <1>3
    <3>5. QED
      BY <3>1, <3>2, <3>3, <3>4, <3>6
  <2>4. h <= h * 1
    OBVIOUS
  <2>5. QED
    BY <1>3, <2>1, <2>2, <2>3, <2>4
<1>8. CASE d < 0 /\ -d <= h * q
  <2>1. time = <<-d, q>> /\ q > 0
    BY <1>8, ApproachTimed
  <2>2. distance = <<c * c, q>>
    BY <2>1, DistanceInside
  <2>3. c * c \in Nat
    BY <1>1, SquareIsNatural
  <2>4. ASSUME NEW t \in 0 .. h PROVE c * c <= DistanceAt(r, t) * q
    <3> HIDE DEF d, q, c
    <3>1. q * DistanceAt(r, t) = c * c + (d + q * t) * (d + q * t)
      BY <1>5
    <3>2. d + q * t \in Int
      BY <1>1
    <3>3. (d + q * t) * (d + q * t) \in Nat
      BY <3>2, SquareIsNatural
    <3>4. q * DistanceAt(r, t) = DistanceAt(r, t) * q
      BY <1>1, <1>3
    <3>5. QED
      BY <2>3, <3>1, <3>3, <3>4
  <2>5. -d \in Nat /\ q \in Nat \ {0}
    BY <1>1, <1>8, <2>1
  <2>6. QED
    BY <1>8, <2>1, <2>2, <2>3, <2>4, <2>5
<1>9. QED
  BY <1>1, <1>2, <1>6, <1>7, <1>8

-----------------------------------------------------------------------------
(* Two states and what lies between them. *)
Moved(r, k) == [r EXCEPT !.x = @ + r.vx * k, !.y = @ + r.vy * k, !.z = @ + r.vz * k]

LEMMA MovedFields ==
  ASSUME NEW r \in Relatives, NEW k \in Int
  PROVE  /\ Moved(r, k) \in Relatives
         /\ Moved(r, k).x = r.x + r.vx * k /\ Moved(r, k).y = r.y + r.vy * k
         /\ Moved(r, k).z = r.z + r.vz * k
         /\ Moved(r, k).vx = r.vx /\ Moved(r, k).vy = r.vy /\ Moved(r, k).vz = r.vz
<1>1. /\ r.x + r.vx * k \in Int /\ r.y + r.vy * k \in Int /\ r.z + r.vz * k \in Int
  <2>1. /\ r.x \in Int /\ r.y \in Int /\ r.z \in Int
        /\ r.vx \in Int /\ r.vy \in Int /\ r.vz \in Int
    BY DEF Relatives
  <2>2. QED
    BY <2>1
<1> DEFINE X == r.x + r.vx * k
           Y == r.y + r.vy * k
           Z == r.z + r.vz * k
<1>2. Moved(r, k) = [r EXCEPT !.x = X, !.y = Y, !.z = Z]
  BY DEF Moved, Relatives
<1>3. X \in Int /\ Y \in Int /\ Z \in Int
  BY <1>1
<1> HIDE DEF X, Y, Z
<1>4. /\ Moved(r, k) \in Relatives
      /\ Moved(r, k).x = X /\ Moved(r, k).y = Y /\ Moved(r, k).z = Z
      /\ Moved(r, k).vx = r.vx /\ Moved(r, k).vy = r.vy /\ Moved(r, k).vz = r.vz
  BY <1>2, <1>3 DEF Relatives
<1>5. QED
  BY <1>4 DEF X, Y, Z

LEMMA RelativeIsWhole ==
  ASSUME NEW s \in States, NEW u \in States
  PROVE  /\ Relative(s, u) \in Relatives
         /\ Relative(s, u).x = u.x - s.x /\ Relative(s, u).y = u.y - s.y
         /\ Relative(s, u).z = u.alt - s.alt
         /\ Relative(s, u).vx = Velocity(u)[1] - Velocity(s)[1]
         /\ Relative(s, u).vy = Velocity(u)[2] - Velocity(s)[2]
         /\ Relative(s, u).vz = u.climb - s.climb
<1>1. /\ s.x \in Int /\ s.y \in Int /\ s.alt \in Int /\ s.climb \in Int
      /\ u.x \in Int /\ u.y \in Int /\ u.alt \in Int /\ u.climb \in Int
  BY DEF States
<1>2. /\ Velocity(s)[1] \in Int /\ Velocity(s)[2] \in Int
      /\ Velocity(u)[1] \in Int /\ Velocity(u)[2] \in Int
  BY VelocityIsWhole
<1>3. QED
  BY <1>1, <1>2 DEF Relative, Relatives

LEMMA SameRelative ==
  ASSUME NEW r \in Relatives, NEW s \in Relatives,
         r.x = s.x, r.y = s.y, r.z = s.z, r.vx = s.vx, r.vy = s.vy, r.vz = s.vz
  PROVE  r = s
  BY DEF Relatives

LEMMA RelativeMoves ==
  ASSUME NEW s \in States, NEW u \in States, s.at = u.at, NEW t \in Nat
  PROVE  Relative(Advanced(s, t), Advanced(u, t)) = Moved(Relative(s, u), t - s.at)
<1>1. s.at \in Nat /\ t - s.at \in Int
  BY DEF States
<1>2. PICK k \in Int : k = t - s.at
  BY <1>1
<1>3. PICK r \in Relatives : r = Relative(s, u)
  BY RelativeIsWhole
<1>4. PICK a \in States, b \in States : a = Advanced(s, t) /\ b = Advanced(u, t)
  BY AdvancedFields
<1>5. PICK g \in Relatives : g = Relative(a, b)
  BY RelativeIsWhole
<1>6. PICK m \in Relatives : m = Moved(r, k)
  BY MovedFields
<1>7. /\ s.x \in Int /\ s.y \in Int /\ s.alt \in Int /\ s.climb \in Int
      /\ u.x \in Int /\ u.y \in Int /\ u.alt \in Int /\ u.climb \in Int
  BY DEF States
<1>8. PICK p \in Int, q \in Int, v \in Int, w \in Int :
        /\ p = Velocity(s)[1] /\ q = Velocity(s)[2]
        /\ v = Velocity(u)[1] /\ w = Velocity(u)[2]
  BY VelocityIsWhole
<1>9. /\ a.x = s.x + p * k /\ a.y = s.y + q * k /\ a.alt = s.alt + s.climb * k
      /\ Velocity(a) = Velocity(s) /\ a.climb = s.climb
  BY <1>2, <1>4, <1>8, AdvancedFields
<1>10. /\ b.x = u.x + v * k /\ b.y = u.y + w * k /\ b.alt = u.alt + u.climb * k
       /\ Velocity(b) = Velocity(u) /\ b.climb = u.climb
  <2>1. k = t - u.at
    BY <1>2
  <2>2. QED
    BY <2>1, <1>4, <1>8, AdvancedFields
<1>11. /\ g.x = b.x - a.x /\ g.y = b.y - a.y /\ g.z = b.alt - a.alt
       /\ g.vx = v - p /\ g.vy = w - q /\ g.vz = u.climb - s.climb
  BY <1>5, <1>8, <1>9, <1>10, RelativeIsWhole
<1>12. /\ r.x = u.x - s.x /\ r.y = u.y - s.y /\ r.z = u.alt - s.alt
       /\ r.vx = v - p /\ r.vy = w - q /\ r.vz = u.climb - s.climb
  BY <1>3, <1>8, RelativeIsWhole
<1>13. /\ m.x = r.x + r.vx * k /\ m.y = r.y + r.vy * k /\ m.z = r.z + r.vz * k
       /\ m.vx = r.vx /\ m.vy = r.vy /\ m.vz = r.vz
  BY <1>6, MovedFields
<1>14. \A i, j, e, f \in Int : (j + f * k) - (i + e * k) = (j - i) + (f - e) * k
  OBVIOUS
<1>15. g.x = m.x /\ g.y = m.y /\ g.z = m.z
  <2>1. g.x = (u.x - s.x) + (v - p) * k
    BY <1>7, <1>9, <1>10, <1>11, <1>14
  <2>2. g.y = (u.y - s.y) + (w - q) * k
    BY <1>7, <1>9, <1>10, <1>11, <1>14
  <2>3. g.z = (u.alt - s.alt) + (u.climb - s.climb) * k
    BY <1>7, <1>9, <1>10, <1>11, <1>14
  <2>4. QED
    BY <2>1, <2>2, <2>3, <1>12, <1>13
<1>16. g.vx = m.vx /\ g.vy = m.vy /\ g.vz = m.vz
  BY <1>11, <1>12, <1>13
<1>17. g = m
  BY <1>15, <1>16, SameRelative
<1>18. QED
  BY <1>2, <1>3, <1>4, <1>5, <1>6, <1>17

LEMMA SeparatedByDistance ==
  ASSUME NEW s \in States, NEW u \in States
  PROVE  Separated(s, u) <=> \/ DistanceAt(Relative(s, u), 0) >= Near * Near
                             \/ Magnitude(Relative(s, u).z) >= Below
<1>1. /\ s.x \in Int /\ s.y \in Int /\ s.alt \in Int
      /\ u.x \in Int /\ u.y \in Int /\ u.alt \in Int
  BY DEF States
<1>2. PICK r \in Relatives : r = Relative(s, u)
  BY RelativeIsWhole
<1>3. r.x = u.x - s.x /\ r.y = u.y - s.y /\ r.z = u.alt - s.alt /\ r.vx \in Int /\ r.vy \in Int
  BY <1>2, RelativeIsWhole, RelativeNumbers
<1>4. DistanceAt(r, 0) = (u.x - s.x) * (u.x - s.x) + (u.y - s.y) * (u.y - s.y)
  BY <1>1, <1>3 DEF DistanceAt
<1>5. \A i, j \in Int : (i - j) * (i - j) = (j - i) * (j - i)
  OBVIOUS
<1>6. DistanceAt(r, 0) = (s.x - u.x) * (s.x - u.x) + (s.y - u.y) * (s.y - u.y)
  BY <1>1, <1>4, <1>5
<1>7. Magnitude(r.z) = Magnitude(s.alt - u.alt)
  BY <1>1, <1>3 DEF Magnitude
<1>8. QED
  BY <1>2, <1>6, <1>7 DEF Separated

LEMMA SeparatedBothWays ==
  ASSUME NEW s \in States, NEW u \in States
  PROVE  Separated(s, u) <=> Separated(u, s)
<1>1. /\ s.x \in Int /\ s.y \in Int /\ s.alt \in Int
      /\ u.x \in Int /\ u.y \in Int /\ u.alt \in Int
  BY DEF States
<1>2. \A i, j \in Int : (i - j) * (i - j) = (j - i) * (j - i)
  OBVIOUS
<1>3. /\ (s.x - u.x) * (s.x - u.x) = (u.x - s.x) * (u.x - s.x)
      /\ (s.y - u.y) * (s.y - u.y) = (u.y - s.y) * (u.y - s.y)
  BY <1>1, <1>2
<1>4. Magnitude(s.alt - u.alt) = Magnitude(u.alt - s.alt)
  BY <1>1 DEF Magnitude
<1>5. QED
  BY <1>3, <1>4 DEF Separated

LEMMA ApproachParts ==
  ASSUME NEW s \in States, NEW u \in States, NEW h \in Nat
  PROVE  \E r, a, time, distance :
           /\ r \in Relatives /\ r = Relative(s, u) /\ a = ClosestApproach(s, u, h)
           /\ time = TimeOfApproach(r, h) /\ distance = SquaredDistance(r, time)
           /\ a.time = time /\ a.distance = distance
           /\ a.height = <<Magnitude(r.z * time[2] + r.vz * time[1]), time[2]>>
<1> DEFINE r == Relative(s, u)
           time == TimeOfApproach(r, h)
           distance == SquaredDistance(r, time)
           height == <<Magnitude(r.z * time[2] + r.vz * time[1]), time[2]>>
<1>1. ClosestApproach(s, u, h) = [time |-> time, distance |-> distance, height |-> height]
  BY DEF ClosestApproach
<1>2. r \in Relatives
  BY RelativeIsWhole
<1>3. /\ ClosestApproach(s, u, h).time = time
      /\ ClosestApproach(s, u, h).distance = distance
      /\ ClosestApproach(s, u, h).height = height
  <2> HIDE DEF time, distance, height
  <2>1. QED
    BY <1>1
<1>4. QED
  BY <1>2, <1>3

LEMMA TimesNear ==
  ASSUME NEW i \in Nat, NEW j \in Nat, NEW m \in Nat \ {0}, i * m >= j * m
  PROVE  i >= j
<1>1. SUFFICES ASSUME i < j PROVE FALSE
  OBVIOUS
<1>2. PICK k \in Nat \ {0} : j = i + k
  <2>1. j - i \in Nat \ {0} /\ j = i + (j - i)
    BY <1>1
  <2>2. QED
    BY <2>1
<1>3. j * m = i * m + k * m
  BY <1>2
<1>4. k * m >= m
  <2>1. PICK l \in Nat : k = l + 1
    <3>1. k - 1 \in Nat /\ k = (k - 1) + 1
      OBVIOUS
    <3>2. QED
      BY <3>1
  <2>2. k * m = l * m + m /\ l * m \in Nat
    BY <2>1, ProductIsNatural
  <2>3. QED
    BY <2>2
<1>5. i * m \in Nat
  BY ProductIsNatural
<1>6. QED
  BY <1>3, <1>4, <1>5

LEMMA MinimaAreNatural ==
  /\ Near \in Nat \ {0} /\ Below \in Nat \ {0} /\ NearMargin \in Nat \ {0}
  /\ BelowMargin \in Nat \ {0} /\ CriticalTime \in Nat \ {0} /\ HighTime \in Nat \ {0}
  /\ Near * Near \in Nat
<1>1. /\ Near \in Nat \ {0} /\ Below \in Nat \ {0} /\ NearMargin \in Nat \ {0}
      /\ BelowMargin \in Nat \ {0} /\ CriticalTime \in Nat \ {0} /\ HighTime \in Nat \ {0}
  BY MinimaAssumption DEF RuleAccepted, RiskProfileAccepted
<1>2. QED
  BY <1>1, ProductIsNatural

(* A pair that climbs alike and is assessed safe stays separated for the   *)
(* whole of the horizon.                                                   *)
LEMMA SafetyLasts ==
  ASSUME NEW s \in States, NEW u \in States, s.at = u.at, s.climb = u.climb,
         NEW h \in Nat, Status(ClosestApproach(s, u, h)) = "SAFE",
         NEW t \in Nat, s.at <= t, t <= s.at + h
  PROVE  Separated(Advanced(s, t), Advanced(u, t))
<1>1r. PICK r \in Relatives : r = Relative(s, u)
  BY RelativeIsWhole
<1>1. PICK a, time, distance :
        /\ r = Relative(s, u) /\ a = ClosestApproach(s, u, h)
        /\ time = TimeOfApproach(r, h) /\ distance = SquaredDistance(r, time)
        /\ a.time = time /\ a.distance = distance
        /\ a.height = <<Magnitude(r.z * time[2] + r.vz * time[1]), time[2]>>
  BY <1>1r, ApproachParts
<1>2. PICK k \in 0 .. h : k = t - s.at
  <2>1. s.at \in Nat
    BY DEF States
  <2>2. t - s.at \in 0 .. h
    BY <2>1
  <2>3. QED
    BY <2>2
<1>3. /\ time[1] \in Nat /\ time[2] \in Nat \ {0}
      /\ distance[1] \in Nat /\ distance[2] = time[2]
      /\ distance[1] <= DistanceAt(r, k) * time[2]
  BY <1>1, ApproachIsClosest
<1>4. r.vz = 0 /\ r.z \in Int
  <2>1. r.vz = u.climb - s.climb /\ s.climb \in Int
    BY <1>1, RelativeIsWhole DEF States
  <2>2. QED
    BY <2>1, RelativeNumbers
<1>5. PICK m \in Relatives : m = Moved(r, k)
  BY MovedFields
<1>6. m.z = r.z /\ DistanceAt(m, 0) = DistanceAt(r, k)
  <2>1. /\ m.x = r.x + r.vx * k /\ m.y = r.y + r.vy * k /\ m.z = r.z + r.vz * k
        /\ m.vx = r.vx /\ m.vy = r.vy
    <3>1. k \in Int
      OBVIOUS
    <3>2. QED
      BY <1>5, <3>1, MovedFields
  <2>2. m.z = r.z
    BY <1>4, <2>1
  <2>3. r.vx \in Int /\ r.vy \in Int /\ r.x + r.vx * k \in Int /\ r.y + r.vy * k \in Int
    <3>1. r.vx \in Int /\ r.vy \in Int /\ r.x \in Int /\ r.y \in Int
      BY RelativeNumbers
    <3>2. QED
      BY <3>1
  <2>4. (r.x + r.vx * k) + r.vx * 0 = r.x + r.vx * k
        /\ (r.y + r.vy * k) + r.vy * 0 = r.y + r.vy * k
    BY <2>3
  <2>5. DistanceAt(m, 0) = DistanceAt(r, k)
    BY <2>1, <2>4 DEF DistanceAt
  <2>6. QED
    BY <2>2, <2>5
<1>7. PICK b \in States, c \in States : b = Advanced(s, t) /\ c = Advanced(u, t)
  BY AdvancedFields
<1>8. Relative(b, c) = m
  BY <1>1, <1>2, <1>5, <1>7, RelativeMoves
<1>9. DistanceAt(r, k) \in Nat
  BY DistanceIsQuadratic
<1>10. PICK z \in Nat : z = Magnitude(r.z)
  BY <1>4 DEF Magnitude
<1>11. Magnitude(r.z * time[2] + r.vz * time[1]) = z * time[2]
  <2>1. r.vz * time[1] = 0
    BY <1>3, <1>4
  <2>2. r.z * time[2] \in Int
    BY <1>3, <1>4
  <2>3. r.z * time[2] + r.vz * time[1] = r.z * time[2]
    BY <2>1, <2>2
  <2>4. CASE r.z < 0
    <3>1. z = -r.z
      BY <1>10, <2>4 DEF Magnitude
    <3>2. -(r.z * time[2]) = z * time[2]
      BY <1>3, <1>4, <3>1
    <3>3. z * time[2] \in Nat
      BY <1>3, ProductIsNatural
    <3>4. QED
      BY <2>2, <2>3, <3>2, <3>3 DEF Magnitude
  <2>5. CASE r.z >= 0
    <3>1. z = r.z
      BY <1>4, <1>10, <2>5 DEF Magnitude
    <3>2. z * time[2] \in Nat
      BY <1>3, ProductIsNatural
    <3>3. QED
      BY <2>3, <3>1, <3>2 DEF Magnitude
  <2>6. QED
    BY <1>4, <2>4, <2>5
<1>12. \/ distance[1] >= Near * Near * time[2]
       \/ z * time[2] >= Below * time[2]
  <2>1. ~ Within(a, Near, Below)
    BY <1>1 DEF Status
  <2>2. Near * Near * time[2] \in Int /\ z * time[2] \in Int /\ Below * time[2] \in Int
    BY <1>3, MinimaAreNatural
  <2>3. a.distance[1] = distance[1] /\ a.distance[2] = time[2]
        /\ a.height[1] = z * time[2] /\ a.height[2] = time[2]
    BY <1>1, <1>3, <1>11
  <2>4. QED
    BY <1>3, <2>1, <2>2, <2>3 DEF Within
<1>13. \/ DistanceAt(r, k) >= Near * Near
       \/ z >= Below
  <2>1. CASE distance[1] >= Near * Near * time[2]
    <3>1. DistanceAt(r, k) * time[2] \in Nat /\ Near * Near * time[2] \in Nat
      BY <1>3, <1>9, MinimaAreNatural, ProductIsNatural
    <3>2. DistanceAt(r, k) * time[2] >= (Near * Near) * time[2]
      BY <1>3, <2>1, <3>1
    <3>3. QED
      BY <1>3, <1>9, <3>2, MinimaAreNatural, TimesNear
  <2>2. CASE z * time[2] >= Below * time[2]
    BY <1>3, <2>2, MinimaAreNatural, TimesNear
  <2>3. QED
    BY <1>12, <2>1, <2>2
<1>14. QED
  BY <1>6, <1>7, <1>8, <1>10, <1>13, SeparatedByDistance

-----------------------------------------------------------------------------
(* A conflict that comes nearer. *)
LEMMA ProductIsMonotone ==
  ASSUME NEW i \in Int, NEW j \in Int, NEW m \in Nat, i <= j
  PROVE  i * m <= j * m
<1>1. PICK k \in Nat : j = i + k
  <2>1. j - i \in Nat /\ j = i + (j - i)
    OBVIOUS
  <2>2. QED
    BY <2>1
<1>2. j * m = i * m + k * m /\ k * m \in Nat
  BY <1>1, ProductIsNatural
<1>3. i * m \in Int
  OBVIOUS
<1>4. QED
  BY <1>2, <1>3

LEMMA FractionBelow ==
  ASSUME NEW a \in Nat, NEW b \in Nat, NEW m \in Nat \ {0}, NEW l \in Nat \ {0}, NEW n \in Nat,
         b * m <= a * l, a < n * m
  PROVE  b < n * l
<1>1. SUFFICES ASSUME b >= n * l PROVE FALSE
  BY ProductIsNatural
<1>2. n * l \in Nat /\ n * m \in Nat
  BY ProductIsNatural
<1>3. (n * l) * m <= b * m
  BY <1>1, <1>2, ProductIsMonotone
<1>4. (a + 1) * l <= (n * m) * l
  BY <1>2, ProductIsMonotone
<1>5. (a + 1) * l = a * l + l
  OBVIOUS
<1>6. (n * l) * m = (n * m) * l
  OBVIOUS
<1>7. a * l \in Nat /\ b * m \in Nat /\ (n * m) * l \in Nat
  BY <1>2, ProductIsNatural
<1>8. QED
  BY <1>3, <1>4, <1>5, <1>6, <1>7

LEMMA FractionAtMost ==
  ASSUME NEW a \in Nat, NEW b \in Nat, NEW m \in Nat \ {0}, NEW l \in Nat \ {0}, NEW n \in Nat,
         b * m <= a * l, a <= n * m
  PROVE  b <= n * l
<1>1. n * l \in Nat /\ n * m \in Nat /\ a * l \in Nat /\ b * m \in Nat
  BY ProductIsNatural
<1>2. a * l <= (n * m) * l
  BY <1>1, ProductIsMonotone
<1>3. (n * m) * l = (n * l) * m
  OBVIOUS
<1>4. (n * l) * m \in Nat
  BY <1>1, ProductIsNatural
<1>5. (n * l) * m >= b * m
  BY <1>1, <1>2, <1>3, <1>4
<1>6. QED
  BY <1>1, <1>5, TimesNear

LEMMA MovedMotion ==
  ASSUME NEW r \in Relatives, NEW k \in Nat, NEW m \in Relatives, m = Moved(r, k)
  PROVE  /\ Opening(m) = Opening(r) + Swiftness(r) * k
         /\ Swiftness(m) = Swiftness(r) /\ Crossing(m) = Crossing(r)
         /\ \A t \in Nat : DistanceAt(m, t) = DistanceAt(r, k + t)
<1>1. /\ m.x = r.x + r.vx * k /\ m.y = r.y + r.vy * k
      /\ m.vx = r.vx /\ m.vy = r.vy
  BY MovedFields
<1>2. r.x \in Int /\ r.y \in Int /\ r.vx \in Int /\ r.vy \in Int
  BY RelativeNumbers
<1>3. Swiftness(m) = Swiftness(r)
  BY <1>1 DEF Swiftness
<1>4. (r.x + r.vx * k) * r.vx + (r.y + r.vy * k) * r.vy
        = (r.x * r.vx + r.y * r.vy) + (r.vx * r.vx + r.vy * r.vy) * k
  BY <1>2
<1>5. Opening(m) = Opening(r) + Swiftness(r) * k
  BY <1>1, <1>4 DEF Opening, Swiftness
<1>6. (r.x + r.vx * k) * r.vy - (r.y + r.vy * k) * r.vx = r.x * r.vy - r.y * r.vx
  BY <1>2
<1>7. Crossing(m) = Crossing(r)
  BY <1>1, <1>6 DEF Crossing
<1>8. ASSUME NEW t \in Nat PROVE DistanceAt(m, t) = DistanceAt(r, k + t)
  <2>1. \A i, j \in Int : (i + j * k) + j * t = i + j * (k + t)
    OBVIOUS
  <2>2. /\ m.x + m.vx * t = r.x + r.vx * (k + t)
        /\ m.y + m.vy * t = r.y + r.vy * (k + t)
    BY <1>1, <1>2, <2>1
  <2>3. QED
    BY <2>2 DEF DistanceAt
<1>9. QED
  BY <1>3, <1>5, <1>7, <1>8

(* The next assessment of an approach that is still ahead: no later than   *)
(* what is left of it, and no less close.                                  *)
LEMMA ApproachComesNearer ==
  ASSUME NEW r \in Relatives, NEW h \in Nat, NEW k \in Nat \ {0},
         NEW m \in Relatives, m = Moved(r, k),
         NEW time, time = TimeOfApproach(r, h),
         NEW distance, distance = SquaredDistance(r, time),
         NEW later, later = TimeOfApproach(m, h),
         NEW nearer, nearer = SquaredDistance(m, later),
         k * time[2] <= time[1]
  PROVE  /\ later[1] * time[2] <= time[1] * later[2]
         /\ nearer[1] * time[2] <= distance[1] * later[2]
<1> DEFINE d == Opening(r)
           q == Swiftness(r)
           c == Crossing(r)
           e == Opening(m)
<1>1. d \in Int /\ q \in Nat /\ c \in Int /\ e \in Int
  BY RelativeNumbers
<1>2. e = d + q * k /\ Swiftness(m) = q /\ Crossing(m) = c
      /\ \A t \in Nat : DistanceAt(m, t) = DistanceAt(r, k + t)
  BY MovedMotion
<1>3. \A t \in Nat : DistanceAt(r, t) \in Nat
  BY DistanceIsQuadratic
<1>4. \A t \in Nat : DistanceAt(r, t) = DistanceAt(r, 0) + 2 * d * t + q * (t * t)
  BY DistanceIsQuadratic
<1>5. \A t \in Nat : q * DistanceAt(r, t) = c * c + (d + q * t) * (d + q * t)
  BY DistanceIsQuadratic
<1>6. q * k \in Nat /\ h * q \in Nat /\ c * c \in Nat
  BY <1>1, ProductIsNatural, SquareIsNatural
<1>7. CASE d >= 0
  <2>1. time = <<0, 1>>
    BY <1>7, ApproachTimed
  <2>2. k * 1 <= 0
    BY <2>1
  <2>3. QED
    BY <2>2
<1>8. CASE d < 0 /\ -d > h * q
  <2>1. time = <<h, 1>>
    BY <1>8, ApproachTimed
  <2>2. distance = <<DistanceAt(r, h), 1>>
    BY <2>1, DistanceAtStop
  <2>3. k <= h
    <3>1. k * 1 <= h
      BY <2>1
    <3>2. QED
      BY <3>1
  <2>4. k * q <= h * q
    BY <1>1, <2>3, ProductIsMonotone
  <2>5. e < 0
    <3> HIDE DEF d, q, c, e
    <3>1. q * k = k * q
      BY <1>1
    <3>2. QED
      BY <1>1, <1>2, <1>6, <1>8, <2>4, <3>1
  <2>6. DistanceAt(r, h) \in Nat
    BY <1>3
  <2>7. CASE -e > h * q
    <3>1. later = <<h, 1>>
      BY <1>2, <2>5, <2>7, ApproachTimed
    <3>2. nearer = <<DistanceAt(m, h), 1>>
      BY <3>1, DistanceAtStop
    <3>3. DistanceAt(m, h) = DistanceAt(r, k + h)
      BY <1>2
    <3>4. -d >= (k + h) * q
      <4> HIDE DEF d, q, c, e
      <4>1. (k + h) * q = q * k + h * q
        BY <1>1
      <4>2. QED
        BY <1>1, <1>2, <1>6, <2>7, <4>1
    <3>5. DistanceAt(r, k + h) <= DistanceAt(r, h)
      <4>1. k + h \in Nat /\ h <= k + h
        OBVIOUS
      <4>2. /\ DistanceAt(r, k + h)
                 = DistanceAt(r, 0) + 2 * d * (k + h) + q * ((k + h) * (k + h))
            /\ DistanceAt(r, h) = DistanceAt(r, 0) + 2 * d * h + q * (h * h)
        BY <1>4, <4>1
      <4> HIDE DEF d, q, c, e
      <4>3. 2 * d * (k + h) + q * ((k + h) * (k + h)) <= 2 * d * h + q * (h * h)
        BY <1>1, <3>4, <4>1, StillClosing
      <4>4. 2 * d * (k + h) \in Int /\ q * ((k + h) * (k + h)) \in Int
            /\ 2 * d * h \in Int /\ q * (h * h) \in Int
        BY <1>1
      <4>5. DistanceAt(r, 0) \in Nat
        BY <1>3
      <4>6. QED
        BY <4>2, <4>3, <4>4, <4>5
    <3>6. DistanceAt(r, k + h) \in Nat
      BY <1>3
    <3>7. QED
      BY <2>1, <2>2, <2>6, <3>1, <3>2, <3>3, <3>5, <3>6
  <2>8. CASE -e <= h * q
    <3>1. later = <<-e, q>> /\ q > 0
      BY <1>2, <2>5, <2>8, ApproachTimed
    <3>2. nearer = <<c * c, q>>
      BY <1>2, <3>1, DistanceInside
    <3>3. q * DistanceAt(r, h) = c * c + (d + q * h) * (d + q * h)
      BY <1>5
    <3> HIDE DEF d, q, c, e
    <3>4. (d + q * h) * (d + q * h) \in Nat
      <4>1. d + q * h \in Int
        BY <1>1
      <4>2. QED
        BY <4>1, SquareIsNatural
    <3>5. q * DistanceAt(r, h) = DistanceAt(r, h) * q
      BY <1>1, <2>6
    <3>6. c * c <= DistanceAt(r, h) * q
      BY <1>6, <3>3, <3>4, <3>5
    <3>7. (-e) * 1 = -e /\ (c * c) * 1 = c * c
      BY <1>1, <1>6
    <3>8. QED
      BY <2>1, <2>2, <2>8, <3>1, <3>2, <3>6, <3>7
  <2>9. QED
    BY <1>1, <1>6, <2>7, <2>8
<1>9. CASE d < 0 /\ -d <= h * q
  <2>1. time = <<-d, q>> /\ q > 0
    BY <1>9, ApproachTimed
  <2>2. distance = <<c * c, q>>
    BY <2>1, DistanceInside
  <2>3. k * q <= -d
    BY <2>1
  <2>4. e <= 0 /\ -e <= -d /\ -e <= h * q
    <3> HIDE DEF d, q, c, e
    <3>1. q * k = k * q
      BY <1>1
    <3>2. QED
      BY <1>1, <1>2, <1>6, <1>9, <2>3, <3>1
  <2>5. CASE e = 0
    <3>1. later = <<0, 1>>
      BY <1>2, <2>5, ApproachTimed
    <3>2. nearer = <<DistanceAt(m, 0), 1>>
      BY <3>1, DistanceAtStop
    <3>3. DistanceAt(m, 0) = DistanceAt(r, k)
      <4>1. DistanceAt(m, 0) = DistanceAt(r, k + 0) /\ k + 0 = k
        BY <1>2
      <4>2. QED
        BY <4>1
    <3>4. q * DistanceAt(r, k) = c * c + (d + q * k) * (d + q * k)
      BY <1>5
    <3>5. DistanceAt(r, k) \in Nat
      BY <1>3
    <3> HIDE DEF d, q, c, e
    <3>6. d + q * k = 0
      BY <1>2, <2>5
    <3>7. q * DistanceAt(r, k) = c * c
      BY <1>6, <3>4, <3>6
    <3>8. DistanceAt(r, k) * q = q * DistanceAt(r, k)
      BY <1>1, <3>5
    <3>9. (c * c) * 1 = c * c /\ 0 * q = 0 /\ (-d) * 1 = -d
      BY <1>1, <1>6
    <3>10. QED
      BY <1>1, <1>6, <1>9, <2>1, <2>2, <3>1, <3>2, <3>3, <3>7, <3>8, <3>9
  <2>6. CASE e < 0
    <3>1. later = <<-e, q>>
      BY <1>2, <2>4, <2>6, ApproachTimed
    <3>2. nearer = <<c * c, q>>
      BY <1>2, <2>1, <3>1, DistanceInside
    <3> HIDE DEF d, q, c, e
    <3>3. (-e) * q <= (-d) * q
      BY <1>1, <2>4, ProductIsMonotone
    <3>4. (c * c) * q \in Nat
      BY <1>1, <1>6, ProductIsNatural
    <3>5. QED
      BY <2>1, <2>2, <3>1, <3>2, <3>3, <3>4
  <2>7. QED
    BY <1>1, <2>4, <2>5, <2>6
<1>10. QED
  BY <1>1, <1>6, <1>7, <1>8, <1>9

LEMMA EventParts ==
  ASSUME NEW s \in States, NEW u \in States, NEW h \in Nat
  PROVE  /\ Event(s, u, h).at = s.at
         /\ Event(s, u, h).time = ClosestApproach(s, u, h).time
         /\ Event(s, u, h).status = Status(ClosestApproach(s, u, h))
         /\ Event(s, u, h).time[1] \in Nat /\ Event(s, u, h).time[2] \in Nat \ {0}
         /\ Event(s, u, h).time[1] <= h * Event(s, u, h).time[2]
<1>1r. PICK r \in Relatives : r = Relative(s, u)
  BY RelativeIsWhole
<1>1. PICK a, time, distance :
        /\ r = Relative(s, u) /\ a = ClosestApproach(s, u, h)
        /\ time = TimeOfApproach(r, h) /\ distance = SquaredDistance(r, time)
        /\ a.time = time /\ a.distance = distance
        /\ a.height = <<Magnitude(r.z * time[2] + r.vz * time[1]), time[2]>>
  BY <1>1r, ApproachParts
<1>2. time[1] \in Nat /\ time[2] \in Nat \ {0} /\ time[1] <= h * time[2]
  BY <1>1, ApproachIsClosest
<1>3. /\ Event(s, u, h).at = s.at /\ Event(s, u, h).time = a.time
      /\ Event(s, u, h).status = Status(a)
  BY <1>1 DEF Event
<1>4. QED
  BY <1>1, <1>2, <1>3

LEMMA LevelHeight ==
  ASSUME NEW r \in Relatives, r.vz = 0, NEW n \in Nat, NEW m \in Nat \ {0}
  PROVE  /\ Magnitude(r.z) \in Nat
         /\ Magnitude(r.z * m + r.vz * n) = Magnitude(r.z) * m
<1>1. r.z \in Int /\ r.z * m \in Int /\ r.vz * n = 0
  BY RelativeNumbers
<1>2. r.z * m + r.vz * n = r.z * m
  BY <1>1
<1>3. CASE r.z < 0
  <2>1. Magnitude(r.z) = -r.z
    BY <1>3 DEF Magnitude
  <2>2. (-r.z) * m = -(r.z * m)
    BY <1>1
  <2>3. -r.z \in Nat /\ (-r.z) * m \in Nat
    BY <1>1, <1>3, ProductIsNatural
  <2>4. Magnitude(r.z * m) = -(r.z * m)
    BY <1>1, <2>2, <2>3 DEF Magnitude
  <2>5. QED
    BY <1>2, <2>1, <2>2, <2>3, <2>4
<1>4. CASE r.z >= 0
  <2>1. r.z \in Nat /\ r.z * m \in Nat
    BY <1>1, <1>4, ProductIsNatural
  <2>2. Magnitude(r.z) = r.z /\ Magnitude(r.z * m) = r.z * m
    BY <2>1 DEF Magnitude
  <2>3. QED
    BY <1>2, <2>1, <2>2
<1>5. QED
  BY <1>1, <1>3, <1>4

LEMMA SoonerIsRiskier ==
  ASSUME NEW e, NEW f, e.status = "PREDICTED", f.status = "PREDICTED",
         e.time[1] \in Nat, f.time[1] \in Nat,
         e.time[2] \in Nat \ {0}, f.time[2] \in Nat \ {0},
         f.time[1] * e.time[2] <= e.time[1] * f.time[2]
  PROVE  RiskRank[RiskOf(f)] >= RiskRank[RiskOf(e)]
<1>1. CriticalTime \in Nat /\ HighTime \in Nat
  BY MinimaAreNatural
<1>8. ASSUME NEW n \in Nat, e.time[1] <= n * e.time[2]
      PROVE  f.time[1] <= n * f.time[2]
  BY <1>8, FractionAtMost
<1>2. e.time[1] <= CriticalTime * e.time[2] => f.time[1] <= CriticalTime * f.time[2]
  BY <1>1, <1>8
<1>3. e.time[1] <= HighTime * e.time[2] => f.time[1] <= HighTime * f.time[2]
  BY <1>1, <1>8
<1>4. /\ RiskRank["LOW"] = 0 /\ RiskRank["MEDIUM"] = 1
      /\ RiskRank["HIGH"] = 2 /\ RiskRank["CRITICAL"] = 3
  BY DEF RiskRank
<1>5. RiskOf(e) = IF e.time[1] <= CriticalTime * e.time[2] THEN "CRITICAL"
                  ELSE IF e.time[1] <= HighTime * e.time[2] THEN "HIGH" ELSE "MEDIUM"
  BY DEF RiskOf
<1>6. RiskOf(f) = IF f.time[1] <= CriticalTime * f.time[2] THEN "CRITICAL"
                  ELSE IF f.time[1] <= HighTime * f.time[2] THEN "HIGH" ELSE "MEDIUM"
  BY DEF RiskOf
<1>7. QED
  BY <1>2, <1>3, <1>4, <1>5, <1>6

(* A level pair that was predicted to conflict and has not met yet is      *)
(* predicted to conflict again, no later than before.                      *)
LEMMA ConflictComesNearer ==
  ASSUME NEW s \in States, NEW u \in States, s.at = u.at, s.climb = 0, u.climb = 0,
         NEW h \in Nat, NEW t \in Nat, s.at < t,
         NEW e, e = Event(s, u, h),
         NEW f, f = Event(Advanced(s, t), Advanced(u, t), h),
         e.status = "PREDICTED", (t - s.at) * e.time[2] <= e.time[1]
  PROVE  RiskRank[RiskOf(f)] >= RiskRank[RiskOf(e)]
<1>1r. PICK r \in Relatives : r = Relative(s, u)
  BY RelativeIsWhole
<1>1. PICK a, time, distance :
        /\ r = Relative(s, u) /\ a = ClosestApproach(s, u, h)
        /\ time = TimeOfApproach(r, h) /\ distance = SquaredDistance(r, time)
        /\ a.time = time /\ a.distance = distance
        /\ a.height = <<Magnitude(r.z * time[2] + r.vz * time[1]), time[2]>>
  BY <1>1r, ApproachParts
<1>2. PICK v \in States, w \in States : v = Advanced(s, t) /\ w = Advanced(u, t)
  BY AdvancedFields
<1>3r. PICK m \in Relatives : m = Relative(v, w)
  BY RelativeIsWhole
<1>3. PICK b, later, nearer :
        /\ m = Relative(v, w) /\ b = ClosestApproach(v, w, h)
        /\ later = TimeOfApproach(m, h) /\ nearer = SquaredDistance(m, later)
        /\ b.time = later /\ b.distance = nearer
        /\ b.height = <<Magnitude(m.z * later[2] + m.vz * later[1]), later[2]>>
  BY <1>3r, ApproachParts
<1>4. PICK k \in Nat \ {0} : k = t - s.at
  <2>1. s.at \in Nat
    BY DEF States
  <2>2. t - s.at \in Nat \ {0}
    BY <2>1
  <2>3. QED
    BY <2>2
<1>5. m = Moved(r, k)
  BY <1>1, <1>2, <1>3, <1>4, RelativeMoves
<1>6. e.time = time /\ e.status = Status(a) /\ f.time = later /\ f.status = Status(b)
  <2>1. e.time = a.time /\ e.status = Status(a)
    BY <1>1, EventParts
  <2>2. f.time = b.time /\ f.status = Status(b)
    BY <1>2, <1>3, EventParts
  <2>3. QED
    BY <1>1, <1>3, <2>1, <2>2
<1>7. /\ later[1] * time[2] <= time[1] * later[2]
      /\ nearer[1] * time[2] <= distance[1] * later[2]
  BY <1>1, <1>3, <1>4, <1>5, <1>6, ApproachComesNearer
<1>8. /\ time[1] \in Nat /\ time[2] \in Nat \ {0}
      /\ distance[1] \in Nat /\ distance[2] = time[2]
  BY <1>1, ApproachIsClosest
<1>9. /\ later[1] \in Nat /\ later[2] \in Nat \ {0}
      /\ nearer[1] \in Nat /\ nearer[2] = later[2]
  BY <1>3, ApproachIsClosest
<1>10. r.vz = 0 /\ m.vz = 0 /\ m.z = r.z
  <2>1. r.vz = 0
    BY <1>1, RelativeIsWhole
  <2>2. m.vz = r.vz /\ m.z = r.z + r.vz * k
    <3>1. k \in Int
      OBVIOUS
    <3>2. QED
      BY <1>5, <3>1, MovedFields
  <2>3. QED
    BY <2>1, <2>2, RelativeNumbers
<1>11. PICK z \in Nat : z = Magnitude(r.z)
  BY <1>10, LevelHeight
<1>12. /\ Magnitude(r.z * time[2] + r.vz * time[1]) = z * time[2]
       /\ Magnitude(m.z * later[2] + m.vz * later[1]) = z * later[2]
  BY <1>8, <1>9, <1>10, <1>11, LevelHeight, ZenonT(40)
<1>13. /\ distance[1] < Near * Near * time[2]
       /\ z * time[2] < Below * time[2]
  <2>1. Within(a, Near, Below)
    BY <1>6 DEF Status
  <2>2. /\ a.distance[1] = distance[1] /\ a.distance[2] = time[2]
        /\ a.height[1] = z * time[2] /\ a.height[2] = time[2]
    BY <1>1, <1>8, <1>12
  <2>3. QED
    BY <2>1, <2>2 DEF Within
<1>14. nearer[1] < (Near * Near) * later[2]
  BY <1>7, <1>8, <1>9, <1>13, MinimaAreNatural, FractionBelow
<1>15. z * later[2] < Below * later[2]
  <2>1. (z * later[2]) * time[2] <= (z * time[2]) * later[2]
    BY <1>8, <1>9
  <2>2. z * later[2] \in Nat /\ z * time[2] \in Nat
    BY <1>8, <1>9, ProductIsNatural
  <2>3. QED
    BY <1>8, <1>9, <1>13, <2>1, <2>2, MinimaAreNatural, FractionBelow
<1>16. f.status = "PREDICTED"
  <2>1. /\ b.distance[1] = nearer[1] /\ b.distance[2] = later[2]
        /\ b.height[1] = z * later[2] /\ b.height[2] = later[2]
    BY <1>3, <1>9, <1>12
  <2>2. Within(b, Near, Below)
    BY <1>14, <1>15, <2>1 DEF Within
  <2>3. QED
    BY <1>6, <2>2 DEF Status
<1>17. QED
  BY <1>6, <1>7, <1>8, <1>9, <1>16, SoonerIsRiskier

-----------------------------------------------------------------------------
(* The latest anchor. *)
NoAnchorBetween(anchors, t0, t) ==
  \A i \in DOMAIN anchors : ~(t0 < anchors[i].at /\ anchors[i].at <= t)

LEMMA AnchorFound ==
  ASSUME NEW anchors \in Seq(States), NEW t \in Nat,
         \E i \in DOMAIN anchors : anchors[i].at <= t
  PROVE  \E i \in DOMAIN anchors :
           /\ MotionAnchor(anchors, t) = anchors[i]
           /\ anchors[i].at <= t
           /\ \A j \in DOMAIN anchors : anchors[j].at <= t => anchors[j].at <= anchors[i].at
<1> DEFINE past == {i \in DOMAIN anchors : anchors[i].at <= t}
           Latest(i) == \A j \in past : anchors[j].at <= anchors[i].at
           Ages == {t - anchors[i].at : i \in past}
<1>1. \A i \in DOMAIN anchors : anchors[i] \in States /\ anchors[i].at \in Nat
  <2>1. \A i \in DOMAIN anchors : anchors[i] \in States
    OBVIOUS
  <2>2. QED
    BY <2>1 DEF States
<1>2. Ages \subseteq Nat /\ Ages # {}
  <2>1. \A i \in past : t - anchors[i].at \in Nat
    BY <1>1
  <2>2. past # {}
    OBVIOUS
  <2>3. QED
    BY <2>1, <2>2
<1>3. PICK least \in Ages : \A age \in Ages : least <= age
  <2> HIDE DEF Ages
  <2>1. QED
    BY <1>2, LeastExists
<1>4. PICK i \in past : least = t - anchors[i].at
  BY <1>3
<1>5. Latest(i)
  <2>1. ASSUME NEW j \in past PROVE anchors[j].at <= anchors[i].at
    <3>1. t - anchors[j].at \in Ages
      OBVIOUS
    <3>2. t - anchors[i].at <= t - anchors[j].at
      BY <1>3, <1>4, <3>1
    <3>3. QED
      BY <1>1, <3>2
  <2>2. QED
    BY <2>1
<1> DEFINE found == CHOOSE k \in past : Latest(k)
<1>6. found \in past /\ Latest(found)
  <2> HIDE DEF Latest, past
  <2>1. QED
    BY <1>4, <1>5
<1>7. MotionAnchor(anchors, t) = anchors[found]
  BY DEF MotionAnchor
<1> HIDE DEF found
<1>8. QED
  BY <1>6, <1>7

LEMMA CurrentFound ==
  ASSUME NEW anchors \in Seq(States), NEW t \in Nat,
         \E i \in DOMAIN anchors : anchors[i].at <= t
  PROVE  /\ MotionAnchor(anchors, t) \in States
         /\ CurrentState(anchors, t) \in States
         /\ CurrentState(anchors, t).at = t
<1>1. MotionAnchor(anchors, t) \in States
  <2>1. PICK i \in DOMAIN anchors : MotionAnchor(anchors, t) = anchors[i]
    BY AnchorFound
  <2>2. QED
    BY <2>1
<1>2. QED
  BY <1>1, AdvancedFields DEF CurrentState

(* As long as no anchor takes over, the motion goes on. *)
LEMMA MotionGoesOn ==
  ASSUME NEW anchors \in Seq(States), NEW t0 \in Nat, NEW t \in Nat, t0 <= t,
         \E i \in DOMAIN anchors : anchors[i].at <= t0,
         NoAnchorBetween(anchors, t0, t)
  PROVE  /\ MotionAnchor(anchors, t) = MotionAnchor(anchors, t0)
         /\ CurrentState(anchors, t) = Advanced(CurrentState(anchors, t0), t)
<1>1. \A i \in DOMAIN anchors : anchors[i].at \in Nat
  <2>1. \A i \in DOMAIN anchors : anchors[i] \in States
    OBVIOUS
  <2>2. QED
    BY <2>1 DEF States
<1>2. {i \in DOMAIN anchors : anchors[i].at <= t} = {i \in DOMAIN anchors : anchors[i].at <= t0}
  BY <1>1 DEF NoAnchorBetween
<1>3. MotionAnchor(anchors, t) = MotionAnchor(anchors, t0)
  BY <1>2 DEF MotionAnchor
<1>4. PICK m \in States : m = MotionAnchor(anchors, t0)
  BY CurrentFound
<1>5. CurrentState(anchors, t) = Advanced(m, t) /\ CurrentState(anchors, t0) = Advanced(m, t0)
  BY <1>3, <1>4 DEF CurrentState
<1>6. Advanced(Advanced(m, t0), t) = Advanced(m, t)
  BY MotionComposes
<1>7. QED
  BY <1>3, <1>5, <1>6

(* A new anchor at a time that has none is where the aircraft is then. *)
LEMMA NewAnchorIsCurrent ==
  ASSUME NEW anchors \in Seq(States), NEW s \in States,
         \A i \in DOMAIN anchors : anchors[i].at # s.at
  PROVE  CurrentState(Append(anchors, s), s.at) = s
<1>1. PICK more \in Seq(States) : more = Append(anchors, s)
  <2>1. Append(anchors, s) \in Seq(States)
    OBVIOUS
  <2>2. QED
    BY <2>1
<1>2. PICK n \in Nat : n = Len(anchors)
  OBVIOUS
<1>3. /\ DOMAIN more = 1 .. n + 1 /\ more[n + 1] = s
      /\ \A i \in 1 .. n : more[i] = anchors[i] /\ i \in DOMAIN anchors
  BY <1>1, <1>2
<1>4. s.at \in Nat
  BY DEF States
<1>5. \E i \in DOMAIN more : more[i].at <= s.at
  <2>1. n + 1 \in DOMAIN more /\ more[n + 1].at <= s.at
    BY <1>3, <1>4
  <2>2. QED
    BY <2>1
<1>6. PICK i \in DOMAIN more :
        /\ MotionAnchor(more, s.at) = more[i]
        /\ more[i].at <= s.at
        /\ \A j \in DOMAIN more : more[j].at <= s.at => more[j].at <= more[i].at
  BY <1>4, <1>5, AnchorFound
<1>7. s.at <= more[i].at
  <2>1. n + 1 \in DOMAIN more /\ more[n + 1].at <= s.at
    BY <1>3, <1>4
  <2>2. more[n + 1].at <= more[i].at
    BY <1>6, <2>1
  <2>3. QED
    BY <1>3, <2>2
<1>8. more[i].at = s.at
  <2>1. more[i].at \in Nat
    <3>1. more[i] \in States
      OBVIOUS
    <3>2. QED
      BY <3>1 DEF States
  <2>2. QED
    BY <1>4, <1>6, <1>7, <2>1
<1>9. i = n + 1
  <2>1. CASE i \in 1 .. n
    BY <1>3, <1>8, <2>1
  <2>2. QED
    BY <1>3, <2>1
<1>10. CurrentState(more, s.at) = Advanced(s, s.at)
  BY <1>3, <1>6, <1>9 DEF CurrentState
<1>11. QED
  BY <1>1, <1>10, NoTimeNoMotion

-----------------------------------------------------------------------------
(* Pairs. *)
LEMMA PairHasTwo ==
  ASSUME NEW a, NEW b, a # b
  PROVE  Cardinality({a, b}) = 2
<1>1. IsFiniteSet({a}) /\ Cardinality({a}) = 1
  BY FS_Singleton
<1>2. Cardinality({a} \cup {b}) = 2
  BY <1>1, FS_AddElement
<1>3. {a} \cup {b} = {a, b}
  OBVIOUS
<1>4. QED
  BY <1>2, <1>3

LEMMA PairIsTwo ==
  ASSUME NEW p, IsFiniteSet(p), Cardinality(p) = 2
  PROVE  LET a == CHOOSE c \in p : TRUE
             b == CHOOSE c \in p : c # a
         IN  a \in p /\ b \in p /\ a # b /\ p = {a, b}
<1> DEFINE a == CHOOSE c \in p : TRUE
           b == CHOOSE c \in p : c # a
<1>1. p # {}
  BY FS_EmptySet
<1>2. a \in p
  BY <1>1
<1> HIDE DEF a
<1>3. IsFiniteSet(p \ {a}) /\ Cardinality(p \ {a}) = 1
  BY <1>2, FS_RemoveElement
<1>4. PICK x : p \ {a} = {x}
  BY <1>3, FS_Singleton
<1>5. b \in p /\ b # a
  <2>1. x \in p /\ x # a
    BY <1>4
  <2>2. QED
    BY <2>1
<1> HIDE DEF b
<1>6. p = {a, b}
  BY <1>2, <1>4, <1>5
<1>7. QED
  BY <1>2, <1>5, <1>6 DEF a, b

-----------------------------------------------------------------------------
(* Assessed traffic. *)
Traffic(states, t) ==
  /\ DOMAIN states \subseteq Aircraft
  /\ \A a \in DOMAIN states : states[a] \in States /\ states[a].at = t

AllSafe(states, h) == \A p \in PairsOf(states) : EventOf(states, p, h).status = "SAFE"

LEMMA PairAssessed ==
  ASSUME NEW states, NEW t, Traffic(states, t), NEW p \in PairsOf(states)
  PROVE  \E a, b \in p :
           /\ a # b /\ p = {a, b} /\ a \in DOMAIN states /\ b \in DOMAIN states
           /\ \A other, h : EventOf(other, p, h) = Event(other[a], other[b], h)
<1>1. p \subseteq DOMAIN states /\ Cardinality(p) = 2
  BY DEF PairsOf
<1>2. IsFiniteSet(p)
  <2>1. p \in SUBSET Aircraft /\ IsFiniteSet(Aircraft)
    BY <1>1, FlightAssumption DEF Traffic
  <2>2. QED
    BY <2>1, FS_Subset
<1> DEFINE a == CHOOSE c \in p : TRUE
           b == CHOOSE c \in p : c # a
<1>3. a \in p /\ b \in p /\ a # b /\ p = {a, b}
  BY <1>1, <1>2, PairIsTwo
<1>4. \A other, h : EventOf(other, p, h) = Event(other[a], other[b], h)
  BY DEF EventOf
<1> HIDE DEF a, b
<1>5. QED
  BY <1>1, <1>3, <1>4

LEMMA EventsAreSafeOrPredicted ==
  ASSUME NEW states, NEW t, Traffic(states, t), NEW p \in PairsOf(states), NEW h \in Nat
  PROVE  /\ EventOf(states, p, h).status \in {"SAFE", "PREDICTED"}
         /\ EventOf(states, p, h).at = t
         /\ EventOf(states, p, h).time[1] \in Nat
         /\ EventOf(states, p, h).time[2] \in Nat \ {0}
         /\ EventOf(states, p, h).time[1] <= h * EventOf(states, p, h).time[2]
<1>1. PICK a \in p, b \in p :
        /\ a # b /\ p = {a, b} /\ a \in DOMAIN states /\ b \in DOMAIN states
        /\ \A other, g : EventOf(other, p, g) = Event(other[a], other[b], g)
  BY PairAssessed
<1>2. PICK s \in States, u \in States : s = states[a] /\ u = states[b] /\ s.at = t
  BY <1>1 DEF Traffic
<1>3. EventOf(states, p, h) = Event(s, u, h)
  BY <1>1, <1>2
<1>4. Status(ClosestApproach(s, u, h)) \in {"SAFE", "PREDICTED"}
  BY DEF Status
<1>5. QED
  BY <1>2, <1>3, <1>4, EventParts

LEMMA SafeTrafficStaysApart ==
  ASSUME NEW states, NEW t0 \in Nat, Traffic(states, t0), NEW h \in Nat, AllSafe(states, h),
         NEW a \in DOMAIN states, NEW b \in DOMAIN states, a # b,
         states[a].climb = states[b].climb,
         NEW t \in Nat, t0 <= t, t <= t0 + h
  PROVE  Separated(Advanced(states[a], t), Advanced(states[b], t))
<1>1. {a, b} \in PairsOf(states)
  BY PairHasTwo DEF PairsOf
<1>2. PICK c \in {a, b}, d \in {a, b} :
        /\ c # d
        /\ \A other, g : EventOf(other, {a, b}, g) = Event(other[c], other[d], g)
  <2>1. PICK p \in PairsOf(states) : p = {a, b}
    BY <1>1
  <2>2. PICK c \in p, d \in p :
          /\ c # d
          /\ \A other, g : EventOf(other, p, g) = Event(other[c], other[d], g)
    BY PairAssessed
  <2>3. QED
    BY <2>1, <2>2
<1>3. PICK s \in States, u \in States :
        /\ s = states[c] /\ u = states[d] /\ s.at = t0 /\ u.at = t0 /\ s.climb = u.climb
  BY <1>2 DEF Traffic
<1>4. Event(s, u, h).status = "SAFE"
  BY <1>1, <1>2, <1>3 DEF AllSafe
<1>5. Status(ClosestApproach(s, u, h)) = "SAFE"
  BY <1>4, EventParts
<1>6. Separated(Advanced(s, t), Advanced(u, t))
  BY <1>3, <1>5, SafetyLasts
<1>7. Separated(Advanced(u, t), Advanced(s, t))
  BY <1>6, AdvancedFields, SeparatedBothWays
<1>8. \/ a = c /\ b = d
      \/ a = d /\ b = c
  BY <1>2
<1>9. QED
  BY <1>3, <1>6, <1>7, <1>8

-----------------------------------------------------------------------------
(* The Candidates of a pair. *)
LEMMA FourTemplates ==
  /\ DOMAIN Templates = 1 .. 4 /\ Len(Templates) = 4
  /\ Templates[1] = Template(1, "PREFERRED", "ALTITUDE", 10, 0, 0)
  /\ Templates[2] = Template(2, "PREFERRED", "HEADING", 25, 0, 15)
  /\ Templates[3] = Template(3, "OTHER", "SPEED", 20, 30, 0)
  /\ Templates[4] = Template(4, "OTHER", "ALTITUDE", 30, 0, 0)
  BY DEF Templates

LEMMA TemplateFields ==
  ASSUME NEW i \in 1 .. 4
  PROVE  /\ Templates[i].id = i
         /\ Templates[i].cost \in Nat /\ Templates[i].delay \in Nat /\ Templates[i].path \in Nat
         /\ \/ Templates[i].type = "ALTITUDE" /\ Templates[i].role \in {"PREFERRED", "OTHER"}
            \/ Templates[i].type = "HEADING" /\ Templates[i].role = "PREFERRED"
            \/ Templates[i].type = "SPEED" /\ Templates[i].role = "OTHER"
<1>1. CASE i = 1
  BY <1>1, FourTemplates DEF Template
<1>2. CASE i = 2
  BY <1>2, FourTemplates DEF Template
<1>3. CASE i = 3
  BY <1>3, FourTemplates DEF Template
<1>4. CASE i = 4
  BY <1>4, FourTemplates DEF Template
<1>5. QED
  BY <1>1, <1>2, <1>3, <1>4

LEMMA BatchFields ==
  ASSUME NEW preferred, NEW other, NEW states, NEW performance, NEW batch,
         batch = Generated(preferred, other, states, performance)
  PROVE  /\ DOMAIN batch = 1 .. 5
         /\ \A i \in 1 .. 4 :
              batch[i] = Candidate(Templates[i], preferred, other, states, performance)
         /\ batch[5] = Baseline
<1> DEFINE first == [i \in DOMAIN Templates |->
                       Candidate(Templates[i], preferred, other, states, performance)]
<1>1. first = [i \in 1 .. 4 |->
                 Candidate(Templates[i], preferred, other, states, performance)]
  BY FourTemplates
<1>2. \A i \in 1 .. 4 :
        first[i] = Candidate(Templates[i], preferred, other, states, performance)
  BY <1>1
<1>3. PICK U : \A i \in 1 .. 4 : first[i] \in U
  <2>1. \A i \in 1 .. 4 : first[i] \in {first[j] : j \in 1 .. 4}
    OBVIOUS
  <2>2. QED
    BY <2>1
<1>4. first \in Seq(U) /\ Len(first) = 4
  <2>1. first \in [1 .. 4 -> U]
    BY <1>1, <1>3
  <2>2. QED
    BY <2>1
<1>5. batch = Append(first, Baseline)
  BY DEF Generated
<1> HIDE DEF first
<1>6. DOMAIN batch = 1 .. 5 /\ batch[5] = Baseline /\ \A i \in 1 .. 4 : batch[i] = first[i]
  <2>1. PICK V : Baseline \in V /\ \A u \in U : u \in V
    <3>1. Baseline \in U \cup {Baseline} /\ \A u \in U : u \in U \cup {Baseline}
      OBVIOUS
    <3>2. QED
      BY <3>1
  <2>2. first \in Seq(V)
    BY <1>4, <2>1
  <2>3. PICK f \in Seq(V), last \in V : f = first /\ last = Baseline
    BY <2>1, <2>2
  <2>4. Len(f) = 4 /\ batch = Append(f, last)
    BY <1>4, <1>5, <2>3
  <2>5. PICK more \in Seq(V) : more = Append(f, last)
    <3>1. Append(f, last) \in Seq(V)
      OBVIOUS
    <3>2. QED
      BY <3>1
  <2>6. PICK n \in Nat : n = Len(f)
    OBVIOUS
  <2>7. /\ DOMAIN more = 1 .. n + 1 /\ more[n + 1] = last
        /\ \A i \in 1 .. n : more[i] = f[i]
    BY <2>5, <2>6
  <2>8. QED
    BY <2>3, <2>4, <2>5, <2>6, <2>7
<1>7. QED
  BY <1>2, <1>6

LEMMA CandidateFields ==
  ASSUME NEW i \in 1 .. 4, NEW preferred, NEW other, NEW states, NEW performance, NEW c,
         c = Candidate(Templates[i], preferred, other, states, performance)
  PROVE  /\ c.id = i /\ c.type = Templates[i].type
         /\ c.target = IF Templates[i].role = "PREFERRED" THEN preferred ELSE other
         /\ c.value = Commanded(Templates[i], states[c.target], performance[c.target])
         /\ c.cost = Templates[i].cost /\ c.delay = Templates[i].delay
         /\ c.path = Templates[i].path
<1> DEFINE target == IF Templates[i].role = "PREFERRED" THEN preferred ELSE other
           value == Commanded(Templates[i], states[target], performance[target])
<1>1. c = [id |-> Templates[i].id, target |-> target, type |-> Templates[i].type,
           value |-> value, cost |-> Templates[i].cost, delay |-> Templates[i].delay,
           path |-> Templates[i].path]
  BY DEF Candidate
<1>2. Templates[i].id = i
  BY TemplateFields
<1> HIDE DEF value
<1>3. c.target = target /\ c.value = value
  BY <1>1
<1>4. QED
  BY <1>1, <1>2, <1>3 DEF value

-----------------------------------------------------------------------------
(* What is commanded. *)
LEMMA EnvelopeFields ==
  ASSUME NEW a \in Aircraft
  PROVE  /\ Performance[a].minSpeed \in Nat /\ Performance[a].maxSpeed \in Nat \ {0}
         /\ Performance[a].climbRate \in Nat \ {0} /\ Performance[a].descentRate \in Nat \ {0}
         /\ Performance[a].turnRate \in Nat \ {0} /\ Performance[a].ceiling \in Nat \ {0}
<1>1. EnvelopeAccepted(Performance[a])
  BY FlightAssumption
<1>2. /\ {Performance[a].maxSpeed, Performance[a].climbRate, Performance[a].descentRate,
          Performance[a].turnRate, Performance[a].ceiling} \subseteq Nat \ {0}
      /\ Performance[a].minSpeed \in 0 .. Performance[a].maxSpeed
  BY <1>1 DEF EnvelopeAccepted
<1>3. QED
  BY <1>2

LEMMA ProfileNumbers ==
  /\ HeadingChange \in Nat \ {0} /\ AltitudeChange \in Nat \ {0} /\ SpeedChange \in Nat \ {0}
  /\ ExecutionTime \in Nat \ {0} /\ MaxSpeedChange \in Nat \ {0}
  /\ ValidationHorizon \in Nat \ {0} /\ MinimumAltitude \in Nat
  /\ MaxRecommendations \in Nat \ {0} /\ AssignmentStep \in Nat \ {0}
<1>1. /\ {HeadingChange, AltitudeChange, SpeedChange} \subseteq Nat \ {0}
      /\ {ExecutionTime, MaxSpeedChange, ValidationHorizon} \subseteq Nat \ {0}
      /\ MinimumAltitude \in Nat /\ MaxRecommendations \in Nat \ {0}
      /\ AssignmentStep \in Nat \ {0}
  BY CandidateAssumption DEF GenerationProfileAccepted, ValidationProfileAccepted,
     RankingProfileAccepted
<1>2. QED
  BY <1>1

LEMMA RoundingDown ==
  ASSUME NEW v \in Int
  PROVE  /\ RoundedDown(v) \in Int
         /\ RoundedDown(v) % AssignmentStep = 0
         /\ (RoundedDown(v) + AssignmentStep) % AssignmentStep = 0
         /\ RoundedDown(v) <= v /\ v < RoundedDown(v) + AssignmentStep
         /\ v >= 0 => RoundedDown(v) >= 0
         /\ v % AssignmentStep = 0 => RoundedDown(v) = v
<1> DEFINE S == AssignmentStep
<1>1. S \in Nat \ {0}
  BY ProfileNumbers
<1> HIDE DEF S
<1>2. PICK q \in Int : q = v \div S
  BY <1>1
<1>3. v = q * S + (v % S) /\ v % S \in 0 .. S - 1
  BY <1>1, <1>2
<1>4. RoundedDown(v) = q * S
  BY <1>2 DEF RoundedDown, S
<1>5. q * S \in Int /\ q * S + S = (q + 1) * S
  BY <1>1
<1>6. \A k \in Int : (k * S) % S = 0
  BY <1>1
<1>7. v >= 0 => q * S >= 0
  <2>1. SUFFICES ASSUME v >= 0 PROVE q * S >= 0
    OBVIOUS
  <2>2. q >= 0
    BY <1>1, <1>2, <2>1
  <2>3. QED
    BY <1>1, <2>2, ProductIsNatural
<1>8. RoundedDown(v) \in Int /\ RoundedDown(v) <= v /\ v < RoundedDown(v) + S
  BY <1>1, <1>3, <1>4, <1>5
<1>9. v % S = 0 => RoundedDown(v) = v
  BY <1>3, <1>4, <1>5
<1>10. RoundedDown(v) % S = 0
  BY <1>4, <1>6
<1>11. (RoundedDown(v) + S) % S = 0
  <2>1. q + 1 \in Int /\ RoundedDown(v) + S = (q + 1) * S
    BY <1>4, <1>5
  <2>2. QED
    BY <1>6, <2>1
<1>12. v >= 0 => RoundedDown(v) >= 0
  BY <1>4, <1>7
<1>13. QED
  BY <1>8, <1>9, <1>10, <1>11, <1>12 DEF S

LEMMA AssignableIsOrderable ==
  ASSUME NEW v \in Int, NEW climbing \in BOOLEAN, NEW ceiling \in Nat \ {0},
         NEW w, w = AssignableAltitude(v, climbing, ceiling)
  PROVE  /\ w \in Int /\ w % AssignmentStep = 0 /\ w <= ceiling
         /\ climbing => w >= v \/ w + AssignmentStep > ceiling
         /\ ~climbing => w <= v
         /\ ~climbing /\ v = 0 => w = 0
         /\ v >= 0 => w >= 0
<1>1. AssignmentStep \in Nat \ {0}
  BY ProfileNumbers
<1> DEFINE snapped == IF climbing /\ v % AssignmentStep # 0
                      THEN RoundedDown(v) + AssignmentStep
                      ELSE RoundedDown(v)
<1>2. w = IF snapped > ceiling THEN RoundedDown(ceiling) ELSE snapped
  BY DEF AssignableAltitude
<1>3. /\ snapped \in Int /\ snapped % AssignmentStep = 0
      /\ climbing => snapped >= v
      /\ ~climbing => snapped <= v
      /\ ~climbing /\ v = 0 => snapped = 0
      /\ v >= 0 => snapped >= 0
  <2>1. CASE climbing /\ v % AssignmentStep # 0
    <3>1. snapped = RoundedDown(v) + AssignmentStep
      BY <2>1
    <3> HIDE DEF snapped
    <3>2. (RoundedDown(v) + AssignmentStep) % AssignmentStep = 0
      BY RoundingDown
    <3>3. snapped % AssignmentStep = 0
      BY <3>1, <3>2
    <3>4. /\ RoundedDown(v) \in Int /\ v < RoundedDown(v) + AssignmentStep
          /\ v >= 0 => RoundedDown(v) >= 0
      BY RoundingDown
    <3>5. /\ snapped \in Int /\ snapped >= v
          /\ v >= 0 => snapped >= 0
      BY <1>1, <3>1, <3>4
    <3>6. QED
      BY <2>1, <3>3, <3>5
  <2>2. CASE ~(climbing /\ v % AssignmentStep # 0)
    <3>1. snapped = RoundedDown(v)
      BY <2>2
    <3> HIDE DEF snapped
    <3>2. v = 0 => RoundedDown(v) = 0
      BY <1>1, RoundingDown
    <3>3. climbing => RoundedDown(v) = v
      BY <2>2, RoundingDown
    <3>4. RoundedDown(v) \in Int /\ RoundedDown(v) <= v /\ (v >= 0 => RoundedDown(v) >= 0)
          /\ RoundedDown(v) % AssignmentStep = 0
      BY RoundingDown
    <3>5. climbing => RoundedDown(v) >= v
      BY <3>3, <3>4
    <3>6. QED
      BY <3>1, <3>2, <3>4, <3>5
  <2>3. QED
    BY <2>1, <2>2
<1> HIDE DEF snapped
<1>4. /\ RoundedDown(ceiling) \in Int /\ RoundedDown(ceiling) % AssignmentStep = 0
      /\ RoundedDown(ceiling) <= ceiling /\ ceiling < RoundedDown(ceiling) + AssignmentStep
      /\ RoundedDown(ceiling) >= 0
  BY RoundingDown
<1>5. CASE snapped > ceiling
  <2>1. w = RoundedDown(ceiling)
    BY <1>2, <1>5
  <2>2. ~climbing => w <= v
    BY <1>3, <1>4, <1>5, <2>1
  <2>3. ~climbing /\ v = 0 => w = 0
    BY <1>3, <1>5
  <2>4. QED
    BY <1>1, <1>4, <2>1, <2>2, <2>3
<1>6. CASE snapped <= ceiling
  <2>1. w = snapped
    BY <1>2, <1>3, <1>6
  <2>2. QED
    BY <1>3, <1>6, <2>1
<1>7. QED
  BY <1>3, <1>5, <1>6

(* A manoeuvre that a state takes. *)
Flyable(c) ==
  \/ c.type = "HEADING" /\ c.value \in 1 .. Points
  \/ c.type = "ALTITUDE" /\ c.value \in Int
  \/ c.type = "SPEED" /\ c.value \in Nat

LEMMA NewHeading ==
  ASSUME NEW h \in Int
  PROVE  Normalized(h) \in 1 .. Points
<1>1. (h - 1) % 12 \in 0 .. 11
  OBVIOUS
<1>2. QED
  BY <1>1, TwelvePoints DEF Normalized

LEMMA CommandedIsFlyable ==
  ASSUME NEW i \in 1 .. 4, NEW s \in States, NEW a \in Aircraft, NEW value,
         value = Commanded(Templates[i], s, Performance[a])
  PROVE  /\ Templates[i].type = "HEADING" => value \in 1 .. Points
         /\ Templates[i].type = "ALTITUDE" => value \in Int
         /\ Templates[i].type = "SPEED" => value \in Nat /\ value >= Performance[a].minSpeed
<1>1. /\ s.heading \in 1 .. Points /\ s.alt \in Int /\ s.speed \in Nat
  BY DEF States
<1>2. /\ HeadingChange \in Nat /\ AltitudeChange \in Nat /\ SpeedChange \in Nat
      /\ Performance[a].ceiling \in Nat \ {0} /\ Performance[a].minSpeed \in Nat
  BY ProfileNumbers, EnvelopeFields
<1>3. Points = 12
  BY TwelvePoints
<1>4. CASE Templates[i].type = "HEADING"
  <2>1. value = Normalized(s.heading + HeadingChange)
    BY <1>4 DEF Commanded
  <2>2. s.heading + HeadingChange \in Int
    BY <1>1, <1>2, <1>3
  <2>3. QED
    BY <1>4, <2>1, <2>2, NewHeading
<1>5. CASE Templates[i].type = "ALTITUDE"
  <2>1. CASE Templates[i].role = "PREFERRED"
    <3>1. value = AssignableAltitude(Low(s.alt + AltitudeChange, Performance[a].ceiling), TRUE,
                                     Performance[a].ceiling)
      BY <1>5, <2>1 DEF Commanded
    <3>2. Low(s.alt + AltitudeChange, Performance[a].ceiling) \in Int
      BY <1>1, <1>2 DEF Low
    <3>3. value \in Int
      BY <1>2, <3>1, <3>2, AssignableIsOrderable
    <3>4. QED
      BY <1>5, <3>3
  <2>2. CASE Templates[i].role = "OTHER"
    <3>1. value = AssignableAltitude(High(0, s.alt - AltitudeChange), FALSE,
                                     Performance[a].ceiling)
      BY <1>5, <2>2 DEF Commanded
    <3>2. High(0, s.alt - AltitudeChange) \in Int
      BY <1>1, <1>2 DEF High
    <3>3. value \in Int
      BY <1>2, <3>1, <3>2, AssignableIsOrderable
    <3>4. QED
      BY <1>5, <3>3
  <2>3. QED
    BY <1>5, <2>1, <2>2, TemplateFields
<1>6. CASE Templates[i].type = "SPEED"
  <2>1. value = High(Performance[a].minSpeed, s.speed - SpeedChange)
    BY <1>6 DEF Commanded
  <2>2. QED
    BY <1>1, <1>2, <1>6, <2>1 DEF High
<1>7. QED
  BY <1>4, <1>5, <1>6

LEMMA AppliedIsFlown ==
  ASSUME NEW s \in States, NEW c, Flyable(c)
  PROVE  AppliedTo(s, c) \in States /\ AppliedTo(s, c).at = s.at
<1>1. CASE c.type = "HEADING" /\ c.value \in 1 .. Points
  <2>1. AppliedTo(s, c) = [s EXCEPT !.heading = c.value]
    BY <1>1 DEF AppliedTo
  <2>2. QED
    BY <1>1, <2>1 DEF States
<1>2. CASE c.type = "ALTITUDE" /\ c.value \in Int
  <2>1. PICK value \in Int : value = c.value
    BY <1>2
  <2>6. PICK level \in Int : level = 0
    OBVIOUS
  <2>2. AppliedTo(s, c) = [[s EXCEPT !.alt = value] EXCEPT !.climb = level]
    BY <1>2, <2>1, <2>6 DEF AppliedTo
  <2>7. PICK r \in States : r = [s EXCEPT !.alt = value] /\ r.at = s.at
    <3>1. [s EXCEPT !.alt = value] \in States /\ [s EXCEPT !.alt = value].at = s.at
      BY DEF States
    <3>2. QED
      BY <3>1
  <2>3. [r EXCEPT !.climb = level] \in States
    BY DEF States
  <2>4. [r EXCEPT !.climb = level].at = s.at
    BY <2>7 DEF States
  <2>5. QED
    BY <2>2, <2>3, <2>4, <2>7
<1>3. CASE c.type = "SPEED" /\ c.value \in Nat
  <2>1. PICK value \in Nat : value = c.value
    BY <1>3
  <2>2. AppliedTo(s, c) = [s EXCEPT !.speed = value]
    BY <1>3, <2>1 DEF AppliedTo
  <2>3. [s EXCEPT !.speed = value] \in States /\ [s EXCEPT !.speed = value].at = s.at
    BY DEF States
  <2>4. QED
    BY <2>2, <2>3
<1>4. QED
  BY <1>1, <1>2, <1>3 DEF Flyable

-----------------------------------------------------------------------------
(* What was computed for the pair to be solved. *)
ComputedBy(r, preferred, other) ==
  /\ preferred # other /\ r.pair = {preferred, other} /\ r.pair \subseteq DOMAIN r.states
  /\ r.batch = Generated(preferred, other, r.states, Performance)
  /\ r.results = [id \in {r.batch[i].id : i \in DOMAIN r.batch} |->
                    Validated(CHOOSE c \in ToSet(r.batch) : c.id = id, r.pair, r.states,
                              Performance)]
  /\ r.recommended = Recommended(r.batch, r.results)

Computed(r) ==
  /\ r.at \in Nat /\ Traffic(r.states, r.at)
  /\ \E preferred, other \in r.pair : ComputedBy(r, preferred, other)

Isolated(states, c) == [states EXCEPT ![c.target] = AppliedTo(@, c)]

LEMMA PairOfReview ==
  ASSUME NEW r, Computed(r)
  PROVE  /\ r.pair \in PairsOf(r.states)
         /\ \A a \in r.pair : a \in Aircraft /\ a # NoAircraft /\ r.states[a] \in States
<1>1. PICK preferred \in r.pair, other \in r.pair : ComputedBy(r, preferred, other)
  BY DEF Computed
<1>2. Cardinality(r.pair) = 2
  <2>1. preferred # other /\ r.pair = {preferred, other}
    BY <1>1 DEF ComputedBy
  <2>2. Cardinality({preferred, other}) = 2
    BY <2>1, PairHasTwo
  <2>3. QED
    BY <2>1, <2>2
<1>3. r.pair \in PairsOf(r.states)
  BY <1>1, <1>2 DEF ComputedBy, PairsOf
<1>4. NoAircraft \notin Aircraft
  BY FlightAssumption
<1>5. QED
  BY <1>1, <1>3, <1>4 DEF ComputedBy, Computed, Traffic

LEMMA BatchOfReview ==
  ASSUME NEW r, Computed(r)
  PROVE  /\ DOMAIN r.batch = 1 .. 5
         /\ \A i \in 1 .. 5 : r.batch[i].id = i
         /\ r.batch[5] = Baseline
         /\ \A i \in 1 .. 4 : /\ Flyable(r.batch[i])
                              /\ r.batch[i].type = Templates[i].type
                              /\ r.batch[i].type # "NO_ACTION"
                              /\ r.batch[i].target \in r.pair
                              /\ r.batch[i].value =
                                   Commanded(Templates[i], r.states[r.batch[i].target],
                                             Performance[r.batch[i].target])
                              /\ r.batch[i].cost = Templates[i].cost
                              /\ r.batch[i].delay = Templates[i].delay
                              /\ r.batch[i].path = Templates[i].path
<1>1. PICK preferred \in r.pair, other \in r.pair : ComputedBy(r, preferred, other)
  BY DEF Computed
<1>2. /\ DOMAIN r.batch = 1 .. 5
      /\ \A i \in 1 .. 4 :
           r.batch[i] = Candidate(Templates[i], preferred, other, r.states, Performance)
      /\ r.batch[5] = Baseline
  BY <1>1, BatchFields DEF ComputedBy
<1>3. Baseline.id = 5
  BY DEF Baseline, BaselineId
<1>4. ASSUME NEW i \in 1 .. 4
      PROVE  /\ r.batch[i].id = i /\ r.batch[i].type = Templates[i].type
             /\ r.batch[i].target \in r.pair
             /\ r.batch[i].value =
                  Commanded(Templates[i], r.states[r.batch[i].target],
                            Performance[r.batch[i].target])
             /\ r.batch[i].cost = Templates[i].cost
             /\ r.batch[i].delay = Templates[i].delay
             /\ r.batch[i].path = Templates[i].path
  BY <1>2, CandidateFields
<1>5. ASSUME NEW i \in 1 .. 4
      PROVE  Flyable(r.batch[i]) /\ r.batch[i].type # "NO_ACTION"
  <2>1. PICK a \in Aircraft, s \in States : a = r.batch[i].target /\ s = r.states[a]
    BY <1>4, PairOfReview
  <2>2. r.batch[i].value = Commanded(Templates[i], s, Performance[a])
    BY <1>4, <2>1
  <2>3. r.batch[i].type = Templates[i].type
    BY <1>4
  <2>4. Templates[i].type \in {"ALTITUDE", "HEADING", "SPEED"}
    BY TemplateFields
  <2>5. QED
    BY <2>2, <2>3, <2>4, CommandedIsFlyable DEF Flyable
<1>6. \A i \in 1 .. 5 : i \in 1 .. 4 \/ i = 5
  OBVIOUS
<1>7. \A i \in 1 .. 5 : r.batch[i].id = i
  BY <1>2, <1>3, <1>4, <1>6
<1>8. QED
  BY <1>2, <1>4, <1>5, <1>7

LEMMA ResultsOfReview ==
  ASSUME NEW r, Computed(r)
  PROVE  /\ DOMAIN r.results = 1 .. 5
         /\ \A i \in 1 .. 5 :
              r.results[i] = Validated(r.batch[i], r.pair, r.states, Performance)
<1>1. PICK preferred \in r.pair, other \in r.pair : ComputedBy(r, preferred, other)
  BY DEF Computed
<1>2. r.results = [id \in {r.batch[i].id : i \in DOMAIN r.batch} |->
                    Validated(CHOOSE c \in ToSet(r.batch) : c.id = id, r.pair, r.states,
                              Performance)]
  BY <1>1 DEF ComputedBy
<1>3. DOMAIN r.batch = 1 .. 5 /\ \A i \in 1 .. 5 : r.batch[i].id = i
  BY BatchOfReview
<1>4. {r.batch[i].id : i \in DOMAIN r.batch} = 1 .. 5
  BY <1>3
<1>5. ASSUME NEW i \in 1 .. 5
      PROVE  (CHOOSE c \in ToSet(r.batch) : c.id = i) = r.batch[i]
  <2>1. ToSet(r.batch) = {r.batch[j] : j \in 1 .. 5}
    BY <1>3 DEF ToSet
  <2>2. r.batch[i] \in ToSet(r.batch) /\ r.batch[i].id = i
    BY <1>3, <2>1
  <2>3. \A c \in ToSet(r.batch) : c.id = i => c = r.batch[i]
    BY <1>3, <2>1
  <2>4. QED
    BY <2>2, <2>3
<1>6. QED
  BY <1>2, <1>4, <1>5

(* What a SAFE verdict says. *)
LEMMA SafeVerdict ==
  ASSUME NEW c, NEW pair, NEW states, NEW t, Traffic(states, t), pair \in PairsOf(states),
         c.target \in pair, c.target # NoAircraft, Flyable(c),
         Validated(c, pair, states, Performance).verdict = "SAFE"
  PROVE  /\ Traffic(Isolated(states, c), t)
         /\ DOMAIN Isolated(states, c) = DOMAIN states
         /\ AllSafe(Isolated(states, c), ValidationHorizon)
         /\ PerformanceFeasible(c, states[c.target], Performance[c.target])
         /\ ~MinimumAltitudeViolated(c, states[c.target])
<1> DEFINE isolated == Isolated(states, c)
           events == Assessed(isolated, ValidationHorizon)
           secondary == {p \in DOMAIN events \ {pair} : events[p].status = "PREDICTED"}
           feasible == \/ c.target = NoAircraft
                       \/ PerformanceFeasible(c, states[c.target], Performance[c.target])
           violated == c.target # NoAircraft /\ MinimumAltitudeViolated(c, states[c.target])
           verdict == Verdict(c, events[pair].status, secondary, feasible, violated)
<1>1. verdict = "SAFE"
  <2>1. Validated(c, pair, states, Performance) =
          [id |-> c.id, primary |-> events[pair].status, secondary |-> secondary,
           feasible |-> feasible, violated |-> violated,
           reasons |-> Reasons(c, events[pair].status, secondary, feasible, violated),
           verdict |-> verdict]
    BY DEF Validated, Isolated
  <2> HIDE DEF verdict, events, secondary, feasible, violated
  <2>2. QED
    BY <2>1
<1>2. secondary = {} /\ feasible /\ ~violated /\ events[pair].status = "SAFE"
  <2> HIDE DEF events, secondary, feasible, violated
  <2>1. QED
    BY <1>1 DEF Verdict
<1>3. c.target \in DOMAIN states
  BY DEF PairsOf
<1>4. states[c.target] \in States /\ states[c.target].at = t
  BY <1>3 DEF Traffic
<1>5. AppliedTo(states[c.target], c) \in States /\ AppliedTo(states[c.target], c).at = t
  BY <1>4, AppliedIsFlown
<1>6. /\ DOMAIN isolated = DOMAIN states
      /\ \A a \in DOMAIN states : isolated[a] = IF a = c.target
                                                THEN AppliedTo(states[a], c) ELSE states[a]
  BY DEF Isolated
<1>7. Traffic(isolated, t)
  BY <1>5, <1>6 DEF Traffic
<1>8. PairsOf(isolated) = PairsOf(states)
  BY <1>6 DEF PairsOf
<1>9. /\ DOMAIN events = PairsOf(isolated)
      /\ \A p \in PairsOf(isolated) : events[p] = EventOf(isolated, p, ValidationHorizon)
  <2> HIDE DEF isolated
  <2>1. QED
    BY DEF Assessed
<1>10. AllSafe(isolated, ValidationHorizon)
  <2>1. ASSUME NEW p \in PairsOf(isolated)
        PROVE  EventOf(isolated, p, ValidationHorizon).status = "SAFE"
    <3>1. EventOf(isolated, p, ValidationHorizon).status \in {"SAFE", "PREDICTED"}
      <4> HIDE DEF isolated
      <4>1. QED
        BY <1>7, ProfileNumbers, EventsAreSafeOrPredicted
    <3>2. CASE p = pair
      BY <1>2, <1>9, <3>2
    <3>3. CASE p # pair
      <4> HIDE DEF isolated, events
      <4>1. events[p].status # "PREDICTED"
        BY <1>2, <1>9, <3>3
      <4>2. QED
        BY <1>9, <3>1, <4>1
    <3>4. QED
      BY <3>2, <3>3
  <2> HIDE DEF isolated
  <2>2. QED
    BY <2>1 DEF AllSafe
<1>11. QED
  BY <1>2, <1>6, <1>7, <1>10

LEMMA RecommendedIsSafe ==
  ASSUME NEW r, Computed(r), NEW c \in r.recommended
  PROVE  /\ \E i \in 1 .. 4 : c = r.batch[i]
         /\ Flyable(c) /\ c.target \in r.pair
         /\ r.results[c.id].verdict = "SAFE" /\ c.type # "NO_ACTION"
         /\ Traffic(Isolated(r.states, c), r.at)
         /\ DOMAIN Isolated(r.states, c) = DOMAIN r.states
         /\ AllSafe(Isolated(r.states, c), ValidationHorizon)
         /\ PerformanceFeasible(c, r.states[c.target], Performance[c.target])
         /\ ~MinimumAltitudeViolated(c, r.states[c.target])
<1>1. PICK preferred \in r.pair, other \in r.pair : ComputedBy(r, preferred, other)
  BY DEF Computed
<1>2. /\ c \in ToSet(r.batch) /\ c.type # "NO_ACTION" /\ r.results[c.id].verdict = "SAFE"
  BY <1>1 DEF ComputedBy, Recommended
<1>3. PICK i \in 1 .. 5 : c = r.batch[i]
  BY <1>2, BatchOfReview DEF ToSet
<1>4. i # 5
  BY <1>2, <1>3, BatchOfReview DEF Baseline
<1>5. i \in 1 .. 4 /\ c.id = i
  BY <1>3, <1>4, BatchOfReview
<1>6. Flyable(c) /\ c.target \in r.pair /\ c.target # NoAircraft
  BY <1>3, <1>5, BatchOfReview, PairOfReview
<1>7. Validated(c, r.pair, r.states, Performance).verdict = "SAFE"
  BY <1>2, <1>3, <1>5, ResultsOfReview
<1>8. Traffic(r.states, r.at) /\ r.pair \in PairsOf(r.states)
  BY PairOfReview DEF Computed
<1>9. /\ Traffic(Isolated(r.states, c), r.at)
      /\ DOMAIN Isolated(r.states, c) = DOMAIN r.states
      /\ AllSafe(Isolated(r.states, c), ValidationHorizon)
      /\ PerformanceFeasible(c, r.states[c.target], Performance[c.target])
      /\ ~MinimumAltitudeViolated(c, r.states[c.target])
  BY <1>6, <1>7, <1>8, SafeVerdict
<1>10. QED
  BY <1>2, <1>3, <1>5, <1>6, <1>9

-----------------------------------------------------------------------------
(* Recorded and approved anchors. *)
LEMMA SameSequence ==
  ASSUME NEW S, NEW s \in Seq(S), NEW u \in Seq(S), Len(s) = Len(u),
         \A i \in 1 .. Len(s) : s[i] = u[i]
  PROVE  s = u
  OBVIOUS

LEMMA ConcatParts ==
  ASSUME NEW S, NEW s \in Seq(S), NEW u \in Seq(S)
  PROVE  /\ s \o u \in Seq(S) /\ Len(s \o u) = Len(s) + Len(u)
         /\ \A i \in 1 .. Len(s) : (s \o u)[i] = s[i]
         /\ \A i \in Len(s) + 1 .. Len(s) + Len(u) : (s \o u)[i] = u[i - Len(s)]
  OBVIOUS

LEMMA AppendParts ==
  ASSUME NEW S, NEW s \in Seq(S), NEW e \in S
  PROVE  /\ Append(s, e) \in Seq(S) /\ Len(Append(s, e)) = Len(s) + 1
         /\ \A i \in 1 .. Len(s) : Append(s, e)[i] = s[i]
         /\ Append(s, e)[Len(s) + 1] = e
  OBVIOUS

LEMMA ConcatAppend ==
  ASSUME NEW S, NEW s \in Seq(S), NEW u \in Seq(S), NEW e \in S
  PROVE  s \o Append(u, e) = Append(s \o u, e)
<1>1. PICK more \in Seq(S) : more = Append(u, e)
  BY AppendParts
<1>2. PICK both \in Seq(S) : both = s \o u
  BY ConcatParts
<1>3. PICK m \in Nat, n \in Nat : m = Len(s) /\ n = Len(u)
  OBVIOUS
<1>4. Len(more) = n + 1 /\ more[n + 1] = e /\ \A i \in 1 .. n : more[i] = u[i]
  BY <1>1, <1>3, AppendParts
<1>5. /\ Len(both) = m + n
      /\ \A i \in 1 .. m : both[i] = s[i]
      /\ \A i \in m + 1 .. m + n : both[i] = u[i - m]
  BY <1>2, <1>3, ConcatParts
<1>6. PICK p \in Seq(S) : p = s \o more
  BY ConcatParts
<1>7. /\ Len(p) = m + (n + 1)
      /\ \A i \in 1 .. m : p[i] = s[i]
      /\ \A i \in m + 1 .. m + (n + 1) : p[i] = more[i - m]
  <2>1. /\ Len(p) = Len(s) + Len(more)
        /\ \A i \in 1 .. Len(s) : p[i] = s[i]
        /\ \A i \in Len(s) + 1 .. Len(s) + Len(more) : p[i] = more[i - Len(s)]
    BY <1>6, ConcatParts
  <2>2. QED
    BY <1>3, <1>4, <2>1
<1>8. PICK q \in Seq(S) : q = Append(both, e)
  BY AppendParts
<1>9. /\ Len(q) = (m + n) + 1 /\ q[m + n + 1] = e
      /\ \A i \in 1 .. m + n : q[i] = both[i]
  BY <1>5, <1>8, AppendParts
<1>10. ASSUME NEW i \in 1 .. m + n + 1 PROVE p[i] = q[i]
  <2>1. CASE i \in 1 .. m
    <3>1. p[i] = s[i]
      BY <1>7, <2>1
    <3>2. q[i] = both[i] /\ both[i] = s[i]
      BY <1>5, <1>9, <2>1
    <3>3. QED
      BY <3>1, <3>2
  <2>2. CASE i \in m + 1 .. m + n
    <3>1. p[i] = more[i - m] /\ i - m \in 1 .. n
      BY <1>7, <2>2
    <3>2. q[i] = both[i] /\ both[i] = u[i - m]
      BY <1>5, <1>9, <2>2
    <3>3. QED
      BY <1>4, <3>1, <3>2
  <2>3. CASE i = m + n + 1
    <3>1. p[i] = more[i - m] /\ i - m = n + 1
      BY <1>7, <2>3
    <3>2. QED
      BY <1>4, <1>9, <2>3, <3>1
  <2>4. QED
    BY <2>1, <2>2, <2>3
<1>11. Len(p) = Len(q) /\ Len(p) = m + n + 1
  BY <1>7, <1>9
<1>12. p = q
  BY <1>10, <1>11, SameSequence
<1>13. QED
  BY <1>1, <1>2, <1>6, <1>8, <1>12

LEMMA BothAreAnchors ==
  ASSUME NEW recorded \in Seq(States), recorded # <<>>, NEW approved \in Seq(States),
         NEW anchors, anchors = recorded \o approved
  PROVE  anchors \in Seq(States) /\ 1 \in DOMAIN anchors /\ anchors[1] = recorded[1]
<1>1. anchors \in Seq(States)
  BY ConcatParts
<1>2. PICK m \in Nat, n \in Nat : m = Len(recorded) /\ n = Len(approved)
  OBVIOUS
<1>3. Len(anchors) = m + n /\ \A i \in 1 .. m : anchors[i] = recorded[i]
  BY <1>2, ConcatParts
<1>4. DOMAIN anchors = 1 .. m + n /\ m > 0
  BY <1>1, <1>2, <1>3
<1>5. QED
  BY <1>1, <1>3, <1>4

-----------------------------------------------------------------------------
(***************************************************************************)
(* The inductive invariant.  What is derived from the motion of an         *)
(* aircraft at some time of the run is described by the anchors of now,    *)
(* for as long as no anchor of that time or of a later one was approved.   *)
(***************************************************************************)
FlightTypeOK ==
  /\ scenario \in Scenarios
  /\ clockState \in {"READY", "RUNNING", "PAUSED"}
  /\ tick \in Nat
  /\ stale \in {{}, Holders}
  /\ applied \in [Aircraft -> Seq(States)]
  /\ nextIndex \in 1 .. Len(Events) + 1
  /\ lastSlot \in [{"prediction", "conflict"} -> Int]

Started(a, t) == scenario[a][1].at <= t
ApprovedBefore(a, t) == \A i \in DOMAIN applied[a] : applied[a][i].at < t
FlownAt(a, t) == CurrentState(Anchors(a, applied[a]), t)

NothingYet ==
  stale = {} /\ step = None =>
    /\ nextIndex = 1 /\ predictionRun = None /\ conflictRun = None /\ review = None
    /\ flown = None

TimelineInOrder ==
  /\ delivered = 1 .. FirstPending - 1
  /\ stale = {} /\ step # None =>
       \A i \in DOMAIN Events : i < nextIndex <=> Events[i].at <= step.at

StepInOrder ==
  step # None =>
    /\ step.at \in Nat /\ Traffic(step.states, step.at)
    /\ step.priorities = Priorities(step.states)
    /\ stale = {} => step.at <= tick
    /\ stale = {} /\ flown.at < step.at => step.states = Snapshot(applied, step.at)

PredictionInOrder ==
  predictionRun # None =>
    /\ predictionRun.at \in Nat
    /\ stale = {} => predictionRun.at <= step.at
    /\ \A a \in DOMAIN predictionRun.points :
         /\ a \in Aircraft /\ Started(a, predictionRun.at)
         /\ stale = {} /\ ApprovedBefore(a, predictionRun.at) =>
              predictionRun.points[a] =
                Predicted(FlownAt(a, predictionRun.at), predictionRun.at, Horizons)

ConflictsInOrder ==
  conflictRun # None =>
    /\ conflictRun.at \in Nat /\ Traffic(conflictRun.states, conflictRun.at)
    /\ conflictRun.events = Assessed(conflictRun.states, AssessmentHorizon)
    /\ stale = {} => conflictRun.at <= step.at
    /\ \A a \in DOMAIN conflictRun.states :
         /\ Started(a, conflictRun.at)
         /\ stale = {} /\ ApprovedBefore(a, conflictRun.at) =>
              conflictRun.states[a] = FlownAt(a, conflictRun.at)

ReviewInOrder ==
  review # None =>
    /\ Computed(review)
    /\ stale = {} => review.at <= step.at
    /\ stale = {} /\ review.at = step.at => review.states = step.states

ApprovalsInOrder ==
  /\ flown # None => stale = {} /\ step # None /\ flown.at \in Nat /\ flown.at <= step.at
  /\ stale = {} => \A a \in Aircraft : \A i \in DOMAIN applied[a] : applied[a][i].at <= flown.at

ApprovedIsFlown ==
  flown # None /\ flown.validated = flown.at =>
    /\ Traffic(Isolated(flown.states, flown.by), flown.at)
    /\ DOMAIN Isolated(flown.states, flown.by) = DOMAIN flown.states
    /\ AllSafe(Isolated(flown.states, flown.by), ValidationHorizon)
    /\ \A a \in DOMAIN flown.states :
         Started(a, flown.at) /\ Isolated(flown.states, flown.by)[a] = FlownAt(a, flown.at)

FlightInv ==
  /\ FlightTypeOK /\ NothingYet /\ TimelineInOrder /\ StepInOrder /\ PredictionInOrder
  /\ ConflictsInOrder /\ ReviewInOrder /\ ApprovalsInOrder /\ ApprovedIsFlown

-----------------------------------------------------------------------------
(* The clock's own operations. *)
LEMMA NoneIsNone == None.at = -1
  BY DEF None

LEMMA HoldersHold ==
  /\ {} # Holders
  /\ {"timeline", "prediction", "conflict", "step"} \subseteq Holders
  /\ Aircraft \subseteq Holders
  /\ "timeline" \notin Aircraft /\ "prediction" \notin Aircraft
  /\ "conflict" \notin Aircraft /\ "step" \notin Aircraft
  BY FlightAssumption DEF Holders

LEMMA InitInOrder == Init => FlightInv
<1> SUFFICES ASSUME Init PROVE FlightInv
  OBVIOUS
<1>1. /\ scenario \in Scenarios /\ clockState = "READY" /\ tick = 0 /\ stale = {}
      /\ applied = [a \in Aircraft |-> <<>>]
      /\ nextIndex = 1 /\ lastSlot = [s \in {"prediction", "conflict"} |-> -1]
      /\ predictionRun = None /\ conflictRun = None /\ step = None /\ review = None
      /\ delivered = {} /\ flown = None
  BY DEF Init
<1>2. FlightTypeOK
  <2>1. 1 \in 1 .. Len(Events) + 1
    BY FlightAssumption DEF ScenarioAccepted, TimelineAccepted
  <2>2. <<>> \in Seq(States)
    OBVIOUS
  <2>3. applied \in [Aircraft -> Seq(States)]
    BY <1>1, <2>2
  <2>4. lastSlot \in [{"prediction", "conflict"} -> Int]
    BY <1>1
  <2>5. QED
    BY <1>1, <2>1, <2>3, <2>4 DEF FlightTypeOK
<1>3. NothingYet
  BY <1>1 DEF NothingYet
<1>4. TimelineInOrder
  <2>1. FirstPending = 1
    BY <1>1 DEF FirstPending
  <2>2. delivered = 1 .. FirstPending - 1
    BY <1>1, <2>1
  <2>3. QED
    BY <1>1, <2>2 DEF TimelineInOrder
<1>5. StepInOrder /\ PredictionInOrder /\ ConflictsInOrder /\ ReviewInOrder /\ ApprovedIsFlown
  BY <1>1 DEF StepInOrder, PredictionInOrder, ConflictsInOrder, ReviewInOrder, ApprovedIsFlown
<1>6. ApprovalsInOrder
  <2>1. \A a \in Aircraft : DOMAIN applied[a] = {}
    BY <1>1
  <2>2. QED
    BY <1>1, <2>1 DEF ApprovalsInOrder
<1>7. QED
  BY <1>2, <1>3, <1>4, <1>5, <1>6 DEF FlightInv

(* The clock runs, stops or advances: nothing that was derived changes. *)
LEMMA ClockMoves ==
  ASSUME FlightInv, clockState' \in {"READY", "RUNNING", "PAUSED"},
         tick' \in Nat, tick <= tick',
         UNCHANGED <<scenario, stale, applied, nextIndex, lastSlot, predictionRun,
                     conflictRun, step, review, delivered, flown>>
  PROVE  FlightInv'
<1>1. FlightTypeOK'
  BY DEF FlightInv, FlightTypeOK
<1>2. NothingYet'
  BY DEF FlightInv, NothingYet
<1>3. TimelineInOrder'
  BY DEF FlightInv, TimelineInOrder, FirstPending
<1>4. StepInOrder'
  <2>1. SUFFICES ASSUME step # None PROVE StepInOrder'
    BY DEF StepInOrder
  <2>2. /\ step.at \in Nat /\ Traffic(step.states, step.at)
        /\ step.priorities = Priorities(step.states)
        /\ stale = {} => step.at <= tick
        /\ stale = {} /\ flown.at < step.at => step.states = Snapshot(applied, step.at)
    BY <2>1 DEF FlightInv, StepInOrder
  <2>3. stale = {} => step.at <= tick'
    BY <2>2 DEF FlightInv, FlightTypeOK
  <2>4. QED
    BY <2>2, <2>3 DEF StepInOrder, Snapshot, PresentAt, Anchors
<1>5. PredictionInOrder'
  BY DEF FlightInv, PredictionInOrder, Started, ApprovedBefore, FlownAt, Anchors
<1>6. ConflictsInOrder'
  BY DEF FlightInv, ConflictsInOrder, Started, ApprovedBefore, FlownAt, Anchors
<1>7. ReviewInOrder'
  BY DEF FlightInv, ReviewInOrder
<1>8. ApprovalsInOrder'
  BY DEF FlightInv, ApprovalsInOrder
<1>9. ApprovedIsFlown'
  BY DEF FlightInv, ApprovedIsFlown, Started, FlownAt, Anchors
<1>10. QED
  BY <1>1, <1>2, <1>3, <1>4, <1>5, <1>6, <1>7, <1>8, <1>9 DEF FlightInv

LEMMA PlayInOrder ==
  ASSUME FlightInv, Play
  PROVE  FlightInv'
  BY ClockMoves DEF Play, FlightInv, FlightTypeOK

LEMMA PauseInOrder ==
  ASSUME FlightInv, Pause
  PROVE  FlightInv'
  BY ClockMoves DEF Pause, FlightInv, FlightTypeOK

LEMMA TickInOrder ==
  ASSUME FlightInv, NEW k \in StepSizes, Tick(k)
  PROVE  FlightInv'
<1>1. k \in Nat /\ tick \in Nat
  BY FlightAssumption DEF FlightInv, FlightTypeOK
<1>2. tick' \in Nat /\ tick <= tick'
  BY <1>1 DEF Tick
<1>3. clockState' \in {"READY", "RUNNING", "PAUSED"}
  BY DEF Tick, FlightInv, FlightTypeOK
<1>4. QED
  BY <1>2, <1>3, ClockMoves DEF Tick

LEMMA ResetInOrder ==
  ASSUME FlightInv, Reset
  PROVE  FlightInv'
<1>1. /\ clockState' = "READY" /\ tick' = 0 /\ stale' = Holders
      /\ delivered' = {} /\ flown' = None
      /\ scenario' = scenario /\ applied' = applied /\ nextIndex' = nextIndex
      /\ lastSlot' = lastSlot /\ predictionRun' = predictionRun /\ conflictRun' = conflictRun
      /\ step' = step /\ review' = review
  BY DEF Reset
<1>2. stale' # {} /\ "timeline" \in stale'
  BY <1>1, HoldersHold
<1>3. FlightTypeOK'
  BY <1>1 DEF FlightInv, FlightTypeOK
<1>4. NothingYet' /\ ReviewInOrder' /\ ApprovalsInOrder' /\ ApprovedIsFlown'
  BY <1>1, <1>2 DEF FlightInv, NothingYet, ReviewInOrder, ApprovalsInOrder, ApprovedIsFlown
<1>5. TimelineInOrder'
  <2>1. FirstPending' = 1
    BY <1>2 DEF FirstPending
  <2>2. delivered' = 1 .. FirstPending' - 1
    BY <1>1, <2>1
  <2>3. QED
    BY <1>2, <2>2 DEF TimelineInOrder
<1>6. StepInOrder'
  BY <1>1, <1>2 DEF FlightInv, StepInOrder, Priorities
<1>7. PredictionInOrder' /\ ConflictsInOrder'
  BY <1>1, <1>2 DEF FlightInv, PredictionInOrder, ConflictsInOrder, Started
<1>8. QED
  BY <1>3, <1>4, <1>5, <1>6, <1>7 DEF FlightInv

-----------------------------------------------------------------------------
(* Where the aircraft are. *)
LEMMA RecordedAnchors ==
  ASSUME scenario \in Scenarios, NEW a \in Aircraft
  PROVE  /\ scenario[a] \in Seq(States) /\ scenario[a] # <<>>
         /\ scenario[a][1] \in States /\ scenario[a][1].at \in Nat
<1>1. AircraftAccepted(scenario[a], Presence[a])
  BY FlightAssumption DEF ScenarioAccepted
<1>2. scenario[a] \in Seq(States) /\ scenario[a] # <<>>
  BY <1>1 DEF AircraftAccepted
<1>3. scenario[a][1] \in States
  BY <1>2
<1>4. QED
  BY <1>2, <1>3 DEF States

LEMMA FlownFound ==
  ASSUME scenario \in Scenarios, NEW a \in Aircraft, NEW approved \in Seq(States),
         NEW t \in Nat, Started(a, t)
  PROVE  /\ Anchors(a, approved) \in Seq(States)
         /\ \E i \in DOMAIN Anchors(a, approved) : Anchors(a, approved)[i].at <= t
         /\ CurrentState(Anchors(a, approved), t) \in States
         /\ CurrentState(Anchors(a, approved), t).at = t
<1>1. scenario[a] \in Seq(States) /\ scenario[a] # <<>>
  BY RecordedAnchors
<1>2. PICK anchors : anchors = scenario[a] \o approved
  OBVIOUS
<1>3. anchors \in Seq(States) /\ 1 \in DOMAIN anchors /\ anchors[1] = scenario[a][1]
  BY <1>1, <1>2, BothAreAnchors
<1>4. \E i \in DOMAIN anchors : anchors[i].at <= t
  BY <1>3 DEF Started
<1>5. CurrentState(anchors, t) \in States /\ CurrentState(anchors, t).at = t
  BY <1>3, <1>4, CurrentFound
<1>6. QED
  BY <1>2, <1>3, <1>4, <1>5 DEF Anchors

LEMMA SnapshotIsTraffic ==
  ASSUME scenario \in Scenarios, NEW approved \in [Aircraft -> Seq(States)], NEW t \in Nat
  PROVE  /\ Traffic(Snapshot(approved, t), t)
         /\ \A a \in DOMAIN Snapshot(approved, t) :
              /\ a \in Aircraft /\ Started(a, t) /\ PresentAt(a, t)
              /\ Snapshot(approved, t)[a] = CurrentState(Anchors(a, approved[a]), t)
         /\ Snapshot(approved, t) = [a \in DOMAIN Snapshot(approved, t) |->
                                       Snapshot(approved, t)[a]]
<1>1. DOMAIN Snapshot(approved, t) = {c \in Aircraft : PresentAt(c, t)}
  BY DEF Snapshot
<1>2. \A a \in {c \in Aircraft : PresentAt(c, t)} :
        Snapshot(approved, t)[a] = CurrentState(Anchors(a, approved[a]), t)
  BY DEF Snapshot
<1>3. ASSUME NEW a \in {c \in Aircraft : PresentAt(c, t)}
      PROVE  Started(a, t) /\ approved[a] \in Seq(States)
  <2>1. scenario[a][1].at \in Nat
    BY RecordedAnchors
  <2>2. QED
    BY <2>1 DEF PresentAt, Started
<1>4. ASSUME NEW a \in {c \in Aircraft : PresentAt(c, t)}
      PROVE  /\ CurrentState(Anchors(a, approved[a]), t) \in States
             /\ CurrentState(Anchors(a, approved[a]), t).at = t
  BY <1>3, FlownFound
<1>5. Traffic(Snapshot(approved, t), t)
  BY <1>1, <1>2, <1>4 DEF Traffic
<1>6. Snapshot(approved, t) = [a \in {c \in Aircraft : PresentAt(c, t)} |->
                                 CurrentState(Anchors(a, approved[a]), t)]
  BY DEF Snapshot
<1>7. Snapshot(approved, t) = [a \in DOMAIN Snapshot(approved, t) |-> Snapshot(approved, t)[a]]
  BY <1>6
<1>8. QED
  BY <1>1, <1>2, <1>3, <1>5, <1>7

LEMMA ApprovedNow ==
  ASSUME FlightTypeOK
  PROVE  /\ Approved \in [Aircraft -> Seq(States)]
         /\ \A a \in Aircraft : Approved[a] = AppliedStates(a)
         /\ stale = {} => Approved = applied
         /\ stale # {} => \A a \in Aircraft : Approved[a] = <<>>
<1>1. applied \in [Aircraft -> Seq(States)] /\ <<>> \in Seq(States)
  BY DEF FlightTypeOK
<1>2. \A a \in Aircraft : Approved[a] = AppliedStates(a)
  BY DEF Approved
<1>3. Approved \in [Aircraft -> Seq(States)]
  BY <1>1 DEF Approved, AppliedStates
<1>4. ASSUME stale = {} PROVE Approved = applied
  <2>1. \A a \in Aircraft : AppliedStates(a) = applied[a]
    BY <1>4 DEF AppliedStates
  <2>2. Approved = [a \in Aircraft |-> applied[a]]
    BY <2>1 DEF Approved
  <2>3. QED
    BY <1>1, <2>2
<1>5. ASSUME stale # {}, NEW a \in Aircraft PROVE Approved[a] = <<>>
  <2>1. stale = Holders
    BY <1>5 DEF FlightTypeOK
  <2>2. a \in stale
    BY <2>1, HoldersHold
  <2>3. QED
    BY <1>2, <2>2 DEF AppliedStates
<1>6. QED
  BY <1>2, <1>3, <1>4, <1>5

-----------------------------------------------------------------------------
(* The events in the order of their times. *)
LEMMA EventsAreTimed ==
  /\ Events \in Seq(ScenarioEvents) /\ Len(Events) \in Nat /\ DOMAIN Events = 1 .. Len(Events)
  /\ \A i \in DOMAIN Events : Events[i].at \in Nat
<1>1. Events \in Seq(ScenarioEvents)
  BY FlightAssumption DEF ScenarioAccepted, TimelineAccepted
<1>2. \A i \in DOMAIN Events : Events[i] \in ScenarioEvents
  BY <1>1
<1>3. QED
  BY <1>1, <1>2 DEF ScenarioEvents

LEMMA EventsAreSorted ==
  \A i, j \in DOMAIN Events : i <= j => Events[i].at <= Events[j].at
<1> DEFINE S == {n \in Nat : \A i \in DOMAIN Events :
                   i + n \in DOMAIN Events => Events[i].at <= Events[i + n].at}
<1>1. \A i \in 1 .. Len(Events) - 1 : Events[i].at <= Events[i + 1].at
  BY FlightAssumption DEF ScenarioAccepted, TimelineAccepted
<1>2. 0 \in S
  BY EventsAreTimed
<1>3. ASSUME NEW n \in Nat, n \in S PROVE n + 1 \in S
  <2>1. SUFFICES ASSUME NEW i \in DOMAIN Events, i + (n + 1) \in DOMAIN Events
                 PROVE  Events[i].at <= Events[i + (n + 1)].at
    OBVIOUS
  <2>2. i + n \in DOMAIN Events /\ i + n \in 1 .. Len(Events) - 1 /\ (i + n) + 1 = i + (n + 1)
    BY <2>1, EventsAreTimed
  <2>3. Events[i].at <= Events[i + n].at
    BY <1>3, <2>2
  <2>4. Events[i + n].at <= Events[(i + n) + 1].at
    BY <1>1, <2>2
  <2>5. /\ Events[i].at \in Nat /\ Events[i + n].at \in Nat /\ Events[(i + n) + 1].at \in Nat
    BY <2>1, <2>2, EventsAreTimed
  <2>6. QED
    BY <2>2, <2>3, <2>4, <2>5
<1>4. Nat \subseteq S
  <2> HIDE DEF S
  <2>1. QED
    BY <1>2, <1>3, SetInduction
<1>5. SUFFICES ASSUME NEW i \in DOMAIN Events, NEW j \in DOMAIN Events, i <= j
               PROVE  Events[i].at <= Events[j].at
  OBVIOUS
<1>6. j - i \in S /\ i + (j - i) = j
  BY <1>4, <1>5, EventsAreTimed
<1>7. QED
  BY <1>6

(* A poll leaves the pointer at the first event that is not due. *)
LEMMA PollIsDue ==
  ASSUME NEW t \in Nat, FirstPending \in 1 .. Len(Events) + 1,
         \A i \in DOMAIN Events : i < FirstPending => Events[i].at <= t
  PROVE  /\ NowPending(t) \in 1 .. Len(Events) + 1
         /\ FirstPending <= NowPending(t)
         /\ \A i \in DOMAIN Events : i < NowPending(t) <=> Events[i].at <= t
<1> DEFINE later == {i \in FirstPending .. Len(Events) : Events[i].at > t}
<1>1. Len(Events) \in Nat /\ DOMAIN Events = 1 .. Len(Events)
      /\ \A i \in DOMAIN Events : Events[i].at \in Nat
  BY EventsAreTimed
<1>2. CASE later = {}
  <2>1. NowPending(t) = High(FirstPending, Len(Events) + 1)
    BY <1>2 DEF NowPending
  <2>2. NowPending(t) = Len(Events) + 1
    BY <1>1, <2>1 DEF High
  <2>3. \A i \in DOMAIN Events : Events[i].at <= t
    BY <1>1, <1>2
  <2>4. QED
    BY <1>1, <2>2, <2>3
<1>3. CASE later # {}
  <2>1. NowPending(t) = CHOOSE i \in later : \A j \in later : i <= j
    BY <1>3 DEF NowPending
  <2>2. later \subseteq Nat
    BY <1>1
  <2>3. \E i \in later : \A j \in later : i <= j
    <3> HIDE DEF later
    <3>1. QED
      BY <1>3, <2>2, LeastExists
  <2>4. NowPending(t) \in later /\ \A j \in later : NowPending(t) <= j
    <3> HIDE DEF later
    <3>1. QED
      BY <2>1, <2>3
  <2>5. PICK n \in later : n = NowPending(t) /\ \A j \in later : n <= j
    BY <2>4
  <2>6. n \in DOMAIN Events /\ FirstPending <= n /\ Events[n].at > t
    BY <1>1, <2>5
  <2>7. ASSUME NEW i \in DOMAIN Events PROVE i < n <=> Events[i].at <= t
    <3>1. CASE i < n
      <4>1. i \notin later
        BY <1>1, <2>5, <2>6, <3>1
      <4>2. QED
        BY <1>1, <2>6, <3>1, <4>1
    <3>2. CASE i >= n
      <4>1. Events[n].at <= Events[i].at
        BY <2>6, <3>2, EventsAreSorted
      <4>2. QED
        BY <1>1, <2>6, <3>2, <4>1
    <3>3. QED
      BY <1>1, <2>6, <3>1, <3>2
  <2>8. QED
    BY <1>1, <2>5, <2>6, <2>7
<1>4. QED
  BY <1>2, <1>3

-----------------------------------------------------------------------------
(* A Step. *)
LEMMA StepInOrderKept ==
  ASSUME FlightInv, NEW k \in StepSizes, Step(k)
  PROVE  FlightInv'
<1> DEFINE now == tick + k
           traffic == Snapshot(Approved, now)
<1>1. PICK t : t = now
  OBVIOUS
<1>2. PICK states : states = traffic
  OBVIOUS
<1> HIDE DEF now, traffic
<1>3. /\ StepIsNew(t)
      /\ tick' = t
      /\ nextIndex' = NowPending(t)
      /\ delivered' = delivered \cup (FirstPending .. NowPending(t) - 1)
      /\ lastSlot' = [s \in DOMAIN lastSlot |-> IF SlotDue(s, t) THEN t \div Interval
                                                ELSE lastSlot[s]]
      /\ step' = [at |-> t, states |-> states, priorities |-> Priorities(states)]
      /\ applied' = Approved
      /\ review' = (IF "step" \in stale THEN None ELSE review)
      /\ stale' = {}
      /\ scenario' = scenario /\ clockState' = clockState /\ flown' = flown
  BY <1>1, <1>2 DEF Step, now, traffic
<1>4. predictionRun' =
        IF SlotDue("prediction", t)
        THEN [at |-> t, points |-> [a \in DOMAIN states |-> Predicted(states[a], t, Horizons)]]
        ELSE predictionRun
  BY <1>1, <1>2 DEF Step, now, traffic
<1>5. conflictRun' =
        IF SlotDue("conflict", t)
        THEN [at |-> t, states |-> states,
              events |-> Assessed([a \in DOMAIN states |-> Aligned(states[a], t)],
                                  AssessmentHorizon)]
        ELSE conflictRun
  BY <1>1, <1>2 DEF Step, now, traffic
<1>6. FlightTypeOK /\ tick \in Nat /\ k \in Nat /\ scenario \in Scenarios
  BY FlightAssumption DEF FlightInv, FlightTypeOK
<1>7. t \in Nat /\ tick <= t
  BY <1>1, <1>6 DEF now
<1>8. /\ Approved \in [Aircraft -> Seq(States)]
      /\ stale = {} => Approved = applied
      /\ stale # {} => \A a \in Aircraft : Approved[a] = <<>>
  BY <1>6, ApprovedNow
<1>9. /\ Traffic(states, t)
      /\ \A a \in DOMAIN states :
           /\ a \in Aircraft /\ Started(a, t)
           /\ states[a] = CurrentState(Anchors(a, Approved[a]), t)
      /\ states = [a \in DOMAIN states |-> states[a]]
  BY <1>1, <1>2, <1>6, <1>7, <1>8, SnapshotIsTraffic DEF traffic
<1>10. states = Snapshot(Approved, t)
  BY <1>1, <1>2 DEF traffic
<1>11. /\ stale # {} => /\ "timeline" \in stale /\ "prediction" \in stale
                        /\ "conflict" \in stale /\ "step" \in stale
       /\ stale = {} => /\ "timeline" \notin stale /\ "prediction" \notin stale
                        /\ "conflict" \notin stale /\ "step" \notin stale
  BY <1>6, HoldersHold DEF FlightTypeOK
<1>12. stale = {} /\ step # None => step.at \in Nat /\ step.at < t
  <2>1. SUFFICES ASSUME stale = {}, step # None PROVE step.at \in Nat /\ step.at < t
    OBVIOUS
  <2>2. step.at \in Nat /\ step.at <= tick
    BY <2>1 DEF FlightInv, StepInOrder
  <2>3. step.at # t
    BY <1>3, <1>11, <2>1 DEF StepIsNew
  <2>4. QED
    BY <1>6, <1>7, <2>2, <2>3
<1>13. step'.at = t /\ step'.states = states /\ step'.priorities = Priorities(states)
       /\ step' # None
  <2>1. step'.at = t /\ step'.states = states /\ step'.priorities = Priorities(states)
    BY <1>3
  <2>2. QED
    BY <1>7, <2>1, NoneIsNone
<1>14. /\ FirstPending \in 1 .. Len(Events) + 1
       /\ \A i \in DOMAIN Events : i < FirstPending => Events[i].at <= t
  <2>1. CASE stale # {}
    <3>1. FirstPending = 1
      BY <1>11, <2>1 DEF FirstPending
    <3>2. QED
      BY <3>1, EventsAreTimed
  <2>2. CASE stale = {} /\ step = None
    <3>1. FirstPending = 1
      BY <1>11, <2>2 DEF FirstPending, FlightInv, NothingYet
    <3>2. QED
      BY <3>1, EventsAreTimed
  <2>3. CASE stale = {} /\ step # None
    <3>1. FirstPending = nextIndex
      BY <1>11, <2>3 DEF FirstPending
    <3>2. \A i \in DOMAIN Events : i < nextIndex <=> Events[i].at <= step.at
      BY <2>3 DEF FlightInv, TimelineInOrder
    <3>3. \A i \in DOMAIN Events : i < nextIndex => Events[i].at <= t
      BY <1>7, <1>12, <2>3, <3>2, EventsAreTimed
    <3>4. QED
      BY <1>6, <3>1, <3>3 DEF FlightTypeOK
  <2>4. QED
    BY <2>1, <2>2, <2>3
<1>15. /\ NowPending(t) \in 1 .. Len(Events) + 1
       /\ FirstPending <= NowPending(t)
       /\ \A i \in DOMAIN Events : i < NowPending(t) <=> Events[i].at <= t
  BY <1>7, <1>14, PollIsDue
<1>16. FlightTypeOK'
  <2>1. lastSlot' \in [{"prediction", "conflict"} -> Int]
    <3>1. t \div Interval \in Int
      BY <1>7, FlightAssumption
    <3>2. lastSlot \in [{"prediction", "conflict"} -> Int]
      BY <1>6 DEF FlightTypeOK
    <3>3. QED
      BY <1>3, <3>1, <3>2
  <2>2. QED
    BY <1>3, <1>6, <1>7, <1>8, <1>15, <2>1 DEF FlightTypeOK
<1>17. NothingYet'
  BY <1>13 DEF NothingYet
<1>18. TimelineInOrder'
  <2>1. FirstPending' = NowPending(t)
    BY <1>3 DEF FirstPending
  <2>2. delivered = 1 .. FirstPending - 1
    BY DEF FlightInv, TimelineInOrder
  <2>3. delivered' = 1 .. NowPending(t) - 1
    BY <1>3, <1>14, <1>15, <2>2, EventsAreTimed
  <2>4. QED
    BY <1>3, <1>13, <1>15, <2>1, <2>3 DEF TimelineInOrder
<1>19. StepInOrder'
  <2>1. Snapshot(applied, t)' = Snapshot(Approved, t)
    BY <1>3 DEF Snapshot, PresentAt, Anchors
  <2>2. Snapshot(applied, step.at)' = states
    BY <1>3, <1>10, <1>13 DEF Snapshot, PresentAt, Anchors
  <2>3. step'.at <= tick'
    BY <1>3, <1>7, <1>13
  <2>4. Priorities(step.states)' = Priorities(states)
    BY <1>13 DEF Priorities
  <2>5. QED
    BY <1>7, <1>9, <1>13, <2>2, <2>3, <2>4 DEF StepInOrder
<1>20. ApprovalsInOrder'
  <2>1. ASSUME flown' # None
        PROVE  stale' = {} /\ step' # None /\ flown'.at \in Nat /\ flown'.at <= step'.at
    <3>1. stale = {} /\ step # None /\ flown.at \in Nat /\ flown.at <= step.at
      BY <1>3, <2>1 DEF FlightInv, ApprovalsInOrder
    <3>2. QED
      BY <1>3, <1>7, <1>12, <1>13, <3>1
  <2>2. ASSUME NEW a \in Aircraft, NEW i \in DOMAIN applied'[a]
        PROVE  applied'[a][i].at <= flown'.at
    <3>1. CASE stale = {}
      BY <1>3, <1>8, <2>2, <3>1 DEF FlightInv, ApprovalsInOrder
    <3>2. CASE stale # {}
      BY <1>3, <1>8, <2>2, <3>2
    <3>3. QED
      BY <3>1, <3>2
  <2>3. QED
    BY <2>1, <2>2 DEF ApprovalsInOrder
<1>21. ReviewInOrder'
  <2>1. SUFFICES ASSUME review' # None PROVE ReviewInOrder'
    BY DEF ReviewInOrder
  <2>2. stale = {} /\ review' = review
    BY <1>3, <1>11, <2>1
  <2>3. /\ Computed(review) /\ review.at <= step.at
    BY <2>1, <2>2 DEF FlightInv, ReviewInOrder
  <2>4. step # None
    BY <2>1, <2>2 DEF FlightInv, NothingYet
  <2>5. review.at \in Nat
    BY <2>3 DEF Computed
  <2>6. review.at < t
    BY <1>7, <1>12, <2>2, <2>3, <2>4, <2>5
  <2>7. review'.at <= step'.at /\ review'.at # step'.at /\ Computed(review')
    BY <1>7, <1>13, <2>2, <2>3, <2>5, <2>6
  <2>8. QED
    BY <2>7 DEF ReviewInOrder
<1>22. PredictionInOrder'
  <2>1. CASE SlotDue("prediction", t)
    <3>1. /\ predictionRun'.at = t
          /\ predictionRun'.points = [a \in DOMAIN states |-> Predicted(states[a], t, Horizons)]
      BY <1>4, <2>1
    <3>2. ASSUME NEW a \in DOMAIN predictionRun'.points
          PROVE  /\ a \in Aircraft /\ Started(a, predictionRun.at)'
                 /\ predictionRun'.points[a] =
                      Predicted(FlownAt(a, predictionRun.at)', predictionRun'.at, Horizons)
      <4>1. a \in DOMAIN states
        BY <3>1
      <4>2. FlownAt(a, predictionRun.at)' = CurrentState(Anchors(a, Approved[a]), t)
        BY <1>3, <3>1 DEF FlownAt, Anchors
      <4>3. Started(a, predictionRun.at)' <=> Started(a, t)
        BY <1>3, <3>1 DEF Started
      <4>4. QED
        BY <1>9, <3>1, <4>1, <4>2, <4>3
    <3>3. predictionRun'.at <= step'.at
      BY <1>7, <1>13, <3>1
    <3>4. QED
      BY <1>7, <3>1, <3>2, <3>3 DEF PredictionInOrder
  <2>2. CASE ~SlotDue("prediction", t)
    <3>1. predictionRun' = predictionRun /\ stale = {}
      BY <1>4, <1>11, <2>2 DEF SlotDue
    <3>2. SUFFICES ASSUME predictionRun # None PROVE PredictionInOrder'
      BY <3>1 DEF PredictionInOrder
    <3>3. step # None
      BY <3>1, <3>2 DEF FlightInv, NothingYet
    <3>4. /\ predictionRun.at \in Nat /\ predictionRun.at <= step.at
          /\ \A a \in DOMAIN predictionRun.points :
               /\ a \in Aircraft /\ Started(a, predictionRun.at)
               /\ ApprovedBefore(a, predictionRun.at) =>
                    predictionRun.points[a] =
                      Predicted(FlownAt(a, predictionRun.at), predictionRun.at, Horizons)
      BY <3>1, <3>2 DEF FlightInv, PredictionInOrder
    <3>5. predictionRun'.at <= step'.at
      BY <1>7, <1>12, <1>13, <3>1, <3>3, <3>4
    <3>6. applied' = applied /\ scenario' = scenario
      BY <1>3, <1>8, <3>1
    <3>7. QED
      BY <3>1, <3>4, <3>5, <3>6 DEF PredictionInOrder, Started, ApprovedBefore, FlownAt, Anchors
  <2>3. QED
    BY <2>1, <2>2
<1>23. ConflictsInOrder'
  <2>1. CASE SlotDue("conflict", t)
    <3>1. \A a \in DOMAIN states : Aligned(states[a], t) = states[a]
      BY <1>9 DEF Aligned, Traffic
    <3>2. [a \in DOMAIN states |-> Aligned(states[a], t)] = states
      BY <1>9, <3>1
    <3>3. /\ conflictRun'.at = t /\ conflictRun'.states = states
          /\ conflictRun'.events = Assessed(states, AssessmentHorizon)
      BY <1>5, <2>1, <3>2
    <3>4. ASSUME NEW a \in DOMAIN states
          PROVE  /\ Started(a, conflictRun.at)'
                 /\ states[a] = FlownAt(a, conflictRun.at)'
      <4>1. FlownAt(a, conflictRun.at)' = CurrentState(Anchors(a, Approved[a]), t)
        BY <1>3, <3>3 DEF FlownAt, Anchors
      <4>2. Started(a, conflictRun.at)' <=> Started(a, t)
        BY <1>3, <3>3 DEF Started
      <4>3. QED
        BY <1>9, <4>1, <4>2
    <3>5. conflictRun'.at <= step'.at
      BY <1>7, <1>13, <3>3
    <3>6. QED
      BY <1>7, <1>9, <3>3, <3>4, <3>5 DEF ConflictsInOrder
  <2>2. CASE ~SlotDue("conflict", t)
    <3>1. conflictRun' = conflictRun /\ stale = {}
      BY <1>5, <1>11, <2>2 DEF SlotDue
    <3>2. SUFFICES ASSUME conflictRun # None PROVE ConflictsInOrder'
      BY <3>1 DEF ConflictsInOrder
    <3>3. step # None
      BY <3>1, <3>2 DEF FlightInv, NothingYet
    <3>4. /\ conflictRun.at \in Nat /\ conflictRun.at <= step.at
          /\ Traffic(conflictRun.states, conflictRun.at)
          /\ conflictRun.events = Assessed(conflictRun.states, AssessmentHorizon)
          /\ \A a \in DOMAIN conflictRun.states :
               /\ Started(a, conflictRun.at)
               /\ ApprovedBefore(a, conflictRun.at) =>
                    conflictRun.states[a] = FlownAt(a, conflictRun.at)
      BY <3>1, <3>2 DEF FlightInv, ConflictsInOrder
    <3>5. conflictRun'.at <= step'.at
      BY <1>7, <1>12, <1>13, <3>1, <3>3, <3>4
    <3>6. applied' = applied /\ scenario' = scenario
      BY <1>3, <1>8, <3>1
    <3>7. QED
      BY <3>1, <3>4, <3>5, <3>6 DEF ConflictsInOrder, Started, ApprovedBefore, FlownAt, Anchors
  <2>3. QED
    BY <2>1, <2>2
<1>24. ApprovedIsFlown'
  <2>1. SUFFICES ASSUME flown # None PROVE ApprovedIsFlown'
    BY <1>3 DEF ApprovedIsFlown
  <2>2. applied' = applied /\ scenario' = scenario /\ flown' = flown
    BY <1>3, <1>8, <2>1 DEF FlightInv, ApprovalsInOrder
  <2>3. QED
    BY <2>2 DEF FlightInv, ApprovedIsFlown, Started, FlownAt, Anchors
<1>25. QED
  BY <1>16, <1>17, <1>18, <1>19, <1>20, <1>21, <1>22, <1>23, <1>24 DEF FlightInv

-----------------------------------------------------------------------------
(* Candidates and the approved manoeuvre. *)
LEMMA RecommendInOrder ==
  ASSUME FlightInv, Recommend
  PROVE  FlightInv'
<1>1. /\ StepIsCurrent /\ "conflict" \notin stale /\ conflictRun # None
      /\ scenario' = scenario /\ clockState' = clockState /\ tick' = tick /\ stale' = stale
      /\ applied' = applied /\ nextIndex' = nextIndex /\ lastSlot' = lastSlot
      /\ predictionRun' = predictionRun /\ conflictRun' = conflictRun /\ step' = step
      /\ delivered' = delivered /\ flown' = flown
  BY DEF Recommend
<1>2. PICK p \in WorstPairs :
        /\ p \subseteq DOMAIN step.states
        /\ \E preferred \in PreferredTargets(p) :
             LET other == CHOOSE a \in p : a # preferred
                 batch == Generated(preferred, other, step.states, Performance)
                 results == ResultsOf(batch, p)
             IN  review' = [at |-> tick, pair |-> p, states |-> step.states, batch |-> batch,
                            results |-> results, recommended |-> Recommended(batch, results)]
  BY DEF Recommend
<1>3. PICK preferred \in PreferredTargets(p) :
        LET other == CHOOSE a \in p : a # preferred
            batch == Generated(preferred, other, step.states, Performance)
            results == ResultsOf(batch, p)
        IN  review' = [at |-> tick, pair |-> p, states |-> step.states, batch |-> batch,
                       results |-> results, recommended |-> Recommended(batch, results)]
  BY <1>2
<1>4. PICK other : other = CHOOSE a \in p : a # preferred
  OBVIOUS
<1>5. PICK batch : batch = Generated(preferred, other, step.states, Performance)
  OBVIOUS
<1>6. PICK results : results = ResultsOf(batch, p)
  OBVIOUS
<1>7. /\ review'.at = tick /\ review'.pair = p /\ review'.states = step.states
      /\ review'.batch = batch /\ review'.results = results
      /\ review'.recommended = Recommended(batch, results)
  BY <1>3, <1>4, <1>5, <1>6
<1>8. tick \in Nat /\ "step" \notin stale /\ step.at = tick /\ step # None
  <2>1. tick \in Nat /\ "step" \notin stale /\ step.at = tick
    BY <1>1 DEF StepIsCurrent, FlightInv, FlightTypeOK
  <2>2. QED
    BY <2>1, NoneIsNone
<1>9. Traffic(step.states, tick)
  BY <1>8 DEF FlightInv, StepInOrder
<1>10. p \in PairsOf(conflictRun.states) /\ Traffic(conflictRun.states, conflictRun.at)
  <2>1. /\ conflictRun.events = Assessed(conflictRun.states, AssessmentHorizon)
        /\ Traffic(conflictRun.states, conflictRun.at)
    BY <1>1 DEF FlightInv, ConflictsInOrder
  <2>2. p \in DOMAIN conflictRun.events
    BY DEF WorstPairs, Resolvable
  <2>3. QED
    BY <2>1, <2>2 DEF Assessed
<1>11. PICK a \in p, b \in p : a # b /\ p = {a, b}
  BY <1>10, PairAssessed
<1>12. preferred \in p
  BY DEF PreferredTargets
<1>13. other \in p /\ other # preferred
  <2>1. \E c \in p : c # preferred
    BY <1>11
  <2>2. QED
    BY <1>4, <2>1
<1>14. p = {preferred, other}
  BY <1>11, <1>12, <1>13
<1>15. ComputedBy(review', preferred, other)
  <2>1. results = [id \in {batch[i].id : i \in DOMAIN batch} |->
                     Validated(CHOOSE c \in ToSet(batch) : c.id = id, p, step.states,
                               Performance)]
    BY <1>6 DEF ResultsOf
  <2>2. PICK r : r = review'
    OBVIOUS
  <2>3. /\ r.pair = p /\ r.states = step.states /\ r.batch = batch /\ r.results = results
        /\ r.recommended = Recommended(batch, results)
    BY <1>7, <2>2
  <2>4. preferred # other /\ r.pair = {preferred, other} /\ r.pair \subseteq DOMAIN r.states
    BY <1>2, <1>13, <1>14, <2>3
  <2>5. r.batch = Generated(preferred, other, r.states, Performance)
    BY <1>5, <2>3
  <2>6. r.results = [id \in {r.batch[i].id : i \in DOMAIN r.batch} |->
                      Validated(CHOOSE c \in ToSet(r.batch) : c.id = id, r.pair, r.states,
                                Performance)]
    BY <2>1, <2>3
  <2>7. r.recommended = Recommended(r.batch, r.results)
    BY <2>3
  <2>8. ComputedBy(r, preferred, other)
    BY <2>4, <2>5, <2>6, <2>7 DEF ComputedBy
  <2>9. QED
    BY <2>2, <2>8
<1>16. Computed(review')
  BY <1>7, <1>8, <1>9, <1>12, <1>13, <1>15 DEF Computed
<1>17. ReviewInOrder'
  <2>1. review'.at = step'.at /\ review'.states = step'.states /\ step'.at \in Nat
    BY <1>1, <1>7, <1>8
  <2>2. review'.at <= step'.at
    BY <2>1
  <2>3. QED
    BY <1>16, <2>1, <2>2 DEF ReviewInOrder
<1>18. FlightTypeOK'
  BY <1>1 DEF FlightInv, FlightTypeOK
<1>19. NothingYet'
  BY <1>1, <1>8 DEF NothingYet
<1>20. TimelineInOrder'
  BY <1>1 DEF FlightInv, TimelineInOrder, FirstPending
<1>21. StepInOrder'
  BY <1>1 DEF FlightInv, StepInOrder, Snapshot, PresentAt, Anchors, Priorities
<1>22. PredictionInOrder'
  BY <1>1 DEF FlightInv, PredictionInOrder, Started, ApprovedBefore, FlownAt, Anchors
<1>23. ConflictsInOrder'
  BY <1>1 DEF FlightInv, ConflictsInOrder, Started, ApprovedBefore, FlownAt, Anchors
<1>24. ApprovalsInOrder'
  BY <1>1 DEF FlightInv, ApprovalsInOrder
<1>25. ApprovedIsFlown'
  BY <1>1 DEF FlightInv, ApprovedIsFlown, Started, FlownAt, Anchors
<1>26. QED
  BY <1>17, <1>18, <1>19, <1>20, <1>21, <1>22, <1>23, <1>24, <1>25 DEF FlightInv

LEMMA ApproveInOrder ==
  ASSUME FlightInv, Approve
  PROVE  FlightInv'
<1>1. /\ StepIsCurrent /\ review # None /\ flown.at < review.at
      /\ stale' = stale \ Aircraft
      /\ scenario' = scenario /\ clockState' = clockState /\ tick' = tick
      /\ nextIndex' = nextIndex /\ lastSlot' = lastSlot
      /\ predictionRun' = predictionRun /\ conflictRun' = conflictRun /\ step' = step
      /\ review' = review /\ delivered' = delivered
  BY DEF Approve
<1>2. PICK c \in review.recommended :
        /\ PresentAt(c.target, tick) /\ NoAnchorAt(c.target, tick)
        /\ applied' = [applied EXCEPT ![c.target] =
             Append(AppliedStates(c.target),
                    AppliedTo(CurrentState(Anchors(c.target, AppliedStates(c.target)), tick), c))]
        /\ flown' = [at |-> tick, validated |-> review.at, states |-> review.states, by |-> c]
  BY DEF Approve
<1>3. FlightTypeOK /\ tick \in Nat /\ "step" \notin stale /\ step.at = tick
      /\ scenario \in Scenarios /\ applied \in [Aircraft -> Seq(States)]
  BY <1>1 DEF StepIsCurrent, FlightInv, FlightTypeOK
<1>4. stale = {} /\ stale' = {} /\ step # None
  BY <1>1, <1>3, HoldersHold, NoneIsNone DEF FlightTypeOK
<1>5. /\ Computed(review) /\ review.at <= step.at
      /\ review.at = step.at => review.states = step.states
  BY <1>1, <1>4 DEF FlightInv, ReviewInOrder
<1>6. PICK me : me = c.target
  OBVIOUS
<1>7. /\ me \in Aircraft /\ me \in DOMAIN review.states /\ Flyable(c)
      /\ Traffic(Isolated(review.states, c), review.at)
      /\ DOMAIN Isolated(review.states, c) = DOMAIN review.states
      /\ AllSafe(Isolated(review.states, c), ValidationHorizon)
  <2>1. /\ c.target \in review.pair /\ Flyable(c)
        /\ Traffic(Isolated(review.states, c), review.at)
        /\ DOMAIN Isolated(review.states, c) = DOMAIN review.states
        /\ AllSafe(Isolated(review.states, c), ValidationHorizon)
    BY <1>5, RecommendedIsSafe
  <2>2. review.pair \in PairsOf(review.states) /\ c.target \in Aircraft
    BY <1>5, <2>1, PairOfReview
  <2>3. QED
    BY <1>6, <2>1, <2>2 DEF PairsOf
<1>8. PICK mine \in Seq(States) : mine = applied[me] /\ AppliedStates(me) = mine
  BY <1>3, <1>4, <1>7 DEF AppliedStates
<1>9. Started(me, tick)
  <2>1. scenario[me][1].at \in Nat
    BY <1>3, <1>7, RecordedAnchors
  <2>2. QED
    BY <1>2, <1>3, <1>6, <2>1 DEF PresentAt, Started
<1>10. PICK anchors \in Seq(States) : anchors = Anchors(me, mine)
  BY <1>3, <1>7, <1>9, FlownFound
<1>11. PICK here \in States : here = CurrentState(anchors, tick) /\ here.at = tick
  BY <1>3, <1>7, <1>9, <1>10, FlownFound
<1>12. PICK s \in States : s = AppliedTo(here, c) /\ s.at = tick
  BY <1>7, <1>11, AppliedIsFlown
<1>13. applied' = [applied EXCEPT ![me] = Append(mine, s)]
  BY <1>2, <1>6, <1>8, <1>10, <1>11, <1>12
<1>14. PICK more \in Seq(States) :
         /\ more = Append(mine, s) /\ Len(more) = Len(mine) + 1
         /\ \A i \in 1 .. Len(mine) : more[i] = mine[i]
         /\ more[Len(mine) + 1] = s
  BY AppendParts
<1>15. /\ applied' \in [Aircraft -> Seq(States)] /\ applied'[me] = more
       /\ \A a \in Aircraft \ {me} : applied'[a] = applied[a]
  BY <1>3, <1>7, <1>13, <1>14
<1>16. /\ flown'.at = tick /\ flown'.validated = review.at /\ flown'.states = review.states
       /\ flown'.by = c
  BY <1>2
<1>17. ~ApprovedBefore(me, tick)'
  <2>1. Len(mine) + 1 \in DOMAIN more /\ more[Len(mine) + 1].at = tick
    BY <1>12, <1>14
  <2>2. QED
    BY <1>1, <1>3, <1>15, <2>1 DEF ApprovedBefore
<1>18. FlightTypeOK'
  BY <1>1, <1>3, <1>4, <1>15 DEF FlightTypeOK
<1>19. NothingYet'
  BY <1>1, <1>4 DEF NothingYet
<1>20. TimelineInOrder'
  BY <1>1, <1>4 DEF FlightInv, TimelineInOrder, FirstPending
<1>21. StepInOrder'
  <2>1. /\ step.at \in Nat /\ Traffic(step.states, step.at)
        /\ step.priorities = Priorities(step.states)
    BY <1>4 DEF FlightInv, StepInOrder
  <2>2. ~(flown'.at < step'.at)
    BY <1>1, <1>3, <1>16
  <2>3. step'.at <= tick'
    BY <1>1, <1>3
  <2>4. QED
    BY <1>1, <2>1, <2>2, <2>3 DEF StepInOrder, Priorities
<1>22. \A a \in Aircraft, t \in Nat : t <= tick /\ ApprovedBefore(a, t)' =>
         /\ ApprovedBefore(a, t) /\ FlownAt(a, t)' = FlownAt(a, t)
  <2>1. SUFFICES ASSUME NEW a \in Aircraft, NEW t \in Nat, t <= tick, ApprovedBefore(a, t)'
                 PROVE  ApprovedBefore(a, t) /\ FlownAt(a, t)' = FlownAt(a, t)
    OBVIOUS
  <2>2. CASE a = me
    <3>1. Len(mine) + 1 \in DOMAIN more /\ more[Len(mine) + 1].at = tick
      BY <1>12, <1>14
    <3>2. more[Len(mine) + 1].at < t
      BY <1>15, <2>1, <2>2, <3>1 DEF ApprovedBefore
    <3>3. QED
      BY <1>3, <2>1, <3>1, <3>2
  <2>3. CASE a # me
    <3>1. applied'[a] = applied[a]
      BY <1>15, <2>3
    <3>2. QED
      BY <1>1, <2>1, <3>1 DEF ApprovedBefore, FlownAt, Anchors
  <2>4. QED
    BY <2>2, <2>3
<1>23. PredictionInOrder'
  <2>1. SUFFICES ASSUME predictionRun # None PROVE PredictionInOrder'
    BY <1>1 DEF PredictionInOrder
  <2>2. /\ predictionRun.at \in Nat /\ predictionRun.at <= step.at
        /\ \A a \in DOMAIN predictionRun.points :
             /\ a \in Aircraft /\ Started(a, predictionRun.at)
             /\ ApprovedBefore(a, predictionRun.at) =>
                  predictionRun.points[a] =
                    Predicted(FlownAt(a, predictionRun.at), predictionRun.at, Horizons)
    BY <1>4, <2>1 DEF FlightInv, PredictionInOrder
  <2>3. PICK t \in Nat : t = predictionRun.at /\ t <= tick
    BY <1>3, <2>2
  <2>4. ASSUME NEW a \in DOMAIN predictionRun.points
        PROVE  /\ a \in Aircraft /\ Started(a, t)'
               /\ ApprovedBefore(a, t)' =>
                    predictionRun.points[a] = Predicted(FlownAt(a, t)', t, Horizons)
    BY <1>1, <1>22, <2>2, <2>3 DEF Started
  <2>5. predictionRun' = predictionRun /\ predictionRun'.at = t /\ step'.at = step.at
    BY <1>1, <2>3
  <2>6. ASSUME NEW a \in DOMAIN predictionRun'.points
        PROVE  /\ a \in Aircraft /\ Started(a, predictionRun.at)'
               /\ ApprovedBefore(a, predictionRun.at)' =>
                    predictionRun'.points[a] =
                      Predicted(FlownAt(a, predictionRun.at)', predictionRun'.at, Horizons)
    BY <2>3, <2>4, <2>5 DEF Started, ApprovedBefore, FlownAt
  <2>7. QED
    BY <2>2, <2>5, <2>6 DEF PredictionInOrder
<1>24. ConflictsInOrder'
  <2>1. SUFFICES ASSUME conflictRun # None PROVE ConflictsInOrder'
    BY <1>1 DEF ConflictsInOrder
  <2>2. /\ conflictRun.at \in Nat /\ conflictRun.at <= step.at
        /\ Traffic(conflictRun.states, conflictRun.at)
        /\ conflictRun.events = Assessed(conflictRun.states, AssessmentHorizon)
        /\ \A a \in DOMAIN conflictRun.states :
             /\ Started(a, conflictRun.at)
             /\ ApprovedBefore(a, conflictRun.at) =>
                  conflictRun.states[a] = FlownAt(a, conflictRun.at)
    BY <1>4, <2>1 DEF FlightInv, ConflictsInOrder
  <2>3. PICK t \in Nat : t = conflictRun.at /\ t <= tick
    BY <1>3, <2>2
  <2>4. ASSUME NEW a \in DOMAIN conflictRun.states
        PROVE  /\ Started(a, t)'
               /\ ApprovedBefore(a, t)' => conflictRun.states[a] = FlownAt(a, t)'
    <3>1. a \in Aircraft
      BY <2>2 DEF Traffic
    <3>2. QED
      BY <1>1, <1>22, <2>2, <2>3, <3>1 DEF Started
  <2>5. conflictRun' = conflictRun /\ conflictRun'.at = t /\ step'.at = step.at
    BY <1>1, <2>3
  <2>6. ASSUME NEW a \in DOMAIN conflictRun'.states
        PROVE  /\ Started(a, conflictRun.at)'
               /\ ApprovedBefore(a, conflictRun.at)' =>
                    conflictRun'.states[a] = FlownAt(a, conflictRun.at)'
    BY <2>3, <2>4, <2>5 DEF Started, ApprovedBefore, FlownAt
  <2>7. QED
    BY <2>2, <2>5, <2>6 DEF ConflictsInOrder
<1>25. ReviewInOrder'
  BY <1>1, <1>4 DEF FlightInv, ReviewInOrder
<1>26. ApprovalsInOrder'
  <2>1. step'.at = tick /\ step' # None
    BY <1>1, <1>3, <1>4
  <2>2. ASSUME NEW a \in Aircraft, NEW i \in DOMAIN applied'[a]
        PROVE  applied'[a][i].at <= tick
    <3>1. ASSUME NEW b \in Aircraft, NEW j \in DOMAIN applied[b]
          PROVE  applied[b][j].at <= tick
      <4>1. applied[b][j].at <= flown.at
        BY <1>4 DEF FlightInv, ApprovalsInOrder
      <4>2. applied[b][j] \in States
        BY <1>3
      <4>3. applied[b][j].at \in Nat
        BY <4>2 DEF States
      <4>4. review.at \in Nat /\ flown.at \in Int
        BY <1>5, NoneIsNone DEF Computed, FlightInv, ApprovalsInOrder
      <4>5. QED
        BY <1>1, <1>3, <1>5, <4>1, <4>3, <4>4
    <3>2. CASE a = me
      <4>1. i \in 1 .. Len(mine) + 1
        BY <1>14, <1>15, <3>2
      <4>2. CASE i \in 1 .. Len(mine)
        <5>1. i \in DOMAIN applied[me] /\ applied'[me][i] = applied[me][i]
          BY <1>8, <1>14, <1>15, <4>2
        <5>2. QED
          BY <1>7, <3>1, <3>2, <5>1
      <4>3. CASE i = Len(mine) + 1
        BY <1>3, <1>12, <1>14, <1>15, <3>2, <4>3
      <4>4. QED
        BY <4>1, <4>2, <4>3
    <3>3. CASE a # me
      BY <1>15, <3>1, <3>3
    <3>4. QED
      BY <3>2, <3>3
  <2>3. QED
    BY <1>3, <1>4, <1>16, <2>1, <2>2 DEF ApprovalsInOrder
<1>27. ApprovedIsFlown'
  <2>1. SUFFICES ASSUME review.at = tick PROVE ApprovedIsFlown'
    BY <1>16 DEF ApprovedIsFlown
  <2>2. review.states = step.states /\ step.states = Snapshot(applied, tick)
    BY <1>1, <1>3, <1>4, <1>5, <2>1 DEF FlightInv, StepInOrder
  <2>3. \A a \in DOMAIN review.states :
          /\ a \in Aircraft /\ Started(a, tick)
          /\ review.states[a] = CurrentState(Anchors(a, applied[a]), tick)
    BY <1>3, <2>2, SnapshotIsTraffic
  <2>4. ASSUME NEW a \in DOMAIN review.states
        PROVE  Isolated(review.states, c)[a] = CurrentState(scenario[a] \o applied'[a], tick)
    <3>1. CASE a = me
      <4>1. Isolated(review.states, c)[me] = AppliedTo(review.states[me], c)
        BY <1>6, <1>7 DEF Isolated
      <4>2. review.states[me] = here
        BY <1>7, <1>8, <1>10, <1>11, <2>3
      <4>3. \A i \in DOMAIN anchors : anchors[i].at # s.at
        BY <1>2, <1>6, <1>8, <1>10, <1>12 DEF NoAnchorAt
      <4>4. CurrentState(Append(anchors, s), s.at) = s
        BY <4>3, NewAnchorIsCurrent
      <4>5. scenario[me] \o more = Append(anchors, s)
        <5>1. PICK recorded \in Seq(States) : recorded = scenario[me]
          BY <1>3, <1>7, RecordedAnchors
        <5>2. recorded \o Append(mine, s) = Append(recorded \o mine, s)
          BY ConcatAppend
        <5>3. anchors = recorded \o mine
          BY <1>10, <5>1 DEF Anchors
        <5>4. more = Append(mine, s)
          BY <1>14
        <5>5. QED
          BY <5>1, <5>2, <5>3, <5>4
      <4>6. QED
        BY <1>12, <1>15, <3>1, <4>1, <4>2, <4>4, <4>5
    <3>2. CASE a # me
      <4>1. Isolated(review.states, c)[a] = review.states[a]
        BY <1>6, <3>2 DEF Isolated
      <4>2. applied'[a] = applied[a]
        BY <1>15, <2>3, <3>2
      <4>3. QED
        BY <2>3, <4>1, <4>2 DEF Anchors
    <3>3. QED
      BY <3>1, <3>2
  <2>5. \A a \in DOMAIN review.states :
          /\ Started(a, flown.at)'
          /\ Isolated(review.states, c)[a] = FlownAt(a, flown.at)'
    BY <1>1, <1>16, <2>3, <2>4 DEF Started, FlownAt, Anchors
  <2>6. QED
    BY <1>7, <1>16, <2>1, <2>5 DEF ApprovedIsFlown
<1>28. QED
  BY <1>18, <1>19, <1>20, <1>21, <1>23, <1>24, <1>25, <1>26, <1>27 DEF FlightInv

(* No step leaves the order. *)
LEMMA NextInOrder == FlightInv /\ [Next]_vars => FlightInv'
<1> SUFFICES ASSUME FlightInv, [Next]_vars PROVE FlightInv'
  OBVIOUS
<1>1. CASE Play
  BY <1>1, PlayInOrder
<1>2. CASE Pause
  BY <1>2, PauseInOrder
<1>3. CASE Reset
  BY <1>3, ResetInOrder
<1>4. ASSUME NEW k \in StepSizes, Tick(k) PROVE FlightInv'
  BY <1>4, TickInOrder
<1>5. ASSUME NEW k \in StepSizes, Step(k) PROVE FlightInv'
  BY <1>5, StepInOrderKept
<1>6. CASE Recommend
  BY <1>6, RecommendInOrder
<1>7. CASE Approve
  BY <1>7, ApproveInOrder
<1>8. CASE UNCHANGED vars
  <2>1. /\ scenario' = scenario /\ clockState' = clockState /\ tick' = tick /\ stale' = stale
        /\ applied' = applied /\ nextIndex' = nextIndex /\ lastSlot' = lastSlot
        /\ predictionRun' = predictionRun /\ conflictRun' = conflictRun /\ step' = step
        /\ review' = review /\ delivered' = delivered /\ flown' = flown
    BY <1>8 DEF vars
  <2>2. QED
    BY <2>1, ClockMoves DEF FlightInv, FlightTypeOK
<1>9. QED
  BY <1>1, <1>2, <1>3, <1>4, <1>5, <1>6, <1>7, <1>8 DEF Next

(* Whatever the scenario, the clock's operations and the order of Steps,   *)
(* Candidates and approvals: what the holders keep was computed from the   *)
(* anchors of this clock run (orchestrator.py, engine.py, the schedulers). *)
THEOREM FlightIsInOrder == Spec => []FlightInv
<1>1. Init => FlightInv
  BY InitInOrder
<1>2. FlightInv /\ [Next]_vars => FlightInv'
  BY NextInOrder
<1>3. QED
  BY <1>1, <1>2, PTL DEF Spec

-----------------------------------------------------------------------------
(* What the invariant says of the run's properties. *)

(* A reset is noticed by all holders in one Step. *)
LEMMA NoticedByAll ==
  ASSUME FlightTypeOK, NEW holder \in {"timeline", "prediction", "conflict", "step"},
         holder \notin stale
  PROVE  stale = {}
  BY HoldersHold DEF FlightTypeOK

(* Between two times no anchor takes over, an aircraft's motion goes on. *)
LEMMA UndisturbedGoesOn ==
  ASSUME scenario \in Scenarios, NEW a \in Aircraft, NEW approved \in Seq(States),
         NEW t0 \in Nat, NEW t \in Nat, t0 <= t, Started(a, t0),
         \A i \in DOMAIN scenario[a] : ~(t0 < scenario[a][i].at /\ scenario[a][i].at <= t),
         \A i \in DOMAIN approved : approved[i].at <= t0
  PROVE  /\ CurrentState(Anchors(a, approved), t0) \in States
         /\ CurrentState(Anchors(a, approved), t0).at = t0
         /\ CurrentState(Anchors(a, approved), t) =
              Advanced(CurrentState(Anchors(a, approved), t0), t)
<1>1. PICK recorded \in Seq(States) : recorded = scenario[a] /\ recorded # <<>>
  BY RecordedAnchors
<1>2. PICK anchors : anchors = recorded \o approved
  OBVIOUS
<1>3. Anchors(a, approved) = anchors
  BY <1>1, <1>2 DEF Anchors
<1>4. /\ anchors \in Seq(States)
      /\ \A i \in DOMAIN anchors :
           \/ \E j \in DOMAIN recorded : anchors[i] = recorded[j]
           \/ \E j \in DOMAIN approved : anchors[i] = approved[j]
  <2>1. anchors \in Seq(States)
    BY <1>1, <1>2, BothAreAnchors
  <2>2. ASSUME NEW i \in DOMAIN anchors
        PROVE  \/ \E j \in DOMAIN recorded : anchors[i] = recorded[j]
               \/ \E j \in DOMAIN approved : anchors[i] = approved[j]
    <3>1. PICK m \in Nat, n \in Nat : m = Len(recorded) /\ n = Len(approved)
      OBVIOUS
    <3>2. /\ Len(anchors) = m + n
          /\ \A k \in 1 .. m : anchors[k] = recorded[k]
          /\ \A k \in m + 1 .. m + n : anchors[k] = approved[k - m]
      BY <1>2, <3>1, ConcatParts
    <3>3. DOMAIN anchors = 1 .. m + n /\ DOMAIN recorded = 1 .. m /\ DOMAIN approved = 1 .. n
      BY <2>1, <3>1, <3>2
    <3>4. CASE i \in 1 .. m
      BY <3>2, <3>3, <3>4
    <3>5. CASE i \in m + 1 .. m + n
      <4>1. i - m \in DOMAIN approved /\ anchors[i] = approved[i - m]
        BY <3>2, <3>3, <3>5
      <4>2. QED
        BY <4>1
    <3>6. QED
      BY <3>3, <3>4, <3>5
  <2>3. QED
    BY <2>1, <2>2
<1>5. /\ \E i \in DOMAIN anchors : anchors[i].at <= t0
      /\ CurrentState(anchors, t0) \in States /\ CurrentState(anchors, t0).at = t0
  BY <1>3, FlownFound
<1>6. NoAnchorBetween(anchors, t0, t)
  <2>1. ASSUME NEW i \in DOMAIN anchors, t0 < anchors[i].at, anchors[i].at <= t PROVE FALSE
    <3>1. CASE \E j \in DOMAIN recorded : anchors[i] = recorded[j]
      BY <1>1, <2>1, <3>1
    <3>2. CASE \E j \in DOMAIN approved : anchors[i] = approved[j]
      <4>1. PICK j \in DOMAIN approved : anchors[i] = approved[j]
        BY <3>2
      <4>2. approved[j] \in States
        OBVIOUS
      <4>3. approved[j].at \in Nat /\ approved[j].at <= t0
        BY <4>2 DEF States
      <4>4. QED
        BY <2>1, <4>1, <4>3
    <3>3. QED
      BY <1>4, <3>1, <3>2
  <2>2. QED
    BY <2>1 DEF NoAnchorBetween
<1>7. CurrentState(anchors, t) = Advanced(CurrentState(anchors, t0), t)
  BY <1>4, <1>5, <1>6, MotionGoesOn
<1>8. QED
  BY <1>3, <1>5, <1>7

LEMMA OrderAgrees == FlightInv => EventsAgree
<1> SUFFICES ASSUME FlightInv, step # None, "step" \notin stale PROVE EventsAgree
  BY DEF EventsAgree
<1>1. stale = {}
  BY NoticedByAll DEF FlightInv
<1>2. FirstPending = nextIndex
  BY <1>1 DEF FirstPending
<1>3. /\ delivered = 1 .. nextIndex - 1
      /\ \A i \in DOMAIN Events : i < nextIndex <=> Events[i].at <= step.at
      /\ nextIndex \in 1 .. Len(Events) + 1
  BY <1>1, <1>2 DEF FlightInv, TimelineInOrder, FlightTypeOK
<1>4. delivered = {i \in DOMAIN Events : Events[i].at <= step.at}
  <2>1. \A i \in DOMAIN Events : i \in delivered <=> i < nextIndex
    BY <1>3, EventsAreTimed
  <2>2. \A i \in delivered : i \in DOMAIN Events
    BY <1>3, EventsAreTimed
  <2>3. QED
    BY <1>3, <2>1, <2>2
<1>5. /\ Traffic(step.states, step.at)
      /\ step.priorities = [a \in DOMAIN step.states |-> PriorityOf(a, step.states[a], Events)]
  BY DEF FlightInv, StepInOrder, Priorities
<1>6. ASSUME NEW a \in DOMAIN step.states
      PROVE  step.priorities[a] = "EMERGENCY" <=>
               \/ step.states[a].emergency
               \/ \E i \in delivered :
                    Events[i].target = a /\ Events[i].type = "EMERGENCY_DECLARED"
  <2>1. step.priorities[a] = PriorityOf(a, step.states[a], Events)
    BY <1>5
  <2>2. step.states[a].at = step.at /\ step.states[a] \in States
    BY <1>5 DEF Traffic
  <2>3. step.states[a].emergency \in BOOLEAN
    BY <2>2 DEF States
  <2>4. PriorityOf(a, step.states[a], Events) = "EMERGENCY" <=>
          \/ step.states[a].emergency
          \/ \E i \in DOMAIN Events :
               /\ Events[i].target = a /\ Events[i].type = "EMERGENCY_DECLARED"
               /\ Events[i].at <= step.states[a].at
    BY <2>3 DEF PriorityOf
  <2>5. QED
    BY <1>4, <2>1, <2>2, <2>4
<1>7. QED
  BY <1>4, <1>6 DEF EventsAgree

LEMMA OrderIsFlown == FlightInv => PredictionIsFlown
<1> SUFFICES ASSUME FlightInv, predictionRun # None, "prediction" \notin stale,
                    NEW a \in DOMAIN predictionRun.points,
                    NEW point \in predictionRun.points[a],
                    point.at = tick, Undisturbed(a, predictionRun.at, tick)
             PROVE  /\ point.x = Here(a).x /\ point.y = Here(a).y /\ point.alt = Here(a).alt
  BY DEF PredictionIsFlown
<1>1. stale = {}
  BY NoticedByAll DEF FlightInv
<1>2. PICK t0 \in Nat : t0 = predictionRun.at
  BY DEF FlightInv, PredictionInOrder
<1>3. a \in Aircraft /\ Started(a, t0) /\ t0 <= step.at
  BY <1>1, <1>2 DEF FlightInv, PredictionInOrder
<1>4. PICK mine \in Seq(States) : mine = applied[a] /\ AppliedStates(a) = mine
  BY <1>1, <1>3 DEF FlightInv, FlightTypeOK, AppliedStates
<1>5. tick \in Nat /\ scenario \in Scenarios
  BY DEF FlightInv, FlightTypeOK
<1>6. t0 <= tick
  <2>1. step # None
    BY <1>1 DEF FlightInv, NothingYet
  <2>2. step.at \in Nat /\ step.at <= tick
    BY <1>1, <2>1 DEF FlightInv, StepInOrder
  <2>3. QED
    BY <1>2, <1>3, <1>5, <2>2
<1>7. /\ \A i \in DOMAIN scenario[a] : ~(t0 < scenario[a][i].at /\ scenario[a][i].at <= tick)
      /\ \A i \in DOMAIN mine : mine[i].at < t0
  BY <1>2, <1>4 DEF Undisturbed
<1>8. \A i \in DOMAIN mine : mine[i].at <= t0
  <2>1. \A i \in DOMAIN mine : mine[i] \in States
    OBVIOUS
  <2>2. \A i \in DOMAIN mine : mine[i].at \in Nat
    BY <2>1 DEF States
  <2>3. QED
    BY <1>7, <2>2
<1>9. PICK s \in States : s = CurrentState(Anchors(a, mine), t0) /\ s.at = t0
  BY <1>3, <1>5, <1>6, <1>7, <1>8, UndisturbedGoesOn
<1>10. Here(a) = Advanced(s, tick)
  <2>1. CurrentState(Anchors(a, mine), tick) = Advanced(CurrentState(Anchors(a, mine), t0), tick)
    BY <1>3, <1>5, <1>6, <1>7, <1>8, UndisturbedGoesOn
  <2>2. QED
    BY <1>4, <1>9, <2>1 DEF Here
<1>11. predictionRun.points[a] = Predicted(s, t0, Horizons)
  <2>1. ApprovedBefore(a, t0)
    BY <1>4, <1>7 DEF ApprovedBefore
  <2>2. predictionRun.points[a] = Predicted(FlownAt(a, t0), t0, Horizons)
    BY <1>1, <1>2, <2>1 DEF FlightInv, PredictionInOrder
  <2>3. QED
    BY <1>4, <1>9, <2>2 DEF FlownAt
<1>12. PICK h \in Horizons : point = PredictedPoint(s, t0, h)
  BY <1>11 DEF Predicted
<1>13. PICK elapsed : elapsed = t0 + h - s.at
  OBVIOUS
<1>14. /\ point.at = t0 + h
       /\ point.x = s.x + Velocity(s)[1] * elapsed
       /\ point.y = s.y + Velocity(s)[2] * elapsed
       /\ point.alt = s.alt + s.climb * elapsed
  BY <1>12, <1>13 DEF PredictedPoint, TrajectoryPoint
<1>15. elapsed = tick - s.at
  <2>1. tick = t0 + h
    BY <1>14
  <2>2. h \in Nat /\ s.at \in Nat
    BY <1>9, FlightAssumption DEF HorizonsAccepted
  <2>3. QED
    BY <1>13, <2>1, <2>2
<1>16. /\ Here(a).x = s.x + Velocity(s)[1] * elapsed
       /\ Here(a).y = s.y + Velocity(s)[2] * elapsed
       /\ Here(a).alt = s.alt + s.climb * elapsed
  <2>1. /\ Advanced(s, tick).x = s.x + Velocity(s)[1] * (tick - s.at)
        /\ Advanced(s, tick).y = s.y + Velocity(s)[2] * (tick - s.at)
        /\ Advanced(s, tick).alt = s.alt + s.climb * (tick - s.at)
    BY <1>5, AdvancedFields
  <2>2. QED
    BY <1>10, <1>15, <2>1
<1>17. QED
  BY <1>14, <1>16

LEMMA OrderHolds == FlightInv => VerdictHoldsInFlight
<1> SUFFICES ASSUME FlightInv, flown # None, flown.validated = flown.at,
                    tick <= flown.at + ValidationHorizon,
                    NEW a \in DOMAIN flown.states, NEW b \in DOMAIN flown.states, a # b,
                    \A c \in {a, b} : \A i \in DOMAIN scenario[c] :
                      ~(flown.at < scenario[c][i].at /\ scenario[c][i].at <= tick),
                    Here(a).climb = Here(b).climb
             PROVE  Separated(Here(a), Here(b))
  BY DEF VerdictHoldsInFlight
<1>1. stale = {} /\ step # None /\ flown.at \in Nat /\ flown.at <= step.at
  BY DEF FlightInv, ApprovalsInOrder
<1>2. tick \in Nat /\ scenario \in Scenarios /\ applied \in [Aircraft -> Seq(States)]
  BY DEF FlightInv, FlightTypeOK
<1>3. PICK t0 \in Nat : t0 = flown.at /\ t0 <= tick
  <2>1. step.at \in Nat /\ step.at <= tick
    BY <1>1 DEF FlightInv, StepInOrder
  <2>2. QED
    BY <1>1, <1>2, <2>1
<1>4. PICK states : states = Isolated(flown.states, flown.by)
  OBVIOUS
<1>5. /\ Traffic(states, t0) /\ DOMAIN states = DOMAIN flown.states
      /\ AllSafe(states, ValidationHorizon)
      /\ \A c \in DOMAIN flown.states : Started(c, t0) /\ states[c] = FlownAt(c, t0)
  BY <1>3, <1>4 DEF FlightInv, ApprovedIsFlown
<1>6. ASSUME NEW c \in {a, b}
      PROVE  Here(c) = Advanced(states[c], tick) /\ states[c] \in States
  <2>1. c \in Aircraft /\ c \in DOMAIN flown.states
    BY <1>5 DEF Traffic
  <2>2. PICK mine \in Seq(States) : mine = applied[c] /\ AppliedStates(c) = mine
    BY <1>1, <1>2, <2>1 DEF AppliedStates
  <2>3. \A i \in DOMAIN mine : mine[i].at <= t0
    BY <1>1, <1>3, <2>1, <2>2 DEF FlightInv, ApprovalsInOrder
  <2>4. \A i \in DOMAIN scenario[c] : ~(t0 < scenario[c][i].at /\ scenario[c][i].at <= tick)
    BY <1>3
  <2>5. /\ CurrentState(Anchors(c, mine), t0) \in States
        /\ CurrentState(Anchors(c, mine), tick) =
             Advanced(CurrentState(Anchors(c, mine), t0), tick)
    BY <1>2, <1>3, <1>5, <2>1, <2>3, <2>4, UndisturbedGoesOn
  <2>6. states[c] = CurrentState(Anchors(c, mine), t0)
    BY <1>5, <2>1, <2>2 DEF FlownAt
  <2>7. QED
    BY <2>2, <2>5, <2>6 DEF Here
<1>7. states[a].climb = states[b].climb
  <2>1. \A c \in {a, b} : Advanced(states[c], tick).climb = states[c].climb
    BY <1>2, <1>6, AdvancedFields
  <2>2. QED
    BY <1>6, <2>1
<1>8. ValidationHorizon \in Nat /\ tick <= t0 + ValidationHorizon
  BY <1>3, CandidateAssumption DEF ValidationProfileAccepted
<1>9. Separated(Advanced(states[a], tick), Advanced(states[b], tick))
  BY <1>2, <1>3, <1>5, <1>7, <1>8, SafeTrafficStaysApart
<1>10. QED
  BY <1>6, <1>9

(* Only a Step assesses, and it notices the last reset. *)
LEMMA StepAssesses ==
  ASSUME FlightInv, Next, stale = {}, conflictRun' # conflictRun
  PROVE  scenario' = scenario /\ applied' = applied /\ stale' = {}
<1>1. PICK k \in StepSizes : Step(k)
  BY DEF Next, Play, Pause, Reset, Tick, Recommend, Approve
<1>2. scenario' = scenario /\ applied' = Approved /\ stale' = {}
  BY <1>1 DEF Step
<1>3. QED
  BY <1>2, ApprovedNow DEF FlightInv

LEMMA OrderEscalates ==
  ASSUME FlightInv, FlightInv', [Next]_vars,
         conflictRun # None, "conflict" \notin stale, conflictRun'.at > conflictRun.at,
         NEW p \in DOMAIN conflictRun.events \cap DOMAIN conflictRun'.events
  PROVE  Escalates(p, conflictRun, conflictRun')
<1>1. stale = {}
  BY NoticedByAll DEF FlightInv
<1>2. PICK t0 \in Nat : t0 = conflictRun.at
  BY DEF FlightInv, ConflictsInOrder
<1>3. conflictRun' # None
  <2>1. SUFFICES ASSUME conflictRun' = None PROVE FALSE
    OBVIOUS
  <2>2. conflictRun'.at = -1
    BY <2>1, NoneIsNone
  <2>3. QED
    BY <1>2, <2>2
<1>4. PICK t \in Nat : t = conflictRun'.at /\ t0 < t
  BY <1>2, <1>3 DEF FlightInv, ConflictsInOrder
<1>5. scenario' = scenario /\ applied' = applied /\ stale' = {}
  <2>1. conflictRun' # conflictRun
    BY <1>2, <1>4
  <2>2. Next
    BY <2>1 DEF vars
  <2>3. QED
    BY <1>1, <2>1, <2>2, StepAssesses
<1>6. PICK before : before = conflictRun.states
  OBVIOUS
<1>7. PICK after : after = conflictRun'.states
  OBVIOUS
<1>8. /\ Traffic(before, t0) /\ conflictRun.events = Assessed(before, AssessmentHorizon)
      /\ \A a \in DOMAIN before :
           /\ Started(a, t0)
           /\ ApprovedBefore(a, t0) => before[a] = FlownAt(a, t0)
  BY <1>1, <1>2, <1>6 DEF FlightInv, ConflictsInOrder
<1>9. /\ Traffic(after, t) /\ conflictRun'.events = Assessed(after, AssessmentHorizon)
      /\ \A a \in DOMAIN after :
           (\A i \in DOMAIN applied[a] : applied[a][i].at < t) =>
             after[a] = CurrentState(Anchors(a, applied[a]), t)
  <2>1. /\ Traffic(after, t) /\ conflictRun'.events = Assessed(after, AssessmentHorizon)
        /\ \A a \in DOMAIN after :
             ApprovedBefore(a, conflictRun.at)' => after[a] = FlownAt(a, conflictRun.at)'
    BY <1>3, <1>4, <1>5, <1>7 DEF FlightInv, ConflictsInOrder
  <2>2. QED
    BY <1>4, <1>5, <2>1 DEF ApprovedBefore, FlownAt, Anchors
<1>10. p \in PairsOf(before) /\ p \in PairsOf(after)
  BY <1>8, <1>9 DEF Assessed
<1>11. PICK a \in p, b \in p :
         /\ a # b /\ p = {a, b} /\ a \in DOMAIN before /\ b \in DOMAIN before
         /\ \A other, h : EventOf(other, p, h) = Event(other[a], other[b], h)
  BY <1>8, <1>10, PairAssessed
<1>12. PICK e : e = Event(before[a], before[b], AssessmentHorizon)
  OBVIOUS
<1>13. PICK f : f = Event(after[a], after[b], AssessmentHorizon)
  OBVIOUS
<1>14. conflictRun.events[p] = e /\ conflictRun'.events[p] = f
  BY <1>8, <1>9, <1>10, <1>11, <1>12, <1>13 DEF Assessed
<1>15. SUFFICES ASSUME e.status = "PREDICTED", (t - t0) * e.time[2] <= e.time[1],
                       \A c \in p : before[c].climb = 0 /\ Undisturbed(c, t0, t)
                PROVE  RiskRank[RiskOf(f)] >= RiskRank[RiskOf(e)]
  <2>1. PICK old : old = conflictRun
    OBVIOUS
  <2>2. PICK new : new = conflictRun'
    OBVIOUS
  <2>3. /\ old.events[p] = e /\ old.at = t0 /\ old.states = before
        /\ new.events[p] = f /\ new.at = t
    BY <1>2, <1>4, <1>6, <1>14, <2>1, <2>2
  <2>4. Escalates(p, old, new)
    BY <2>3 DEF Escalates
  <2>5. QED
    BY <2>1, <2>2, <2>4
<1>16. ASSUME NEW c \in p
       PROVE  /\ before[c] \in States /\ before[c].at = t0 /\ before[c].climb = 0
              /\ after[c] = Advanced(before[c], t)
  <2>1. c \in Aircraft /\ c \in DOMAIN before /\ c \in DOMAIN after
    BY <1>8, <1>10 DEF PairsOf, Traffic
  <2>2. PICK mine \in Seq(States) : mine = applied[c] /\ AppliedStates(c) = mine
    BY <1>1, <2>1 DEF FlightInv, FlightTypeOK, AppliedStates
  <2>3. /\ \A i \in DOMAIN scenario[c] : ~(t0 < scenario[c][i].at /\ scenario[c][i].at <= t)
        /\ \A i \in DOMAIN mine : mine[i].at < t0
    BY <1>15, <2>2 DEF Undisturbed
  <2>4. \A i \in DOMAIN mine : mine[i].at <= t0 /\ mine[i].at < t
    <3>1. \A i \in DOMAIN mine : mine[i] \in States
      OBVIOUS
    <3>2. \A i \in DOMAIN mine : mine[i].at \in Nat
      BY <3>1 DEF States
    <3>3. QED
      BY <1>4, <2>3, <3>2
  <2>5. before[c] = CurrentState(Anchors(c, mine), t0)
    BY <1>8, <2>1, <2>2, <2>3 DEF ApprovedBefore, FlownAt
  <2>6. after[c] = CurrentState(Anchors(c, mine), t)
    BY <1>9, <2>1, <2>2, <2>4
  <2>7. scenario \in Scenarios /\ t0 <= t
    BY <1>4 DEF FlightInv, FlightTypeOK
  <2>8. CurrentState(Anchors(c, mine), t) = Advanced(CurrentState(Anchors(c, mine), t0), t)
    BY <1>8, <2>1, <2>3, <2>4, <2>7, UndisturbedGoesOn
  <2>9. QED
    BY <1>8, <1>15, <2>1, <2>5, <2>6, <2>8 DEF Traffic
<1>17. PICK s \in States, u \in States : s = before[a] /\ u = before[b]
  BY <1>11, <1>16
<1>18. /\ s.at = t0 /\ u.at = t0 /\ s.climb = 0 /\ u.climb = 0
       /\ after[a] = Advanced(s, t) /\ after[b] = Advanced(u, t)
  BY <1>11, <1>16, <1>17
<1>19. /\ e = Event(s, u, AssessmentHorizon)
       /\ f = Event(Advanced(s, t), Advanced(u, t), AssessmentHorizon)
       /\ AssessmentHorizon \in Nat
  BY <1>12, <1>13, <1>17, <1>18, FlightAssumption
<1>20. QED
  BY <1>4, <1>15, <1>18, <1>19, ConflictComesNearer

-----------------------------------------------------------------------------
(* What is recommended. *)
LEMMA RanksByCost ==
  ASSUME NEW c, NEW d,
         c.cost \in Nat, c.delay \in Nat, c.path \in Nat, c.id \in Nat, d.cost \in Nat
  PROVE  /\ c.cost < d.cost => RanksBefore(c, d)
         /\ RanksBefore(c, d) => c.cost <= d.cost
         /\ ~RanksBefore(c, c)
<1>1. PICK k : k = <<c.cost, c.delay, c.path, c.id>>
  OBVIOUS
<1>2. PICK l : l = <<d.cost, d.delay, d.path, d.id>>
  OBVIOUS
<1>3. /\ k[1] = c.cost /\ k[2] = c.delay /\ k[3] = c.path /\ k[4] = c.id
      /\ l[1] = d.cost
  BY <1>1, <1>2
<1>4. RanksBefore(c, d) <=>
        \E i \in 1 .. 4 : k[i] < l[i] /\ \A j \in 1 .. i - 1 : k[j] = l[j]
  BY <1>1, <1>2 DEF RanksBefore
<1>5. RanksBefore(c, c) => \E i \in 1 .. 4 : k[i] < k[i]
  BY <1>1 DEF RanksBefore
<1>6. \A i \in 1 .. 4 : k[i] \in Nat
  <2>1. \A i \in 1 .. 4 : i = 1 \/ i = 2 \/ i = 3 \/ i = 4
    OBVIOUS
  <2>2. QED
    BY <1>3, <2>1
<1>7. ASSUME c.cost < d.cost PROVE RanksBefore(c, d)
  <2>1. k[1] < l[1] /\ \A j \in 1 .. 1 - 1 : k[j] = l[j]
    BY <1>3, <1>7
  <2>2. QED
    BY <1>4, <2>1
<1>8. ASSUME RanksBefore(c, d) PROVE c.cost <= d.cost
  <2>1. PICK i \in 1 .. 4 : k[i] < l[i] /\ \A j \in 1 .. i - 1 : k[j] = l[j]
    BY <1>4, <1>8
  <2>2. CASE i = 1
    BY <1>3, <2>1, <2>2
  <2>3. CASE i # 1
    <3>1. 1 \in 1 .. i - 1
      BY <2>3
    <3>2. k[1] = l[1]
      BY <2>1, <3>1
    <3>3. QED
      BY <1>3, <3>2
  <2>4. QED
    BY <2>2, <2>3
<1>9. ~RanksBefore(c, c)
  BY <1>5, <1>6
<1>10. QED
  BY <1>7, <1>8, <1>9

(* The Candidates of a review that are not the baseline. *)
LEMMA ReviewedCosts ==
  ASSUME NEW r, Computed(r)
  PROVE  \A i \in 1 .. 4 :
           /\ r.batch[i].cost \in Nat /\ r.batch[i].delay \in Nat /\ r.batch[i].path \in Nat
           /\ r.batch[i].id \in Nat
           /\ \A j \in 1 .. 4 : r.batch[i].cost = r.batch[j].cost => i = j
<1>1. \A i \in 1 .. 4 :
        /\ r.batch[i].id = i /\ r.batch[i].cost = Templates[i].cost
        /\ r.batch[i].delay = Templates[i].delay /\ r.batch[i].path = Templates[i].path
  BY BatchOfReview
<1>2. \A i, j \in 1 .. 4 : Templates[i].cost = Templates[j].cost => i = j
  <2>1. \A i \in 1 .. 4 : i = 1 \/ i = 2 \/ i = 3 \/ i = 4
    OBVIOUS
  <2>2. /\ Templates[1].cost = 10 /\ Templates[2].cost = 25 /\ Templates[3].cost = 20
        /\ Templates[4].cost = 30
    BY FourTemplates DEF Template
  <2>3. QED
    BY <2>1, <2>2
<1>3. QED
  BY <1>1, <1>2, TemplateFields

Reviewed(r) == {r.batch[i] : i \in 1 .. 4}

LEMMA RanksOfReview ==
  ASSUME NEW r, Computed(r)
  PROVE  /\ IsFiniteSet(Reviewed(r))
         /\ \A c, d \in Reviewed(r) : RanksBefore(c, d) <=> c.cost < d.cost
         /\ \A c, d \in Reviewed(r) : c.cost = d.cost \/ c.id = d.id => c = d
         /\ \A c \in Reviewed(r) : c.cost \in Nat
<1>1. IsFiniteSet(Reviewed(r))
  <2>1. \A i \in 1 .. 4 : i = 1 \/ i = 2 \/ i = 3 \/ i = 4
    OBVIOUS
  <2>2. Reviewed(r) = (({r.batch[1]} \cup {r.batch[2]}) \cup {r.batch[3]}) \cup {r.batch[4]}
    BY <2>1 DEF Reviewed
  <2>3. IsFiniteSet({r.batch[1]})
    BY FS_Singleton
  <2>4. IsFiniteSet(({r.batch[1]} \cup {r.batch[2]}) \cup {r.batch[3]})
    BY <2>3, FS_AddElement
  <2>5. QED
    BY <2>2, <2>4, FS_AddElement
<1>2. \A i, j \in 1 .. 4 :
        r.batch[i].cost = r.batch[j].cost \/ r.batch[i].id = r.batch[j].id => i = j
  BY ReviewedCosts, BatchOfReview
<1>3. ASSUME NEW i \in 1 .. 4, NEW j \in 1 .. 4
      PROVE  RanksBefore(r.batch[i], r.batch[j]) <=> r.batch[i].cost < r.batch[j].cost
  <2>1. PICK c : c = r.batch[i]
    OBVIOUS
  <2>2. PICK d : d = r.batch[j]
    OBVIOUS
  <2>3. /\ c.cost \in Nat /\ c.delay \in Nat /\ c.path \in Nat /\ c.id \in Nat
        /\ d.cost \in Nat /\ (c.cost = d.cost => c = d)
    BY <2>1, <2>2, ReviewedCosts
  <2>4. /\ c.cost < d.cost => RanksBefore(c, d)
        /\ RanksBefore(c, d) => c.cost <= d.cost
        /\ ~RanksBefore(c, c)
    BY <2>3, RanksByCost
  <2>5. RanksBefore(c, d) <=> c.cost < d.cost
    BY <2>3, <2>4
  <2>6. QED
    BY <2>1, <2>2, <2>5
<1>4. QED
  BY <1>1, <1>2, <1>3, ReviewedCosts, SMTT(20) DEF Reviewed

(* A cheaper one has the smaller rank. *)
LEMMA CheaperIsFirst ==
  ASSUME NEW r, Computed(r), NEW safe \in SUBSET Reviewed(r), NEW c \in safe, NEW d \in safe,
         c.cost < d.cost
  PROVE  Rank(c, safe) \in Nat /\ Rank(d, safe) \in Nat /\ Rank(c, safe) < Rank(d, safe)
<1> DEFINE A == {e \in safe : RanksBefore(e, c)}
           B == {e \in safe : RanksBefore(e, d)}
<1>1. IsFiniteSet(safe)
  BY RanksOfReview, FS_Subset
<1>2. IsFiniteSet(A) /\ IsFiniteSet(B)
  BY <1>1, FS_Subset
<1>3. c \notin A /\ A \cup {c} \subseteq B
  <2>1. ASSUME NEW e \in A PROVE e \in B
    <3>1. e.cost < c.cost /\ e.cost \in Nat /\ c.cost \in Nat /\ d.cost \in Nat
      BY RanksOfReview
    <3>2. e.cost < d.cost
      BY <3>1
    <3>3. QED
      BY <3>2, RanksOfReview
  <2>2. c \in B /\ c \notin A
    BY RanksOfReview
  <2>3. QED
    BY <2>1, <2>2
<1> HIDE DEF A, B
<1>4. IsFiniteSet(A \cup {c}) /\ Cardinality(A \cup {c}) = Cardinality(A) + 1
  BY <1>2, <1>3, FS_AddElement
<1>5. Cardinality(A \cup {c}) <= Cardinality(B)
  BY <1>2, <1>3, FS_Subset
<1>6. Cardinality(A) \in Nat /\ Cardinality(B) \in Nat
  BY <1>2, FS_CardinalityType
<1>7. Rank(c, safe) = 1 + Cardinality(A) /\ Rank(d, safe) = 1 + Cardinality(B)
  BY DEF Rank, A, B
<1>8. QED
  BY <1>4, <1>5, <1>6, <1>7

SafeOf(r) ==
  {c \in ToSet(r.batch) : c.type # "NO_ACTION" /\ r.results[c.id].verdict = "SAFE"}

LEMMA RecommendedByRank ==
  ASSUME NEW r, Computed(r)
  PROVE  /\ SafeOf(r) \subseteq Reviewed(r)
         /\ r.recommended = {c \in SafeOf(r) : Rank(c, SafeOf(r)) <= MaxRecommendations}
<1>1. PICK preferred \in r.pair, other \in r.pair : ComputedBy(r, preferred, other)
  BY DEF Computed
<1>2. r.recommended = {c \in SafeOf(r) : Rank(c, SafeOf(r)) <= MaxRecommendations}
  BY <1>1 DEF ComputedBy, Recommended, SafeOf
<1>3. ASSUME NEW c \in SafeOf(r) PROVE c \in Reviewed(r)
  <2>1. PICK i \in 1 .. 5 : c = r.batch[i]
    BY BatchOfReview DEF ToSet, SafeOf
  <2>2. i # 5
    BY <2>1, BatchOfReview DEF Baseline, SafeOf
  <2>3. QED
    BY <2>1, <2>2 DEF Reviewed
<1>4. QED
  BY <1>2, <1>3

(* What the checks of a SAFE altitude leave is one that can be ordered. *)
LEMMA AltitudeCanBeOrdered ==
  ASSUME NEW i \in 1 .. 4, NEW s \in States, NEW a \in Aircraft, NEW c,
         c.type = "ALTITUDE", Templates[i].type = "ALTITUDE",
         c.value = Commanded(Templates[i], s, Performance[a]),
         ~MinimumAltitudeViolated(c, s)
  PROVE  CanBeOrdered(c, s, Performance[a])
<1>1. PICK w : w = c.value
  OBVIOUS
<1>2. PICK ceiling \in Nat \ {0} : ceiling = Performance[a].ceiling
  BY EnvelopeFields
<1>3. PICK alt \in Int : alt = s.alt
  BY DEF States
<1>4. AltitudeChange \in Nat \ {0} /\ AssignmentStep \in Nat \ {0} /\ MinimumAltitude \in Nat
  BY ProfileNumbers
<1>5. /\ w \in Int /\ w % AssignmentStep = 0 /\ w <= ceiling
      /\ \/ Magnitude(w - alt) >= AltitudeChange
         \/ w + AssignmentStep > ceiling
         \/ w = 0 /\ alt < AltitudeChange
  <2>1. CASE Templates[i].role = "PREFERRED"
    <3>1. PICK v : v = Low(alt + AltitudeChange, ceiling)
      OBVIOUS
    <3>2. v \in Int /\ (v = alt + AltitudeChange \/ v = ceiling)
      BY <1>4, <3>1 DEF Low
    <3>3. w = AssignableAltitude(v, TRUE, ceiling)
      BY <1>1, <1>2, <1>3, <2>1, <3>1 DEF Commanded
    <3>4. /\ w \in Int /\ w % AssignmentStep = 0 /\ w <= ceiling
          /\ w >= v \/ w + AssignmentStep > ceiling
      BY <3>2, <3>3, AssignableIsOrderable, ZenonT(40)
    <3>5. \/ w >= alt + AltitudeChange
          \/ w + AssignmentStep > ceiling
      BY <1>4, <3>2, <3>4
    <3>6. w >= alt + AltitudeChange => Magnitude(w - alt) >= AltitudeChange
      BY <1>4, <3>4 DEF Magnitude
    <3>7. QED
      BY <3>4, <3>5, <3>6
  <2>2. CASE Templates[i].role = "OTHER"
    <3>1. PICK v : v = High(0, alt - AltitudeChange)
      OBVIOUS
    <3>2. v \in Int /\ (v = alt - AltitudeChange \/ (v = 0 /\ alt < AltitudeChange))
      BY <1>4, <3>1 DEF High
    <3>3. w = AssignableAltitude(v, FALSE, ceiling)
      BY <1>1, <1>2, <1>3, <2>2, <3>1 DEF Commanded
    <3>4. /\ w \in Int /\ w % AssignmentStep = 0 /\ w <= ceiling
          /\ w <= v /\ (v = 0 => w = 0)
      BY <3>2, <3>3, AssignableIsOrderable
    <3>5. \/ alt - w >= AltitudeChange
          \/ w = 0 /\ alt < AltitudeChange
      BY <1>4, <3>2, <3>4
    <3>6. alt - w >= AltitudeChange => Magnitude(w - alt) >= AltitudeChange
      BY <1>4, <3>4 DEF Magnitude
    <3>7. QED
      BY <3>4, <3>5, <3>6
  <2>3. QED
    BY <2>1, <2>2, TemplateFields
<1>6. w >= Low(MinimumAltitude, alt)
  <2>1. IF alt < MinimumAltitude THEN ~(w < alt) ELSE ~(w < MinimumAltitude)
    BY <1>1, <1>3 DEF MinimumAltitudeViolated
  <2>2. QED
    BY <1>4, <1>5, <2>1 DEF Low
<1>7. QED
  BY <1>1, <1>2, <1>3, <1>5, <1>6 DEF CanBeOrdered

LEMMA OrderIsOrderable == FlightInv => RecommendedCanBeOrdered
<1> SUFFICES ASSUME FlightInv, review # None PROVE RecommendedCanBeOrdered
  BY DEF RecommendedCanBeOrdered
<1>1. PICK r : r = review
  OBVIOUS
<1>2. Computed(r)
  BY <1>1 DEF FlightInv, ReviewInOrder
<1>3. ASSUME NEW c \in r.recommended
      PROVE  CanBeOrdered(c, r.states[c.target], Performance[c.target])
  <2>1. PICK i \in 1 .. 4 : c = r.batch[i]
    BY <1>2, RecommendedIsSafe
  <2>2. c.target \in r.pair /\ ~MinimumAltitudeViolated(c, r.states[c.target])
    BY <1>2, RecommendedIsSafe
  <2>3. PICK a \in Aircraft, s \in States : a = c.target /\ s = r.states[a]
    BY <1>2, <2>2, PairOfReview
  <2>4. c.type = Templates[i].type /\ c.value = Commanded(Templates[i], s, Performance[a])
    BY <1>2, <2>1, <2>3, BatchOfReview
  <2>5. CASE c.type = "ALTITUDE"
    <3>1. CanBeOrdered(c, s, Performance[a])
      BY <2>2, <2>3, <2>4, <2>5, AltitudeCanBeOrdered
    <3>2. QED
      BY <2>3, <3>1
  <2>6. CASE c.type # "ALTITUDE"
    BY <2>6 DEF CanBeOrdered
  <2>7. QED
    BY <2>5, <2>6
<1>4. ASSUME NEW c \in ToSet(r.batch) \ r.recommended, NEW d \in r.recommended,
             c.type # "NO_ACTION", r.results[c.id].verdict = "SAFE"
      PROVE  c.cost >= d.cost
  <2>1. PICK safe : safe = SafeOf(r)
    OBVIOUS
  <2>2. safe \subseteq Reviewed(r) /\ c \in safe /\ d \in safe
    BY <1>2, <1>4, <2>1, RecommendedByRank DEF SafeOf
  <2>3. ~(Rank(c, safe) <= MaxRecommendations) /\ Rank(d, safe) <= MaxRecommendations
    BY <1>2, <1>4, <2>1, <2>2, RecommendedByRank
  <2>4. SUFFICES ASSUME c.cost < d.cost PROVE FALSE
    BY <1>2, <2>2, RanksOfReview
  <2>5. Rank(c, safe) \in Nat /\ Rank(d, safe) \in Nat /\ Rank(c, safe) < Rank(d, safe)
    BY <1>2, <2>2, <2>4, CheaperIsFirst
  <2>6. QED
    BY <2>3, <2>5, ProfileNumbers
<1>5. QED
  BY <1>1, <1>3, <1>4 DEF RecommendedCanBeOrdered

-----------------------------------------------------------------------------
(* What the constructors accept. *)
LEMMA VerdictIsConsistent ==
  ASSUME NEW c, NEW primary \in {"SAFE", "PREDICTED"}, NEW secondary,
         NEW feasible \in BOOLEAN, NEW violated \in BOOLEAN, NEW r,
         r.primary = primary, r.secondary = secondary, r.feasible = feasible,
         r.violated = violated,
         r.reasons = Reasons(c, primary, secondary, feasible, violated),
         r.verdict = Verdict(c, primary, secondary, feasible, violated)
  PROVE  /\ EvidenceConsistent(r)
         /\ r.verdict = "SAFE" /\ c.type # "NO_ACTION" =>
              r.reasons = {"PRIMARY_CONFLICT_RESOLVED"}
<1>1. /\ "PRIMARY_CONFLICT_RESOLVED" \in r.reasons <=> primary = "SAFE"
      /\ "PRIMARY_CONFLICT_REMAINS" \in r.reasons <=> primary # "SAFE"
      /\ "SECONDARY_CONFLICT_DETECTED" \in r.reasons <=> secondary # {}
      /\ "PERFORMANCE_ENVELOPE_EXCEEDED" \in r.reasons <=> ~feasible
      /\ "RULE_VIOLATION" \in r.reasons <=> violated
      /\ "NO_ACTION_BASELINE" \in r.reasons <=> c.type = "NO_ACTION"
  BY DEF Reasons
<1>2. /\ r.verdict \in {"SAFE", "INEFFECTIVE", "UNSAFE"}
      /\ r.verdict = "SAFE" <=> primary = "SAFE" /\ secondary = {} /\ feasible /\ ~violated
      /\ r.verdict = "INEFFECTIVE" <=>
           /\ primary # "SAFE" /\ secondary = {} /\ feasible /\ ~violated
           /\ c.type # "NO_ACTION"
  BY DEF Verdict
<1>3. /\ ("PRIMARY_CONFLICT_RESOLVED" \in r.reasons) = (r.primary = "SAFE")
      /\ ("PRIMARY_CONFLICT_REMAINS" \in r.reasons) = (r.primary # "SAFE")
      /\ ("SECONDARY_CONFLICT_DETECTED" \in r.reasons) = (r.secondary # {})
  BY <1>1
<1>4. /\ ("PERFORMANCE_ENVELOPE_EXCEEDED" \in r.reasons) = ~r.feasible
      /\ ("RULE_VIOLATION" \in r.reasons) = r.violated
  <2>1. ("PERFORMANCE_ENVELOPE_EXCEEDED" \in r.reasons) = ~r.feasible
    BY <1>1
  <2>2. CASE violated = TRUE
    <3>1. r.violated = TRUE /\ "RULE_VIOLATION" \in r.reasons
      BY <1>1, <2>2
    <3>2. ("RULE_VIOLATION" \in r.reasons) = r.violated
      BY <3>1
    <3>3. QED
      BY <2>1, <3>2
  <2>3. CASE violated = FALSE
    <3>1. r.violated = FALSE /\ "RULE_VIOLATION" \notin r.reasons
      BY <1>1, <2>3
    <3>2. ("RULE_VIOLATION" \in r.reasons) = r.violated
      BY <3>1
    <3>3. QED
      BY <2>1, <3>2
  <2>4. QED
    BY <2>2, <2>3
<1> DEFINE failed == r.secondary # {} \/ ~r.feasible \/ r.violated
           baseline == "NO_ACTION_BASELINE" \in r.reasons
<1>5. /\ r.verdict = "SAFE" => r.primary = "SAFE" /\ ~failed
      /\ r.verdict = "INEFFECTIVE" => r.primary # "SAFE" /\ ~failed /\ ~baseline
      /\ r.verdict = "UNSAFE" => failed \/ (r.primary # "SAFE" /\ baseline)
  BY <1>1, <1>2
<1>6. (CASE r.verdict = "SAFE" -> r.primary = "SAFE" /\ ~failed
         [] r.verdict = "INEFFECTIVE" -> r.primary # "SAFE" /\ ~failed /\ ~baseline
         [] r.verdict = "UNSAFE" -> failed \/ (r.primary # "SAFE" /\ baseline))
  <2> HIDE DEF failed, baseline
  <2>1. CASE r.verdict = "SAFE"
    BY <1>5, <2>1
  <2>2. CASE r.verdict = "INEFFECTIVE"
    BY <1>5, <2>2
  <2>3. CASE r.verdict = "UNSAFE"
    BY <1>5, <2>3
  <2>4. QED
    BY <1>2, <2>1, <2>2, <2>3
<1>7. EvidenceConsistent(r)
  <2> HIDE DEF failed, baseline
  <2>1. QED
    BY <1>3, <1>4, <1>6 DEF EvidenceConsistent, failed, baseline
<1>8. r.verdict = "SAFE" /\ c.type # "NO_ACTION" =>
        r.reasons = {"PRIMARY_CONFLICT_RESOLVED"}
  BY <1>2 DEF Reasons
<1>9. QED
  BY <1>7, <1>8

LEMMA ValidatedIsAccepted ==
  ASSUME NEW c, NEW pair, NEW states, NEW t, Traffic(states, t), pair \in PairsOf(states),
         c.target = NoAircraft \/ (c.target \in pair /\ Flyable(c)),
         NEW r, r = Validated(c, pair, states, Performance)
  PROVE  /\ ResultAccepted(r, pair)
         /\ r.verdict = "SAFE" /\ c.type # "NO_ACTION" =>
              r.reasons = {"PRIMARY_CONFLICT_RESOLVED"}
<1> DEFINE isolated == IF c.target = NoAircraft THEN states ELSE Isolated(states, c)
           events == Assessed(isolated, ValidationHorizon)
           primary == events[pair].status
           secondary == {p \in DOMAIN events \ {pair} : events[p].status = "PREDICTED"}
           feasible == \/ c.target = NoAircraft
                       \/ PerformanceFeasible(c, states[c.target], Performance[c.target])
           violated == c.target # NoAircraft /\ MinimumAltitudeViolated(c, states[c.target])
           reasons == Reasons(c, primary, secondary, feasible, violated)
           verdict == Verdict(c, primary, secondary, feasible, violated)
<1>1. r = [id |-> c.id, primary |-> primary, secondary |-> secondary, feasible |-> feasible,
           violated |-> violated, reasons |-> reasons, verdict |-> verdict]
  BY DEF Validated, Isolated
<1>2. Traffic(isolated, t) /\ pair \in PairsOf(isolated)
  <2>1. CASE c.target = NoAircraft
    BY <2>1
  <2>2. CASE c.target # NoAircraft
    <3>1. c.target \in DOMAIN states /\ Flyable(c)
      BY <2>2 DEF PairsOf
    <3>2. states[c.target] \in States /\ states[c.target].at = t
      BY <3>1 DEF Traffic
    <3>3. AppliedTo(states[c.target], c) \in States /\ AppliedTo(states[c.target], c).at = t
      BY <3>1, <3>2, AppliedIsFlown
    <3>4. /\ DOMAIN isolated = DOMAIN states
          /\ \A a \in DOMAIN states : isolated[a] = IF a = c.target
                                                    THEN AppliedTo(states[a], c) ELSE states[a]
      BY <2>2, <3>1 DEF Isolated
    <3>5. QED
      BY <3>3, <3>4 DEF Traffic, PairsOf
  <2>3. QED
    BY <2>1, <2>2
<1>3. primary \in {"SAFE", "PREDICTED"}
  <2> HIDE DEF isolated
  <2>1. events[pair] = EventOf(isolated, pair, ValidationHorizon)
    BY <1>2 DEF Assessed
  <2>2. EventOf(isolated, pair, ValidationHorizon).status \in {"SAFE", "PREDICTED"}
    BY <1>2, ProfileNumbers, EventsAreSafeOrPredicted
  <2>3. QED
    BY <2>1, <2>2
<1>4. feasible \in BOOLEAN /\ violated \in BOOLEAN
  OBVIOUS
<1>5. pair \notin secondary
  OBVIOUS
<1> HIDE DEF primary, secondary, feasible, violated
<1>6. /\ r.primary = primary /\ r.secondary = secondary /\ r.reasons = reasons
      /\ r.verdict = verdict
  <2> HIDE DEF reasons, verdict
  <2>1. QED
    BY <1>1
<1>7. r.feasible = feasible /\ r.violated = violated
  <2> HIDE DEF reasons, verdict
  <2>1. QED
    BY <1>1, <1>4
<1>8. /\ EvidenceConsistent(r)
      /\ r.verdict = "SAFE" /\ c.type # "NO_ACTION" =>
           r.reasons = {"PRIMARY_CONFLICT_RESOLVED"}
  BY <1>3, <1>4, <1>6, <1>7, VerdictIsConsistent
<1>9. QED
  BY <1>5, <1>6, <1>8 DEF ResultAccepted

(* A value that no constructor refuses: the aircraft is not below the ground *)
(* by more than the climb, and not so slow that it is told to stop in the    *)
(* air, which an envelope without a minimum speed allows.                    *)
CanBeCommanded(s, a) ==
  /\ s.alt + AltitudeChange >= 0
  /\ High(Performance[a].minSpeed, s.speed - SpeedChange) > 0

LEMMA CommandIsAccepted ==
  ASSUME NEW i \in 1 .. 4, NEW s \in States, NEW a \in Aircraft, CanBeCommanded(s, a), NEW c,
         c.type = Templates[i].type, c.value = Commanded(Templates[i], s, Performance[a])
  PROVE  ManeuverAccepted(c)
<1>1. PICK w : w = c.value
  OBVIOUS
<1>2. PICK ceiling \in Nat \ {0} : ceiling = Performance[a].ceiling
  BY EnvelopeFields
<1>3. PICK alt \in Int : alt = s.alt
  BY DEF States
<1>4. AltitudeChange \in Nat \ {0} /\ alt + AltitudeChange >= 0
  BY <1>3, ProfileNumbers DEF CanBeCommanded
<1>5. CASE c.type = "HEADING"
  <2>1. w \in 1 .. Points
    BY <1>1, <1>5, CommandedIsFlyable
  <2>2. QED
    BY <1>1, <1>5, <2>1 DEF ManeuverAccepted
<1>6. CASE c.type = "SPEED"
  <2>1. w = High(Performance[a].minSpeed, s.speed - SpeedChange)
    BY <1>1, <1>6 DEF Commanded
  <2>2. w > 0
    BY <2>1 DEF CanBeCommanded
  <2>3. QED
    BY <1>1, <1>6, <2>2 DEF ManeuverAccepted
<1>7. CASE c.type = "ALTITUDE"
  <2>1. w >= 0
    <3>1. CASE Templates[i].role = "PREFERRED"
      <4>1. PICK v : v = Low(alt + AltitudeChange, ceiling)
        OBVIOUS
      <4>2. v \in Int /\ v >= 0
        BY <1>4, <4>1 DEF Low
      <4>3. w = AssignableAltitude(v, TRUE, ceiling)
        BY <1>1, <1>2, <1>3, <1>7, <3>1, <4>1 DEF Commanded
      <4>4. QED
        BY <4>2, <4>3, AssignableIsOrderable
    <3>2. CASE Templates[i].role = "OTHER"
      <4>1. PICK v : v = High(0, alt - AltitudeChange)
        OBVIOUS
      <4>2. v \in Int /\ v >= 0
        BY <1>4, <4>1 DEF High
      <4>3. w = AssignableAltitude(v, FALSE, ceiling)
        BY <1>1, <1>2, <1>3, <1>7, <3>2, <4>1 DEF Commanded
      <4>4. QED
        BY <4>2, <4>3, AssignableIsOrderable
    <3>3. QED
      BY <1>7, <3>1, <3>2, TemplateFields
  <2>2. QED
    BY <1>1, <1>7, <2>1 DEF ManeuverAccepted
<1>8. QED
  BY <1>5, <1>6, <1>7, TemplateFields

LEMMA BatchIsAccepted ==
  ASSUME NEW r, Computed(r), \A a \in r.pair : CanBeCommanded(r.states[a], a)
  PROVE  BatchAccepted(r.batch, r.pair)
<1>1. DOMAIN r.batch = 1 .. 5 /\ r.batch[5] = Baseline
  BY BatchOfReview
<1>2. \A i \in 1 .. 5 : i \in 1 .. 4 \/ i = 5
  OBVIOUS
<1>3. \A i \in 1 .. 4 : r.batch[i].type # "NO_ACTION" /\ r.batch[i].target \in r.pair
  BY BatchOfReview
<1>4. /\ Baseline.type = "NO_ACTION" /\ Baseline.target = NoAircraft
      /\ Baseline.cost = 0 /\ Baseline.delay = 0 /\ Baseline.path = 0
  BY DEF Baseline
<1>5. Cardinality({i \in DOMAIN r.batch : r.batch[i].type = "NO_ACTION"}) = 1
  <2>1. {i \in DOMAIN r.batch : r.batch[i].type = "NO_ACTION"} = {5}
    BY <1>1, <1>2, <1>3, <1>4
  <2>2. Cardinality({5}) = 1
    BY FS_Singleton
  <2>3. QED
    BY <2>1, <2>2
<1>6. ASSUME NEW i \in 1 .. 4 PROVE CandidateAccepted(r.batch[i])
  <2>1. PICK c : c = r.batch[i]
    OBVIOUS
  <2>2. PICK a \in Aircraft, s \in States :
          a = c.target /\ s = r.states[a] /\ a # NoAircraft /\ CanBeCommanded(s, a)
    BY <1>3, <2>1, PairOfReview
  <2>3. c.type = Templates[i].type /\ c.value = Commanded(Templates[i], s, Performance[a])
    BY <2>1, <2>2, BatchOfReview
  <2>4. ManeuverAccepted(c)
    BY <2>2, <2>3, CommandIsAccepted
  <2>5. CandidateAccepted(c)
    BY <1>3, <2>1, <2>2, <2>4 DEF CandidateAccepted
  <2>6. QED
    BY <2>1, <2>5
<1>7. CandidateAccepted(Baseline)
  BY <1>4 DEF CandidateAccepted, ManeuverAccepted
<1>8. \A i, j \in 1 .. 5 : r.batch[i].id = r.batch[j].id => i = j
  BY BatchOfReview
<1>9. QED
  BY <1>1, <1>2, <1>3, <1>4, <1>5, <1>6, <1>7, <1>8 DEF BatchAccepted

LEMMA ResultsAreAccepted ==
  ASSUME NEW r, Computed(r)
  PROVE  ValidationAccepted(r.batch, r.results, r.pair) /\ SetAccepted(r.recommended, r.results)
<1>1. DOMAIN r.batch = 1 .. 5 /\ \A i \in 1 .. 5 : r.batch[i].id = i
  BY BatchOfReview
<1>2. DOMAIN r.results = {r.batch[i].id : i \in DOMAIN r.batch}
  <2>1. {r.batch[i].id : i \in DOMAIN r.batch} = 1 .. 5
    BY <1>1
  <2>2. QED
    BY <2>1, ResultsOfReview
<1>3. Traffic(r.states, r.at) /\ r.pair \in PairsOf(r.states)
  BY PairOfReview DEF Computed
<1>4. ASSUME NEW i \in 1 .. 5
      PROVE  /\ ResultAccepted(r.results[i], r.pair)
             /\ r.results[i].verdict = "SAFE" /\ r.batch[i].type # "NO_ACTION" =>
                  r.results[i].reasons = {"PRIMARY_CONFLICT_RESOLVED"}
  <2>1. PICK c : c = r.batch[i]
    OBVIOUS
  <2>2. PICK result : result = r.results[i]
    OBVIOUS
  <2>3. result = Validated(c, r.pair, r.states, Performance)
    BY <2>1, <2>2, ResultsOfReview
  <2>4. c.target = NoAircraft \/ (c.target \in r.pair /\ Flyable(c))
    <3>1. CASE i \in 1 .. 4
      BY <2>1, <3>1, BatchOfReview
    <3>2. CASE i = 5
      BY <2>1, <3>2, BatchOfReview DEF Baseline
    <3>3. QED
      BY <3>1, <3>2
  <2>5. /\ ResultAccepted(result, r.pair)
        /\ result.verdict = "SAFE" /\ c.type # "NO_ACTION" =>
             result.reasons = {"PRIMARY_CONFLICT_RESOLVED"}
    BY <1>3, <2>3, <2>4, ValidatedIsAccepted
  <2>6. QED
    BY <2>1, <2>2, <2>5
<1>5. ValidationAccepted(r.batch, r.results, r.pair)
  BY <1>2, <1>4, ResultsOfReview DEF ValidationAccepted
<1>6. r.recommended \subseteq Reviewed(r)
  BY RecommendedByRank
<1>7. ASSUME NEW c \in r.recommended PROVE RecommendationAccepted(c, r.results)
  <2>1. PICK i \in 1 .. 4 : c = r.batch[i]
    BY RecommendedIsSafe
  <2>2. c.type # "NO_ACTION" /\ r.results[c.id].verdict = "SAFE" /\ c.id = i
    BY <1>1, <2>1, RecommendedIsSafe
  <2>3. QED
    BY <1>4, <2>1, <2>2 DEF RecommendationAccepted
<1>8. ASSUME NEW c \in r.recommended, NEW d \in r.recommended,
             c.id = d.id \/ Rank(c, r.recommended) = Rank(d, r.recommended)
      PROVE  c = d
  <2>1. PICK safe : safe = r.recommended
    OBVIOUS
  <2>2. safe \subseteq Reviewed(r) /\ c \in safe /\ d \in safe
    BY <1>6, <2>1
  <2>3. SUFFICES ASSUME c # d PROVE FALSE
    OBVIOUS
  <2>4. /\ c.cost # d.cost /\ c.id # d.id /\ c.cost \in Nat /\ d.cost \in Nat
    BY <2>2, <2>3, RanksOfReview
  <2>5. CASE c.cost < d.cost
    <3>1. Rank(c, safe) \in Nat /\ Rank(d, safe) \in Nat /\ Rank(c, safe) < Rank(d, safe)
      BY <2>2, <2>5, CheaperIsFirst
    <3>2. QED
      BY <1>8, <2>1, <2>4, <3>1
  <2>6. CASE d.cost < c.cost
    <3>1. Rank(c, safe) \in Nat /\ Rank(d, safe) \in Nat /\ Rank(d, safe) < Rank(c, safe)
      BY <2>2, <2>6, CheaperIsFirst
    <3>2. QED
      BY <1>8, <2>1, <2>4, <3>1
  <2>7. QED
    BY <2>4, <2>5, <2>6
<1>9. SetAccepted(r.recommended, r.results)
  BY <1>7, <1>8 DEF SetAccepted
<1>10. QED
  BY <1>5, <1>9

(* Whether the pair that was solved could be commanded at all. *)
ReviewCanBeCommanded ==
  review # None => \A a \in review.pair : CanBeCommanded(review.states[a], a)

LEMMA OrderIsAccepted == FlightInv /\ ReviewCanBeCommanded => EvidenceIsAccepted
<1> SUFFICES ASSUME FlightInv, ReviewCanBeCommanded PROVE EvidenceIsAccepted
  OBVIOUS
<1>1. ASSUME conflictRun # None PROVE RunAccepted(conflictRun, AssessmentHorizon)
  <2>1. PICK run : run = conflictRun
    OBVIOUS
  <2>2. Traffic(run.states, run.at) /\ run.events = Assessed(run.states, AssessmentHorizon)
    BY <1>1, <2>1 DEF FlightInv, ConflictsInOrder
  <2>3. AssessmentHorizon \in Nat
    BY FlightAssumption
  <2>4. ASSUME NEW p \in DOMAIN run.events
        PROVE  /\ EventAccepted(run.events[p]) /\ run.events[p].at = run.at
               /\ run.events[p].time[1] <= AssessmentHorizon * run.events[p].time[2]
    <3>1. p \in PairsOf(run.states) /\ run.events[p] = EventOf(run.states, p, AssessmentHorizon)
      BY <2>2 DEF Assessed
    <3>2. PICK e : e = EventOf(run.states, p, AssessmentHorizon)
      OBVIOUS
    <3>3. /\ e.at = run.at /\ e.time[1] \in Nat /\ e.time[2] \in Nat \ {0}
          /\ e.time[1] <= AssessmentHorizon * e.time[2]
      BY <2>2, <2>3, <3>1, <3>2, EventsAreSafeOrPredicted
    <3>4. EventAccepted(e)
      BY <3>3 DEF EventAccepted
    <3>5. QED
      BY <3>1, <3>2, <3>3, <3>4
  <2>5. RunAccepted(run, AssessmentHorizon)
    BY <2>4 DEF RunAccepted
  <2>6. QED
    BY <2>1, <2>5
<1>2. ASSUME review # None
      PROVE  /\ BatchAccepted(review.batch, review.pair)
             /\ ValidationAccepted(review.batch, review.results, review.pair)
             /\ SetAccepted(review.recommended, review.results)
  <2>1. PICK r : r = review
    OBVIOUS
  <2>2. Computed(r) /\ \A a \in r.pair : CanBeCommanded(r.states[a], a)
    BY <1>2, <2>1 DEF FlightInv, ReviewInOrder, ReviewCanBeCommanded
  <2>3. QED
    BY <2>1, <2>2, BatchIsAccepted, ResultsAreAccepted
<1>3. QED
  BY <1>1, <1>2 DEF EvidenceIsAccepted

-----------------------------------------------------------------------------
(***************************************************************************)
(* A verdict of SAFE holds in flight, for every traffic, envelope, profile *)
(* and horizon: the manoeuvre flown in the tick it was validated in keeps  *)
(* every pair of the validated traffic that climbs alike apart.            *)
(* (validator.py, apply_candidate_maneuver_to_state, current_state)        *)
(***************************************************************************)
THEOREM VerdictsHoldInFlight == Spec => []VerdictHoldsInFlight
  BY FlightIsInOrder, OrderHolds, PTL

(* The predictor and the simulation agree on where an undisturbed aircraft *)
(* will be (prediction/baseline.py against simulation/synthetic.py).       *)
THEOREM PredictionsAreFlown == Spec => []PredictionIsFlown
  BY FlightIsInOrder, OrderIsFlown, PTL

(* The timeline and the priorities tell one story, over any resets         *)
(* (scenario/timeline.py against priority/evaluator.py).                   *)
THEOREM EventsAlwaysAgree == Spec => []EventsAgree
  BY FlightIsInOrder, OrderAgrees, PTL

(* What is recommended can be ordered, and nothing SAFE and cheaper was    *)
(* left out (generator.py, validator.py, recommendation/service.py).       *)
THEOREM OrdersAreAssignable == Spec => []RecommendedCanBeOrdered
  BY FlightIsInOrder, OrderIsOrderable, PTL

(* No constructor refuses what is computed for a pair that can be          *)
(* commanded.  The hypothesis is about the data of a scenario: the code    *)
(* refuses a climb that would end below the ground and a speed of zero.    *)
(* (domain/resolution.py, domain/resolution_validation.py)                 *)
THEOREM EvidenceIsAlwaysAccepted == Spec => [](ReviewCanBeCommanded => EvidenceIsAccepted)
  BY FlightIsInOrder, OrderIsAccepted, PTL

(* A predicted conflict of a level pair does not fade until they have met: *)
(* the next assessment puts it at a risk that is no lower.                 *)
(* (closest_approach.py, risk/evaluator.py, conflict/scheduler.py)         *)
THEOREM ConflictsEscalate == Spec => ConflictEscalates
<1>1. FlightInv /\ FlightInv' /\ [Next]_vars =>
        [/\ conflictRun # None /\ "conflict" \notin stale /\ conflictRun'.at > conflictRun.at
         => \A p \in DOMAIN conflictRun.events \cap DOMAIN conflictRun'.events :
              Escalates(p, conflictRun, conflictRun')]_vars
  BY OrderEscalates
<1>2. QED
  BY <1>1, FlightIsInOrder, PTL DEF Spec, ConflictEscalates
=============================================================================
