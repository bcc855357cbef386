----------------------------- MODULE MCFlight -----------------------------
EXTENDS AssessedFlight

(* Units: 15 s, 0.05 NM, 100 ft, 60 kt.  Civil flights a and c, a fighter f; *)
(* g enters late and leaves.                                                *)
MCAircraft == {"a", "c", "f", "g"}

State(at, x, y, alt, heading, speed, climb) ==
  [at |-> at, x |-> x, y |-> y, alt |-> alt, heading |-> heading, speed |-> speed,
   climb |-> climb, emergency |-> FALSE, stabilised |-> FALSE]

(* The fighter crosses the path of a; c is beside the fighter; the fighter's *)
(* recording turns it at tick 6, and a declares an emergency at tick 7.      *)
Plan(altitude, climb, beside, turn) ==
  [a |-> <<State(0, 0, 0, altitude, 4, 4, 0),
           [State(7, 140, 0, altitude, 4, 4, 0) EXCEPT !.emergency = TRUE]>>,
   f |-> <<State(0, 80, -80, 84 - 4 * climb, 1, 4, climb), State(6, 80, 40, 84, turn, 4, 0)>>,
   c |-> <<State(0, 80 + beside, -80, altitude + 5, 1, 4, 0)>>,
   g |-> <<State(2, 0, 100, 90, 4, 6, 0)>>]

MCScenarios == {Plan(84, 0, 61, 10), Plan(84, 2, 140, 10), Plan(84, 0, 140, 4),
                Plan(68, 0, 140, 10), Plan(68, 2, 61, 10)}

MCPresence == [a |-> {}, f |-> {<<0, 5>>, <<6, 20>>}, c |-> {<<0, 9>>}, g |-> {<<2, 8>>}]

Envelope(minSpeed, maxSpeed, rate, ceiling) ==
  [minSpeed |-> minSpeed, maxSpeed |-> maxSpeed, climbRate |-> rate, descentRate |-> rate,
   turnRate |-> 2, ceiling |-> ceiling]
MCPerformance == [a |-> Envelope(2, 8, 5, 390), c |-> Envelope(2, 8, 5, 92),
                  f |-> Envelope(3, 10, 25, 500), g |-> Envelope(3, 10, 25, 500)]

MCEvents == <<[at |-> 2, target |-> "f", type |-> "ENTRY_CONFORMANCE_DEVIATION"],
              [at |-> 4, target |-> "c", type |-> "EMERGENCY_DECLARED"],
              [at |-> 7, target |-> "a", type |-> "EMERGENCY_DECLARED"]>>
=============================================================================
