----------------------------- MODULE MCSession -----------------------------
(* Constants for a session: the scenario's seconds scaled down so that a    *)
(* run holds several slots, an ADVANCE off the slots, a recorded anchor, an *)
(* emergency and a departure.                                               *)
EXTENDS SessionCommands

CONSTANTS a1, a2, a3

MCPairs == {{a1, a2}, {a2, a3}}
MCExceptionOrder == [p \in MCPairs |-> IF p = {a1, a2} THEN 1 ELSE 2]
MCManeuverOrder == [a \in {a1, a2, a3} |-> CASE a = a1 -> 2 [] a = a2 -> 1 [] a = a3 -> 3]

\* a3 leaves at tick 5; a2 has a recorded anchor at tick 4 and declares an
\* emergency at tick 6; the deviation shows from tick 3.
MCPresence == [a \in {a1, a2, a3} |-> IF a = a3 THEN 0 .. 4 ELSE 0 .. MaxTick]
MCScheduledAnchors == [a \in {a1, a2, a3} |-> IF a = a2 THEN {0, 4} ELSE {0}]
MCProtected == [a \in {a1, a2, a3} |-> IF a = a2 THEN 6 .. MaxTick ELSE {}]
MCDeviationTicks == 3 .. MaxTick
=============================================================================
