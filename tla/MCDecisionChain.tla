-------------------------- MODULE MCDecisionChain --------------------------
(* Constants for the chain of orchestrators under direct calls.             *)
EXTENDS DecisionChain

CONSTANTS a1, a2, a3

MCPairs == {{a1, a2}, {a2, a3}}
MCExceptionOrder == [p \in MCPairs |-> IF p = {a1, a2} THEN 1 ELSE 2]
MCManeuverOrder == [a \in {a1, a2, a3} |-> CASE a = a1 -> 1 [] a = a2 -> 2 [] a = a3 -> 3]

\* a3 has left when tick 3 comes, a1 has a recorded anchor at tick 2, a2
\* declares an emergency at tick 2 and everyone starts at tick 0.
MCPresence == [a \in {a1, a2, a3} |-> IF a = a3 THEN 0 .. 2 ELSE 0 .. MaxTick]
MCScheduledAnchors == [a \in {a1, a2, a3} |-> IF a = a1 THEN {0, 2} ELSE {0}]
MCProtected == [a \in {a1, a2, a3} |-> IF a = a2 THEN 2 .. MaxTick ELSE {}]
=============================================================================
