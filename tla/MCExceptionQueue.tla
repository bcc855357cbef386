-------------------------- MODULE MCExceptionQueue --------------------------
(* Constants for the exception queue: a pair that has left the sector when  *)
(* tick 4 comes, and an aircraft outside it that stays.                     *)
EXTENDS ExceptionQueue

CONSTANTS p1, f1

MCPresence == [s \in {p1, f1} |-> IF s = p1 THEN 0 .. 3 ELSE 0 .. MaxTick]
=============================================================================
