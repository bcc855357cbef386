----------------------------- MODULE MCGateway -----------------------------
(***************************************************************************)
(* Gateway for TLC: one pair that may become and stop being a conflict,    *)
(* a second one that leaves the sector, one or no safe candidate.          *)
(***************************************************************************)
EXTENDS Gateway

MCOutcomes ==
  {[level |-> "LOW", tcpa |-> 0, separation |-> 9],
   [level |-> "CRITICAL", tcpa |-> 1, separation |-> 2]}
\* The last answer has no say in what comes next.
WithoutTheAnswer == <<session, executed>>

MCPresence == <<2 .. 9, {2, 3}>>
=============================================================================
