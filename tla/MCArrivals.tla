----------------------------- MODULE MCArrivals -----------------------------
EXTENDS ArrivalSequence

(* A heavy, a medium and two light aircraft; of these one is a formation  *)
(* and slow on final.                                                       *)
MCArriving == {"a", "b", "c", "d"}
MCKind ==
  [a |-> [wake |-> "H", formation |-> FALSE, pace |-> 3, cruise |-> 2, occupancy |-> 7],
   b |-> [wake |-> "M", formation |-> FALSE, pace |-> 3, cruise |-> 2, occupancy |-> 6],
   c |-> [wake |-> "S", formation |-> FALSE, pace |-> 2, cruise |-> 1, occupancy |-> 5],
   d |-> [wake |-> "S", formation |-> TRUE, pace |-> 4, cruise |-> 3, occupancy |-> 5]]
MCLadder == <<3, 4, 5>>
=============================================================================
