------------------------------ MODULE MCSortie ------------------------------
EXTENDS Playback

Roll(a, b, c) == [d \in {3000, 4500, 6000} |-> IF d = 3000 THEN a ELSE IF d = 4500 THEN b ELSE c]
MCFleet ==
  [civil |-> [wake |-> "M", srs |-> "III", occupancy |-> 6, circuit |-> 24, roll |-> Roll(2, 3, 4)],
   heavy |-> [wake |-> "H", srs |-> "III", occupancy |-> 7, circuit |-> 26, roll |-> Roll(3, 4, 5)],
   light |-> [wake |-> "S", srs |-> "II", occupancy |-> 5, circuit |-> 20, roll |-> Roll(2, 3, 4)],
   fighter |-> [wake |-> "S", srs |-> "III", occupancy |-> 6, circuit |-> 22, roll |-> Roll(2, 2, 3)]]

(* Two patterns, with two levels and one; three arrivals can be kept. *)
MCPatterns == <<<<5, 6>>, <<7, 0>>>>

Flight(id, type, departs, t) ==
  [id |-> id, type |-> type, departs |-> departs, earliest |-> t, emergency |-> FALSE]

(* Two early movements near the fighter's take-off, four near its return: up *)
(* to four arrivals, one more than can be kept waiting; in half of the       *)
(* timetables the last two have been given one callsign.                     *)
MCTimetables ==
  {<<Flight("dep1", t1, TRUE, 85), Flight("arr1", "civil", FALSE, 88)>> \o
     [i \in 1 .. 4 |-> Flight(<<"mov1", "mov2", "mov3", IF t1 = "heavy" THEN "mov3" ELSE "mov4">>[i],
                              IF i = 2 THEN t2 ELSE "civil", dep[i], 246 + step * i)] :
     t1 \in {"civil", "heavy"}, t2 \in {"light", "heavy"},
     dep \in {d \in [1 .. 4 -> BOOLEAN] : ~ d[3] /\ d[4] = d[1]}, step \in {4, 20}}

MCFixes == {"f1", "f2", "f3", "f4"}
Position == [p \in MCFixes \cup {"area"} |->
  CASE p = "area" -> <<0, 0>> [] p = "f1" -> <<2, -3>> [] p = "f2" -> <<2, -2>>
    [] p = "f3" -> <<2, 3>> [] OTHER -> <<5, 2>>]
Apart(a, b) == IF a >= b THEN a - b ELSE b - a
MCDist == [p \in (MCFixes \cup {"area"}) \X (MCFixes \cup {"area"}) |->
             Apart(Position[p[1]][1], Position[p[2]][1]) + Apart(Position[p[1]][2], Position[p[2]][2])]
MCEntries == <<"f3", "f4">>
MCBlockable == {{"area", f} : f \in {"f1", "f3", "f4"}} \cup
               {{"f1", "f3"}, {"f2", "f3"}, {"f3", "f4"}}
MCPatrolTypes == <<"fighter", "light">>
=============================================================================
