------------------------------ MODULE MCAdvice ------------------------------
EXTENDS ApproachAdvice

(* Cells of the plan, named for the volumes whose footprint they lie in. *)
MCFootprint ==
  [T17 |-> {"field", "corridor"}, CTR_CORE |-> {"field"}, RING_5_10 |-> {"ring", "south"},
   SEONGMU |-> {"south"}, T17_UPPER |-> {"field", "corridor"}, T18 |-> {}, T19 |-> {"east", "ring", "south"},
   T20 |-> {}, MOA2L |-> {"moa", "east"}]
MCControlZone == {"field"}
MCBand == [lower |-> 32, upper |-> 90]

At(c, l) == [cell |-> c, level |-> l]
MCApron == At("field", 2)
(* Out by the corridor, at T17's limit and across it, to the area and above *)
(* it, home by the east or the excluded zone.                               *)
Track ==
  <<<<At("field", 2), At("field", 60)>>, <<At("field", 60), At("corridor", 65)>>,
    <<At("field", 60), At("corridor", 150)>>, <<At("corridor", 65), At("corridor", 66)>>,
    <<At("corridor", 66), At("field", 65)>>, <<At("corridor", 66), At("moa", 80)>>,
    <<At("corridor", 150), At("moa", 80)>>, <<At("moa", 80), At("east", 25)>>,
    <<At("moa", 80), At("moa", 100)>>, <<At("moa", 100), At("field", 65)>>,
    <<At("east", 25), At("south", 25)>>, <<At("south", 25), At("field", 2)>>,
    <<At("field", 65), At("field", 2)>>>>
MCLegs == {Track[i] : i \in DOMAIN Track}

Roll == [d \in {3000, 4500, 6000} |-> 3]
MCFleet ==
  [heavy |-> [wake |-> "H", srs |-> "III", occupancy |-> 7, circuit |-> 26, roll |-> Roll],
   fighter |-> [wake |-> "S", srs |-> "III", occupancy |-> 6, circuit |-> 22, roll |-> Roll]]
MCType == [c1 |-> "heavy", c2 |-> "fighter", f |-> "fighter"]
MCAway == [field |-> 2, corridor |-> 8, ring |-> 4, south |-> 5, east |-> 9, moa |-> 20]
MCOthers == <<"c1", "c2">>
MCPatterns == <<<<5, 0>>>>
=============================================================================
