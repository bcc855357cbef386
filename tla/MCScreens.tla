----------------------------- MODULE MCScreens -----------------------------
(* The screens are loaded before the run, or reloaded at its conflict: from *)
(* there a modification is decided, revalidated and applied within MaxEvents *)
EXTENDS Screens

MCOpened ==
    {[stage |-> "READY", elapsed |-> 0, safe |-> FALSE],
     [stage |-> "CONFLICT_DETECTED", elapsed |-> 1, safe |-> FALSE]}
=============================================================================
