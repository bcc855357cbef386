--------------------------- MODULE HumanAuthority ---------------------------
(***************************************************************************)
(* What the decision chain promises, whoever calls it and in which order:  *)
(* the program proposes, a controller decides, and only what is decided    *)
(* flies.  A grant names one aircraft and one instant.  It is good for one *)
(* manoeuvre at that instant and lapses when time moves on unused.         *)
(***************************************************************************)
EXTENDS Integers

CONSTANT Aircraft

VARIABLES
    now,      \* the instant of the run
    granted,  \* the controller's authority: at most one grant
    flown     \* the manoeuvres that were given to aircraft

haVars == <<now, granted, flown>>

Grants == [aircraft : Aircraft, tick : Nat]

Init ==
    /\ now = 0
    /\ granted = {}
    /\ flown = {}

\* Time passes, or not; authority not used may be withdrawn.
Elapse ==
    /\ now' \in Nat /\ now' >= now
    /\ granted' \in {granted, {}}
    /\ UNCHANGED flown

\* The controller grants one aircraft a manoeuvre, for this instant.
Grant(a) ==
    /\ now' \in Nat /\ now' >= now
    /\ granted' = {[aircraft |-> a, tick |-> now']}
    /\ UNCHANGED flown

\* A granted manoeuvre is flown, at its instant, and it is the only one then.
Fly(g) ==
    /\ g \in granted
    /\ g.tick = now
    /\ \A f \in flown : f.tick # now
    /\ flown' = flown \cup {g}
    /\ UNCHANGED <<now, granted>>

\* A new run starts from nothing.
NewRun ==
    /\ now' = 0
    /\ granted' = {}
    /\ flown' = {}

Next ==
    \/ Elapse
    \/ \E a \in Aircraft : Grant(a)
    \/ \E g \in granted : Fly(g)
    \/ NewRun

Spec == Init /\ [][Next]_haVars

=============================================================================
