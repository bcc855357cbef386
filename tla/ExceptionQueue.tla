--------------------------- MODULE ExceptionQueue ---------------------------
(***************************************************************************)
(* The exception queue over one shared clock: every Step refreshes it with *)
(* what it assessed, every application refreshes it again in the same      *)
(* tick, and a client of the queue's own API (in process, or its WSGI app) *)
(* acknowledges items at a time of its own choosing.  The clock's reset is *)
(* observed lazily: until the Step Orchestrator is next asked for          *)
(* anything, the queue still holds, shows and lets a client acknowledge    *)
(* the items of the old run.                                               *)
(*                                                                         *)
(* An item is kept by its subject, an aircraft pair or an aircraft.  Of an *)
(* assessment only its activity counts: above LOW, above ROUTINE.          *)
(***************************************************************************)
EXTENDS Integers

CONSTANTS
    Conflicts,    \* subjects assessed when a conflict run is due: pairs
    Priorities,   \* subjects assessed at every Step: aircraft
    Presence,     \* ticks at which a subject's aircraft are in the sector
    Interval,     \* seconds between two scheduled conflict runs
    MaxStep,      \* bound: the longest Step
    MaxResets,    \* bound: the number of runs after the first
    MaxTick       \* bound: the last tick, and the latest time a client names

Subjects == Conflicts \cup Priorities

ASSUME QueueAssumption ==
    /\ Presence \in [Subjects -> SUBSET Nat]
    /\ Interval \in Nat \ {0}
    /\ MaxStep \in Nat
    /\ MaxResets \in Nat
    /\ MaxTick \in Nat

VARIABLES
    tickCount,    \* SimulationClock: ticks completed in this run
    clockState,   \* SimulationClock: READY, RUNNING or PAUSED
    resetCount,   \* SimulationClock: resets so far
    lastSlot,     \* conflict scheduler: the last slot it ran in
    observed,     \* Step Orchestrator: the resets it has acted on
    stepTick,     \* Step Orchestrator: the tick of its last result
    items,        \* queue service: the item of each subject
    snapshotAt    \* queue service: the time of its last Snapshot

clockVars == <<tickCount, clockState, resetCount, lastSlot>>
queueVars == <<items, snapshotAt>>
serviceVars == <<clockVars, observed, stepTick, queueVars>>

Never == -1

NoItem == [status |-> "NONE", opened |-> Never, evaluated |-> Never, updated |-> Never]
NoItems == [s \in Subjects |-> NoItem]

Active == {"OPEN", "ACKNOWLEDGED"}
Times == Nat \cup {Never}

TypeOK ==
    /\ tickCount \in Nat
    /\ clockState \in {"READY", "RUNNING", "PAUSED"}
    /\ resetCount \in Nat
    /\ lastSlot \in Times
    /\ observed \in Nat
    /\ stepTick \in Times
    /\ items \in [Subjects -> [status : Active \cup {"RESOLVED", "NONE"},
                               opened : Times, evaluated : Times, updated : Times]]
    /\ snapshotAt \in Times

ServiceInit ==
    /\ tickCount = 0
    /\ clockState = "READY"
    /\ resetCount = 0
    /\ lastSlot = Never
    /\ observed = 0
    /\ stepTick = Never
    /\ items = NoItems
    /\ snapshotAt = Never

-----------------------------------------------------------------------------
(* The clock.                                                               *)

Play ==
    /\ clockState' = "RUNNING"
    /\ UNCHANGED <<tickCount, resetCount, lastSlot, observed, stepTick, queueVars>>

Pause ==
    /\ clockState = "RUNNING"
    /\ clockState' = "PAUSED"
    /\ UNCHANGED <<tickCount, resetCount, lastSlot, observed, stepTick, queueVars>>

Tick(n) ==
    /\ n > 0
    /\ clockState = "RUNNING"
    /\ tickCount + n <= MaxTick
    /\ tickCount' = tickCount + n
    /\ UNCHANGED <<clockState, resetCount, lastSlot, observed, stepTick, queueVars>>

\* The conflict scheduler observes a reset before its slot is next looked at.
ClockReset ==
    /\ resetCount < MaxResets
    /\ tickCount' = 0
    /\ clockState' = "READY"
    /\ resetCount' = resetCount + 1
    /\ lastSlot' = Never
    /\ UNCHANGED <<observed, stepTick, queueVars>>

-----------------------------------------------------------------------------
(* The queue service.                                                       *)

Synced == observed = resetCount

\* Variant: the reset drops the Step's result and forgets the queue service.
KeptBeforeStep == [items |-> items, snapshotAt |-> snapshotAt,
                   stepTick |-> IF Synced THEN stepTick ELSE Never]

\* _synchronize_reset(): what is left of the old run's state.
BeforeStep ==
    IF Synced
    THEN [items |-> items, snapshotAt |-> snapshotAt, stepTick |-> stepTick]
    ELSE [items |-> NoItems, snapshotAt |-> Never, stepTick |-> Never]

Reopened(item) == item.status \notin Active

\* Variant: a refresh opens its item again, acknowledged or not.
UpdatedUnacknowledged(item, active, t) ==
    IF active
    THEN [status |-> "OPEN", opened |-> IF Reopened(item) THEN t ELSE item.opened,
          evaluated |-> t, updated |-> t]
    ELSE IF item = NoItem
    THEN NoItem
    ELSE [status |-> "RESOLVED", opened |-> item.opened, evaluated |-> t, updated |-> t]

\* The item of a subject assessed at t.  Nothing inactive opens an item; an
\* item that is active again after it was resolved opens anew.
Updated(item, active, t) ==
    IF active
    THEN [status |-> IF Reopened(item) THEN "OPEN" ELSE item.status,
          opened |-> IF Reopened(item) THEN t ELSE item.opened,
          evaluated |-> t, updated |-> t]
    ELSE IF item = NoItem
    THEN NoItem
    ELSE [status |-> "RESOLVED", opened |-> item.opened, evaluated |-> t, updated |-> t]

\* refresh(): a subject that was not assessed keeps its item as it is.
Refreshed(kept, active, t) ==
    [s \in Subjects |-> IF s \in DOMAIN active THEN Updated(kept[s], active[s], t) ELSE kept[s]]

Present(kind, t) == {s \in kind : t \in Presence[s]}

\* Variant: an operation may bear a time before the last Snapshot's.
InTimeAlways(at, last) == TRUE

\* Operation time must not precede the last Snapshot.
InTime(at, last) == last <= at

\* The client names the time; acknowledging again moves only the Snapshot.
Acknowledge(s, at) ==
    /\ items[s].status \in Active
    /\ InTime(at, snapshotAt)
    /\ items' = IF items[s].status = "ACKNOWLEDGED"
                THEN items
                ELSE [items EXCEPT ![s].status = "ACKNOWLEDGED", ![s].updated = at]
    /\ snapshotAt' = at
    /\ UNCHANGED <<clockVars, observed, stepTick>>

-----------------------------------------------------------------------------
(* The Steps and the applications.                                          *)

Due(t) == t \div Interval > lastSlot

Assessed(t) == Present(Priorities, t) \cup (IF Due(t) THEN Present(Conflicts, t) ELSE {})

\* What a Step does before it reaches the queue: the clock ticks and the
\* conflict scheduler uses up its slot.
StepTo(t) ==
    /\ clockState = "RUNNING"
    /\ t <= MaxTick
    /\ BeforeStep.stepTick # t
    /\ tickCount' = t
    /\ lastSlot' = IF Due(t) THEN t \div Interval ELSE lastSlot
    /\ observed' = resetCount
    /\ UNCHANGED <<clockState, resetCount>>

Step(n) ==
    LET t == tickCount + n
    IN  /\ StepTo(t)
        /\ InTime(t, BeforeStep.snapshotAt)
        /\ \E active \in [Assessed(t) -> BOOLEAN] :
              items' = Refreshed(BeforeStep.items, active, t)
        /\ snapshotAt' = t
        /\ stepTick' = t

\* The queue's time is ahead of the clock: the refresh raises, after the
\* clock and the scheduler have moved, and no Step is there for the tick.
StepRefused(n) ==
    LET t == tickCount + n
    IN  /\ StepTo(t)
        /\ ~InTime(t, BeforeStep.snapshotAt)
        /\ items' = BeforeStep.items
        /\ snapshotAt' = BeforeStep.snapshotAt
        /\ stepTick' = BeforeStep.stepTick

\* A Step Orchestrator read, or asked for a Step it refuses, acts on a reset.
Observe ==
    /\ ~Synced
    /\ observed' = resetCount
    /\ items' = BeforeStep.items
    /\ snapshotAt' = BeforeStep.snapshotAt
    /\ stepTick' = BeforeStep.stepTick
    /\ UNCHANGED clockVars

\* An applied manoeuvre: everything present is assessed again, pairs out of
\* slot, in the tick of the Step.
Reassess ==
    /\ Synced
    /\ clockState = "RUNNING"
    /\ stepTick = tickCount
    /\ InTime(tickCount, snapshotAt)
    /\ \E active \in [Present(Subjects, tickCount) -> BOOLEAN] :
          items' = Refreshed(items, active, tickCount)
    /\ snapshotAt' = tickCount
    /\ UNCHANGED <<clockVars, observed, stepTick>>

ServiceNext ==
    \/ Play
    \/ Pause
    \/ \E n \in 1 .. MaxStep : Tick(n)
    \/ ClockReset
    \/ \E n \in 0 .. MaxStep : Step(n)
    \/ \E n \in 0 .. MaxStep : StepRefused(n)
    \/ Observe
    \/ Reassess
    \/ \E s \in Subjects, at \in 0 .. MaxTick : Acknowledge(s, at)

ServiceSpec == ServiceInit /\ [][ServiceNext]_serviceVars

-----------------------------------------------------------------------------
(* Properties.                                                              *)

\* What the constructors of item and Snapshot insist on, over any order of
\* Steps, applications, client-dated acknowledgements and resets: an item is
\* opened, evaluated and updated in this order, none after the Snapshot.
ItemsInOrder ==
    \A s \in Subjects : items[s].status # "NONE" =>
        /\ 0 <= items[s].opened
        /\ items[s].opened <= items[s].evaluated
        /\ items[s].evaluated <= items[s].updated
        /\ items[s].updated <= snapshotAt

\* While an item stays active it is one episode: it keeps its opening time,
\* and an acknowledgement once given is kept through every refresh.
AcknowledgementHolds ==
    [][\A s \in Subjects :
          observed' = observed /\ items[s].status \in Active /\ items'[s].status \in Active =>
              /\ items'[s].opened = items[s].opened
              /\ items[s].status = "ACKNOWLEDGED" => items'[s].status = "ACKNOWLEDGED"]_serviceVars

\* The step that acts on a reset leaves nothing of the old run: what the
\* queue holds after it was opened by it, whatever was acknowledged between.
NewRunForgetsTheOld ==
    [][observed' # observed =>
          \A s \in Subjects : items'[s] = NoItem \/ items'[s].opened = tickCount']_serviceVars

\* Once the reset is acted on, no Step result is ahead of the clock, so that
\* no tick of the new run is taken for one that already has its Step.
StepOfThisRun == Synced => stepTick <= tickCount

\* The Snapshot is never older than the Step's own result in the same run.
SnapshotCoversStep == stepTick <= snapshotAt

=============================================================================
