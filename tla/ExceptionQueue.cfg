SPECIFICATION ServiceSpec
CONSTANTS
    p1 = p1
    f1 = f1
    Conflicts = {p1}
    Priorities = {f1}
    Presence <- MCPresence
    Interval = 2
    MaxStep = 2
    MaxResets = 1
    MaxTick = 4
INVARIANTS
    ItemsInOrder
    SnapshotCoversStep
PROPERTIES
    AcknowledgementHolds
    NewRunForgetsTheOld
CHECK_DEADLOCK TRUE
