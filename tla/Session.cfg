SPECIFICATION SessionSpec
CONSTANTS
    a1 = a1
    a2 = a2
    a3 = a3
    Aircraft = {a1, a2, a3}
    NoAircraft = NoAircraft
    Pairs <- MCPairs
    ExceptionOrder <- MCExceptionOrder
    ManeuverOrder <- MCManeuverOrder
    Levels = {0, 1, 2}
    Presence <- MCPresence
    ScheduledAnchors <- MCScheduledAnchors
    Protected <- MCProtected
    DeviationTicks <- MCDeviationTicks
    Interval = 2
    MaxStep = 1
    MaxAudit = 2
    MaxTick = 8
    ToConflictSteps = 3
    GenerateSteps = 1
    DecisionSteps = 2
    MaxAdvance = 2
INVARIANTS
    OneManeuverPerRun
    AppliedPairIsDecidedPair
    ResolvedShowsTheFlight
PROPERTIES
    OvertakenDecisionNeverFlies
    ImplementsReviewStages
CHECK_DEADLOCK TRUE
