SPECIFICATION Spec
CONSTANTS
    a1 = a1
    a2 = a2
    a3 = a3
    Aircraft = {a1, a2, a3}
    NoAircraft = NoAircraft
    Pairs <- MCPairs
    ExceptionOrder <- MCExceptionOrder
    ManeuverOrder <- MCManeuverOrder
    Levels = {0, 2}
    Presence <- MCPresence
    ScheduledAnchors <- MCScheduledAnchors
    Protected <- MCProtected
    Interval = 2
    MaxStep = 2
    MaxAudit = 2
    MaxTick = 3
INVARIANTS
    AnchorsAreAudited
    EvidenceInOrder
    ModifiedFlightIsClear
PROPERTIES
    OnlyAuthorisedAnchors
    ImplementsHumanAuthority
CHECK_DEADLOCK TRUE
