SPECIFICATION ScreensSpec
CONSTANTS
    Seconds = {0, 1}
    Observed = {"MONITORING", "CONFLICT_DETECTED"}
    Duration = 2
    Pace = 1
    Stops = {1}
    CommandSeconds = 0
    Opened <- MCOpened
    MaxEvents = 3
INVARIANTS
    PersonKeepsThePause
PROPERTIES
    OrderedAnswersResumeAfterTheChain
    GateIsLeft
    ScreensCatchUp
CHECK_DEADLOCK TRUE
