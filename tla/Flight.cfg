CONSTANTS
  Near = 60
  NearMargin = 75
  Below = 10
  BelowMargin = 12
  CriticalTime = 2
  HighTime = 8
  HeadingChange = 1
  AltitudeChange = 10
  SpeedChange = 1
  AssignmentStep = 10
  ExecutionTime = 4
  MinimumAltitude = 75
  MaxSpeedChange = 1
  ValidationHorizon = 8
  MaxRecommendations = 3
  Aircraft <- MCAircraft
  Scenarios <- MCScenarios
  Presence <- MCPresence
  Performance <- MCPerformance
  Events <- MCEvents
  Interval = 2
  AssessmentHorizon = 8
  Horizons = {2, 4}
  StepSizes = {0, 1, 3}
  MaxTick = 8
SPECIFICATION Spec
INVARIANT VerdictHoldsInFlight
INVARIANT PredictionIsFlown
INVARIANT EventsAgree
INVARIANT EvidenceIsAccepted
INVARIANT RecommendedCanBeOrdered
PROPERTY ConflictEscalates
