SPECIFICATION Spec
CONSTANTS
  Pairs = {1, 2}
  Outcomes <- MCOutcomes
  Presence <- MCPresence
  Urgent = {1, 2, 3, 4, 5}
  DeviationAt = 1
  DeviationTarget = {1, 2, 3, 4, 5}
  Candidates = {1, 2}
  Interval = 2
  MaxTick = 4
  External = TRUE
  Control = "local"
  ToConflict = 2
  Generate = 1
  Decide = 1
  AdvanceSteps = {0, 1}
  Flaws = {"none", "query", "tooLarge", "fields"}
  MaxRuns = 1
VIEW WithoutTheAnswer
INVARIANT
  ViewTellsOneStory
PROPERTIES
  PrimaryConflictIsKept
  OnlyCommandsChangeTheView
  RetriesAreRefused
CHECK_DEADLOCK FALSE
