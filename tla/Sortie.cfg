SPECIFICATION DaySpec
CONSTANTS
  Fleet <- MCFleet
  Patterns <- MCPatterns
  Fixes <- MCFixes
  Start = "area"
  Entries <- MCEntries
  Dist <- MCDist
  MaxLeg = 6
  Blockable <- MCBlockable
  Timetables <- MCTimetables
  WindowFrom = 0
  WindowTo = 360
  Patrols = 1
  PatrolTypes <- MCPatrolTypes
  Fighter = "fighter"
  TakeoffOffset = 90
  OnStation = 120
  Pace = 3
  LeadIn = 5
INVARIANT PlaybackShowsTheDay
INVARIANT NobodyLosesTheRunway
INVARIANT HoldsAreApart
INVARIANT RecoveryIsShortest
PROPERTY PlanningEnds
CHECK_DEADLOCK FALSE
