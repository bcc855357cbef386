SPECIFICATION AdviceSpec
CONSTANTS
  Footprint <- MCFootprint
  ControlZone <- MCControlZone
  Legs <- MCLegs
  Apron <- MCApron
  Area = "MOA2L"
  AreaBand <- MCBand
  LastTick = 8
  Others <- MCOthers
  Patrol = "f"
  Type <- MCType
  Remaining = {4, 9}
  Away <- MCAway
  Fleet <- MCFleet
  Patterns <- MCPatterns
INVARIANT EmergencyNeverMovesBack
CHECK_DEADLOCK FALSE
