CONSTANTS
  NumTiles = 2
  NumCores = 2
  NumECores = 1
  PauseClocks = 2
  BusySteps = 2
  MaxWork = 1
SPECIFICATION FairSpec
INVARIANTS
  TypeOK
  BusyCoversActive
PROPERTIES
  CoresKeepStates
  ClockReturns
  PausedResume
  ActiveStepped
