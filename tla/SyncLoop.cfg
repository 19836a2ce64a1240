SPECIFICATION FairSpec
CONSTANTS
  MaxPos = 2
  Copies = 2
  MaxErrors = 1
  MaxRestarts = 1
  MaxLogins = 1
  FaultSets <- FaultsTogether
CHECK_DEADLOCK FALSE
INVARIANTS
  SavedIsPrefix
  LoopSurvives
  ToDeviceOnce
PROPERTY
  CatchesUp
