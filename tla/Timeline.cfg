SPECIFICATION FairWindowSpec
CONSTANTS
  MaxPos = 5
  PageSize = 2
  Kept = 1
  Kinds <- SomeRooms
  WindowScenarios <- SomeScenarios
  MaxErrors = 1
  MaxRestarts = 1
CHECK_DEADLOCK FALSE
INVARIANTS
  NoGapUndisturbed
PROPERTY
  FetchEnds
