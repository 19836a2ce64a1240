SPECIFICATION Spec
CONSTANTS
  e1 = e1
  e2 = e2
  e3 = e3
  NoEvent = NoEvent
  Events = {e1, e2, e3}
  At <- Indexes
  MaxIndex = 1
  MaxKeys = 3
  MaxUses = 2
  Scenarios <- SomeScenarios
CHECK_DEADLOCK FALSE
INVARIANTS
  VerdictIsFresh
  OneEventPerIndex
  TrustIsOfSession
