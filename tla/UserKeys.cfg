SPECIFICATION FairSpec
CONSTANTS
  d1 = d1
  d2 = d2
  k1 = k1
  k2 = k2
  c1 = c1
  c2 = c2
  NoKey = NoKey
  Devices = {d1}
  Keys = {k1, k2}
  Callers = {c1, c2}
  Histories <- SomeHistories
  MaxTokens = 2
  MaxUses = 2
  MaxErrors = 1
  Scenarios <- SomeScenarios
CHECK_DEADLOCK FALSE
INVARIANTS
  UpToDateIsCurrent
  StatusIsCurrent
PROPERTIES
  CallersAnswered
  ChangesFetched
