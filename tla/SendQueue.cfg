SPECIFICATION FairSpec
CONSTANTS
  m1 = m1
  m2 = m2
  Msgs = {m1, m2}
  NoMsg = NoMsg
  MaxErrors = 2
  MaxClock = 2
  MaxRestarts = 2
  SharedMillisecond = FALSE
  LostResponses = TRUE
  LimitedSyncs = TRUE
  Encrypted = TRUE
CHECK_DEADLOCK FALSE
INVARIANTS OneInFlight NoOvertaking
PROPERTIES ImplementsOutbox QueueDrains
