SPECIFICATION Spec
CONSTANTS
  m1 = m1
  m2 = m2
  Msgs = {m1, m2}
  NoMsg = NoMsg
  MaxErrors = 1
  MaxClock = 1
  MaxRestarts = 0
  SharedMillisecond = FALSE
  LostResponses = TRUE
  LimitedSyncs = FALSE
  Encrypted = FALSE
CHECK_DEADLOCK FALSE
INVARIANT PendingRepliesResolved
