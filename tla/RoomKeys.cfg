SPECIFICATION Spec
CONSTANTS
  me = me
  you = you
  own = own
  mine = mine
  yours1 = yours1
  yours2 = yours2
  Users = {me, you}
  Devices = {own, mine, yours1, yours2}
  Owner <- Owners
  Own = own
  Verified = {mine, yours1}
  Period = 2
  MaxSessions = 3
  MaxSent = 3
  MaxChanges = 2
  MaxFaults = 1
  Scenarios <- SomeScenarios
CHECK_DEADLOCK FALSE
INVARIANTS
  IndexUsedOnce
  OnlyListedRead
  KeyFirst
  RequestsRecover
