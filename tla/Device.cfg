SPECIFICATION FairSpec
CONSTANTS
  s1 = s1
  s2 = s2
  Sessions = {s1, s2}
  MaxStarts = 3
  MaxOnetimeKeys = 2
  MaxClaims = 3
  MaxRuns = 2
  MaxMishaps = 1
  MaxKeyId = 30
  MaxSessions = 3
  MaxOnTheWay = 2
  MaxBreaks = 2
  MaxRounds = 1
  MaxGenerations = 2
  MaxTroubles = 1
  DeviceScenarios <- AllScenarios
CHECK_DEADLOCK FALSE
INVARIANTS
  StampedIsMigrated
  KeysKept
  LatestReadable
  SecretsFit
PROPERTIES
  NothingLost
  EnoughKeys
  Heals
 
