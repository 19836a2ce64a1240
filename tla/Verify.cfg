SPECIFICATION LiveSpec
CONSTANTS
  alice = alice
  bob = bob
  carol = carol
  f1 = f1
  NoDevice = NoDevice
  Flows <- OneFlow
  Devices <- Trio
  Rank <- Ranks
  Scenarios <- SomeScenarios
CHECK_DEADLOCK FALSE
INVARIANTS
  SasAgreement
  TrustNeedsConsent
  OneResponder
PROPERTY
  Completes
