SPECIFICATION Spec
CONSTANTS
  alice = alice
  bob = bob
  carol = carol
  f1 = f1
  NoDevice = NoDevice
  Flows <- OneFlow
  Devices <- Trio
  Rank <- Ranks
  Scenarios <- GlareScenarios
CHECK_DEADLOCK FALSE
INVARIANT SasAgreement
