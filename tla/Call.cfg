SPECIFICATION FairSpec
CONSTANTS
  in1 = in1
  in2 = in2
  out1 = out1
  out2 = out2
  Incoming = {in1, in2}
  Outgoing = {out1, out2}
  NoCall = NoCall
  MaxCalls = 2
CHECK_DEADLOCK FALSE
INVARIANTS
  PipelineIsCurrent
  OtherSideTold
PROPERTY
  RingingEnds
