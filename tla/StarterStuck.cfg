SPECIFICATION FairSpec
CONSTANTS
  NoJob = NoJob
  Job = {j1}
  Worker = {w1, w2}
  Max = 1
  Strict = FALSE
  Invalid = {}
  TroubleAt = {"stop"}
  OtherStatus = {}
  MaxTroubles = 1
  MaxRetry = 1
  MaxInst = 1
PROPERTY StopLeadsToRestart
CHECK_DEADLOCK FALSE
