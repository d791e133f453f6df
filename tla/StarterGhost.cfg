SPECIFICATION Spec
CONSTANTS
  NoJob = NoJob
  Job = {j1}
  Worker = {w1, w2}
  Max = 1
  Strict = TRUE
  Invalid = {}
  TroubleAt = {"check"}
  OtherStatus = {}
  MaxTroubles = 1
  MaxRetry = 1
  MaxInst = 2
INVARIANT RecordedIsRegistered
