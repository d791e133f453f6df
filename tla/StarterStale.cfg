SPECIFICATION Spec
CONSTANTS
  NoJob = NoJob
  Job = {j1}
  Worker = {w1, w2}
  Max = 1
  Strict = FALSE
  Invalid = {}
  TroubleAt = {}
  OtherStatus = {}
  MaxTroubles = 0
  MaxRetry = 1
  MaxInst = 2
INVARIANT AddsOnlyQueuedJobs
