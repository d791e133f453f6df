SPECIFICATION FairSpec
CONSTANTS
  NoJob = NoJob
  Job = {j1, j2}
  Worker = {w1, w2}
  Max = 1
  Strict = TRUE
  Invalid = {j2}
  TroubleAt = {"list", "check", "drop", "reject"}
  OtherStatus = {}
  MaxTroubles = 2
  MaxRetry = 0
  MaxInst = 1
INVARIANT StrictRow
PROPERTY EveryJobLeavesQueue SlotsComeBack
