SPECIFICATION Spec
CONSTANTS
  NoJob = NoJob
  Job = {j1, j2}
  Worker = {w1, w2}
  Max = 1
  Strict = FALSE
  Invalid = {}
  TroubleAt = {"mark", "add", "lost", "save", "delete", "crash", "stop"}
  OtherStatus = {"deleted"}
  MaxTroubles = 2
  MaxRetry = 2
  MaxInst = 1
SYMMETRY JobSymmetry
INVARIANT TypeOK SlotsMatchWorkers InProgressExact OneWorkerPerJob RetryCountFresh NoJobLost NoLostWakeup
PROPERTY ImplementsLifecycle
CHECK_DEADLOCK FALSE
