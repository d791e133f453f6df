CONSTANTS
  Runner = {1, 2}
  Max = 1
  MaxDeleteRetry = 1
  DeletingTimeout = 2
  Strict = TRUE
  Versions = {FALSE}
  PerPage = 1
  TroubleAt = {}
  OtherStatus = {"running"}
  MaxTroubles = 1
SPECIFICATION Spec
INVARIANT NoJobKilled
