CONSTANTS
  Runner = {1, 2}
  Max = 1
  MaxDeleteRetry = 1
  DeletingTimeout = 2
  Strict = TRUE
  Versions = {TRUE, FALSE}
  PerPage = 2
  TroubleAt = {"destroy", "lost", "crash", "stop"}
  OtherStatus = {"deleted"}
  MaxTroubles = 1
SPECIFICATION Spec
INVARIANTS TypeOK RemovalsBounded NoJobKilled NothingLeft ReasonHolds
