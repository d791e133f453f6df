CONSTANTS
  Runner = {1}
  Max = 1
  MaxDeleteRetry = 10
  DeletingTimeout = 180
  Strict = TRUE
  Versions = {FALSE}
  PerPage = 1
  TroubleAt = {"destroy"}
  OtherStatus = {}
  MaxTroubles = 8
SPECIFICATION FairSpec
PROPERTY RetriesSuffice
