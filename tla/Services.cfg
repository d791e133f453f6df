SPECIFICATION Spec
CONSTANTS
  Request = {r1, r2}
  Target = {1, 2}
  TypeNames = {"large", "huge"}
  Url = {"u"}
  Start = {"none", "active", "deleted"}
  Writers = {"starter", "manager"}
  MaxWork = 2
  MaxRunners = 1
  MaxFaults = 1
  Server = {s1, s2}
  MaxIdle = 2
  MaxLoad = 3
  MaxStarts = 3
  Scope = {1, 2}
  Life = 4
  Need = 2
  MaxTrouble = 3
  Setup = {1, 2}
  Lives = {1, 2, 5}
  Margin = 2
  Default = 5
  Caller = {c1, c2}
  MaxChanges = 1
  MaxAsked = 2
  GhJob = {j1, j2}
  Labelled = {j1}
  MaxUpsets = 2
INVARIANTS
  TypeOK
  OneServer
  ExpiryExplained
  HandedTokenLives
  CreationSeesFresh
  OnlyLabelled
PROPERTIES
  OneTargetPerScope
  DeletedStaysDeleted
  AnsweredAsAsked
  RunningSettles
  StandbyTakesOver
  ExpiredIsRenewed
  QueuedRunsIgnored
  RightTarget
  LostIsRescued
CHECK_DEADLOCK FALSE
