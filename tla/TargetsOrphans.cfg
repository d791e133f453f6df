SPECIFICATION SpecTargets
CONSTANTS
  Request = {r1}
  Target = {1}
  TypeNames = {"large"}
  Url = {}
  Start = {"running"}
  Writers = {"manager"}
  MaxWork = 1
  MaxRunners = 2
  MaxFaults = 0
PROPERTY StopAllRunners
CHECK_DEADLOCK FALSE
