CONSTANTS
  N = 2
  Http = {1, 2}
  Fallback = {1}
  Paths <- TwoPaths
  MaxEndpoints = 3
  Configs <- TwoConfigs
  Requests <- SomeRequests
  Images = {"z"}
  Idle = Idle
  Handlers = {h1}
  MaxRequests = 2
  MaxChanges = 2
SPECIFICATION Spec
INVARIANTS
  StaticFirst
CHECK_DEADLOCK FALSE
