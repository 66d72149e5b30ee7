CONSTANTS
  r1 = r1
  r2 = r2
  Readers = {r1, r2}
  Shared = Shared
  Backends <- AllBackends
  Kinds <- AllKinds
  Raising <- RaisingKinds
  Consumers <- Overlapping
  Stream <- Mixed
  Published <- FewerIfRepeated
  Starts <- OneOrTwo
  Beyond <- NoneOrSecond
  MaxDeletes = 1
  MaxReturns = 1
  MaxUnfinished = 1
SPECIFICATION FairSpec
INVARIANTS
  CaptureKept
  DeathHasCause
  AtMostOneAfterStop
  CapturedOnce
PROPERTIES
  ListsCapture
  EachHandled
CHECK_DEADLOCK FALSE
