CONSTANTS
  Main = main
  Workers = {w1}
  Names = {n, m}
  Preset = {m}
  Dummy = dummy
  Free = free
  Raises = TRUE
  Hups = TRUE
  MaxRequests = 2
SPECIFICATION FairSpec
INVARIANTS
  OneTaskEach
  CountersConsecutive
  AtMostOneAfterKill
PROPERTIES
  KillEndsJob
  EveryTaskRendered
CHECK_DEADLOCK FALSE
