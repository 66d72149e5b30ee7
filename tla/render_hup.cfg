CONSTANTS
  Main = main
  Workers = {}
  Names = {n}
  Preset = {}
  Dummy = dummy
  Free = free
  Raises = FALSE
  Hups = TRUE
  MaxRequests = 2
SPECIFICATION FairSpec
PROPERTIES
  HupRestarts
CHECK_DEADLOCK FALSE
