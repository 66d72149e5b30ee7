\* Posts and hangups in a row, with threads of every configuration.
SPECIFICATION Spec
CONSTANTS
  Files <- MCFiles
  Posted <- MCPosted
  Lists <- MCLists
  MaxPosts = 2
  MaxHangups = 1
  MaxMessages = 2
  MaxEvents = 4
CHECK_DEADLOCK FALSE
INVARIANTS
  OldStopped
  CountsAtHome
  AppsServe
  TotalNotAbove
PROPERTIES
  CurrentSurvive
  StoppedEnd
