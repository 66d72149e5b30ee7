CONSTANTS
  Loop = loop
  Callers = {c1}
  NoTag = NoTag
  Tags <- TwoTags
  NoLimit = NoLimit
  a = a
  b = b
  Payloads <- Mixed
  HasDataset = TRUE
  Rows <- OneRow
  TagSets <- SomeTags
  PayloadsLooped = FALSE
  RowsLooped = TRUE
  Limit = 2
  Failures = {"refused", "raised"}
  MaxTagChanges = 1
  MaxSent = 0
SPECIFICATION FairSpec
INVARIANTS
  IndexSafeAtRest
  LoopWithinLimit
  AtMostOneAfterStop
  NeverOvercounted
  OnlyActiveSent
  InConfiguredOrder
PROPERTIES
  ProduceEnds
CHECK_DEADLOCK FALSE
