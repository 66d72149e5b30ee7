CONSTANTS
  Loop = loop
  Callers = {}
  NoTag = NoTag
  Tags <- TwoTags
  NoLimit = NoLimit
  a = a
  b = b
  Payloads <- Mixed
  HasDataset = FALSE
  Rows <- NoRows
  TagSets <- SomeTags
  PayloadsLooped = FALSE
  RowsLooped = TRUE
  Limit = NoLimit
  Failures = {}
  MaxTagChanges = 0
  MaxSent = 4
SPECIFICATION Spec
INVARIANTS
  SentOnceIfNotLooped
CHECK_DEADLOCK FALSE
