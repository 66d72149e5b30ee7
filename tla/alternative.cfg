CONSTANTS
  NoTag = NoTag
  Empty = Empty
  a = a
  b = b
  Tags <- TwoTags
  TagSets <- AnyTags
  Alternatives <- SomeAlternatives
  MaxAnswers = 5
  MaxChanges = 2
SPECIFICATION Spec
INVARIANTS
  LoopIsTheCode
  NonLoopedOnce
  InConfiguredOrder
PROPERTIES
  ExhaustedStays
CHECK_DEADLOCK FALSE
