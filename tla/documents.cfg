\* Requests recorded and adopted, documents exported and imported, in turns.
SPECIFICATION Spec
CONSTANTS
  Regexes <- SomeRegexes
  Files <- MCFiles
  Posted <- MCPosted
  Requests <- MCRequests
  Urls <- MCUrls
  Ignored = {"host"}
  Numbered <- MCNumbered
  Rank <- MCRank
  MaxRequests = 3
  MaxChanges = 3
CHECK_DEADLOCK FALSE
INVARIANTS
  StaticFirst
  LearntAnswered
  Documented
  ComesBack
