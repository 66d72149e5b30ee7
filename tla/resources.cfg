\* Posts of whole configurations and of single services, accepted and refused,
\* and the requests to /resources between them.
SPECIFICATION Spec
CONSTANTS
  Paths <- MCPaths
  Hidden <- MCHidden
  Services <- MCServices
  HttpServices <- MCHttpServices
  Globals = 0
  Refused <- Raised
  Configs <- MCConfigs
  Disk <- MCDisk
  MaxParts = 3
  MaxPosts = 3
  MaxRequests = 2
  MaxEvents = 4
INVARIANT IndexIsPosition
PROPERTIES AbsSpec OnlyReferencedChange
CHECK_DEADLOCK FALSE
