CONSTANTS
  Requests <- MCRequests
  NodesAt <- MCNodesAt
  PageCodes = {403, 404, 500}
  PageBuffer = 2
  GeneratedSize = 2
  ListingSize = 3
  ScriptStatuses = {200, 302, 404}
  ScriptSizes = {0, 2}
  IntMax = 3
  MaxChanges = 1
SPECIFICATION Spec
INVARIANTS
  
  
  ErrorPageIsError
  StatusIsExpected
