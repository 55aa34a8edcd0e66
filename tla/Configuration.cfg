CONSTANTS
  Files <- MCFiles
  Path = {"/a", "/b", "/c"}
  Port = {1, 2, 3}
  MinPort = 2
  MaxPort = 3
SPECIFICATION Spec
INVARIANTS
  
  CanListen
  LoopRejectedHasCause
CHECK_DEADLOCK FALSE
