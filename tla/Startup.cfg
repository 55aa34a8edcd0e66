CONSTANTS
  Ports <- MCPorts
  Signals = {"SIGINT", "SIGTERM", "SIGQUIT"}
SPECIFICATION Spec
INVARIANTS
  LoopHearsEveryPort
  
  UndefinedOnlyIfInterrupted
PROPERTIES
  StartsOrEnds
CHECK_DEADLOCK FALSE
