SPECIFICATION FairSpec
CONSTANTS
  PipeCapacity = 3
  BufferSize = 2
  Bodies <- MCSizes
  Outputs <- MCSizes
INVARIANTS
  ReturnsClean
  
  WaitsOnlyForLiveChild
  NoMutualWait
PROPERTY
  CgiEnds
CHECK_DEADLOCK FALSE
