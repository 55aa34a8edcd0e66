CONSTANTS
  URIs <- MCURIs
  Character = {"/", ".", "a", "b", "R", "S", "T"}
  Meaning <- MCMeaning
  Bad = {"%zz"}
  MaxURI = 10
  RouteMaps <- MCRouteMaps
  MaxLength = 6
SPECIFICATION Spec
INVARIANTS
  NoDotSegments
  NormalAsDefined
  
CHECK_DEADLOCK FALSE
