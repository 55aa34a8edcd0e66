SPECIFICATION Spec
CONSTANTS
  s1 = s1
  s2 = s2
  l1 = l1
  l2 = l2
  Server = {s1}
  Listeners = {l1}
  Fd = {f1, f2}
  ServerOf <- OneServerOf
  Outcomes <- FewOutcomes
  EpollMayFail = TRUE
  HeaderUnits = 1
  MaxBlocks = 1
  MaxBacklog = 1
  MaxQueue = 1
  Timeout = 1
SYMMETRY Symmetry
INVARIANTS
  ClientsRegistered
  SocketsListed
  EventsArrayBounded
PROPERTIES
  PendingEventUndisturbed
  FreshClientOnAccept
  ImplementsConnectionService
