SPECIFICATION FairSpec
CONSTANTS
  s1 = s1
  s2 = s2
  l1 = l1
  l2 = l2
  Server = {s1}
  Listeners = {l1}
  Fd = {f1}
  ServerOf <- OneServerOf
  Outcomes <- AllOutcomes
  EpollMayFail = FALSE
  HeaderUnits = 2
  MaxBlocks = 2
  MaxBacklog = 1
  MaxQueue = 2
  Timeout = 2
INVARIANTS
  NoOrphanSocket
  ResponseSentWhole
  ReaderNotComplete
PROPERTIES
  ResponseEnds
  PeerGoneCloses
  SilentPeerCloses
