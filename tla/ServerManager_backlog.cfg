SPECIFICATION FairSpec
CONSTANTS
  s1 = s1
  s2 = s2
  l1 = l1
  l2 = l2
  Server = {s1}
  Listeners = {l1}
  Fd = {f1, f2}
  ServerOf <- OneServerOf
  Outcomes <- OneOutcome
  EpollMayFail = FALSE
  HeaderUnits = 1
  MaxBlocks = 0
  MaxBacklog = 1
  MaxQueue = 1
  Timeout = 1
PROPERTY
  BacklogServed
