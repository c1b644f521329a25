CONSTANTS
  p1 = p1
  p2 = p2
  c1 = c1
  Threads = {p1, p2, c1}
  Values = {v1, v2, v3}
  Capacity = 2
  Roles <- MCRoles
  NoThread = NoThread
  NoValue = NoValue
SPECIFICATION FairSpec
INVARIANTS
  TokensConserved
  NeverPopsEmpty
  NoLostWakeup
PROPERTIES
  FifoOrder
  EveryValueTaken
CHECK_DEADLOCK FALSE
