CONSTANTS
  Clients = {c1, c2}
  Listener = Listener
  Phantom = Phantom
  NoOne = NoOne
  NoPollable = NoPollable
  Pollables <- MCPollables
  Fds = {0, 1, 2}
  InitialFds = 2
  ResponseUnits = 2
SPECIFICATION MSFairSpec
INVARIANTS
  DescriptorsOwned
  NothingUsedAfterDelete
  EventReachesItsDescriptor
PROPERTIES
  LineExecuted
  ResponseDelivered
CHECK_DEADLOCK FALSE
