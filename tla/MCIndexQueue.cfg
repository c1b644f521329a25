CONSTANTS
  watcher = watcher
  worker = worker
  Agent = agent
  Threads = {watcher, worker, agent}
  Values = {v1, v2, v3}
  Capacity = 2
  Roles <- MCRoles
  NoThread = NoThread
  NoValue = NoValue
  IndexerMayFail = TRUE
SPECIFICATION IQFairSpec
INVARIANTS
  NamesOwnedOnce
PROPERTIES
  PutWakesAgent
  TakenIsFreed
CHECK_DEADLOCK FALSE
