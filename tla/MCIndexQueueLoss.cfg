CONSTANTS
  watcher = watcher
  worker = worker
  Agent = agent
  Threads = {watcher, worker, agent}
  Values = {v1, v2, v3}
  Capacity = 2
  Roles <- MCRoles
  NoThread = NoThread
  NoValue = NoValue
  IndexerMayFail = FALSE
SPECIFICATION IQFairSpec
PROPERTIES
  EveryRequestIndexed
CHECK_DEADLOCK FALSE
