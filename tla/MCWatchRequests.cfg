CONSTANTS
  r = r
  s = s
  st = st
  t = t
  Paths <- MCPaths
  NoName = NoName
  NamePrefixes <- MCNamePrefixes
  InitialTrees <- MCInitialTrees
  MaxChanges = 3
  Requests <- MCRequests
  MaxRequests = 2
  QueueSize = 2
SPECIFICATION WRSpec
INVARIANTS
  PathMapSound
  WatchedAtRest
  ChangesQueuedAtRest
  ExcludesLocal
CHECK_DEADLOCK FALSE
