CONSTANTS
  Files <- MCFiles
  Dirs <- MCDirs
  Tags <- MCTags
  Results = {r1, r2, r3}
  Freed = Freed
  Absent = Absent
  Nobody = Nobody
  MaxItems = 1
  MaxResults = 1
  FindFileFlag = TRUE
  Contents <- MCContents
  Disks <- MCDisks
  Languages <- MCLanguages
  Queries <- MCQueries
  TagFiles <- MCTagFiles
  Failures = {"status", "silent"}
  QueueSize = 2
  MaxChanges = 1
  MaxRequests = 2
  MaxCommands = 2
SYMMETRY Addresses
SPECIFICATION LISpec
INVARIANTS
  ResultsOwned
  IndicesAgree
  FreshAtRest
  RemovedStayOut
PROPERTIES
  AnswersAreTrue
  ImplementsRelation
