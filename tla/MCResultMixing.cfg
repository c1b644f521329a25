CONSTANTS
  Conns = {c1, c2, c3}
  Main = Main
  NoThread = NoThread
SPECIFICATION FairSpec
INVARIANTS
  NothingUsedAfterDelete
  NothingLeaks
PROPERTIES
  AnswersOnce
  FirstResultSuffices
  AllFailuresAnswer
CHECK_DEADLOCK FALSE
