CONSTANTS
  Pollables = {"client", "rpc"}
  NoPollable = NoPollable
  CommandUnits = 2
  ReplyUnits = 3
SPECIFICATION RPCFairSpec
INVARIANTS
  CallbacksFreedOnce
  NothingUsedAfterDelete
PROPERTIES
  WholeReply
  EndedCallReports
CHECK_DEADLOCK FALSE
