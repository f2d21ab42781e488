CONSTANTS
  PageSize = 3  DefaultSize = 3  DefaultLimit = 2  MaxRetries = 2
  Calls <- AllCalls
  MaxFiles = 3  BufferSize = 2
SPECIFICATION FairSpec
INVARIANTS TypeOK LimitNearlyKept
PROPERTIES FedIsWanted
CHECK_DEADLOCK FALSE
