CONSTANTS
  PageSize = 2  MaxDialogs = 2  MaxTopics = 4  MaxFaults = 1
SPECIFICATION FairSpec
INVARIANTS ListIsComplete
PROPERTIES ListEnds
CHECK_DEADLOCK FALSE
