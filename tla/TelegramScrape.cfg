CONSTANTS
  MaxMsgs = 3  MaxClock = 2  Limit = 2  Delta = 1
  Names = {a, b}
  Feeders = {f1, f2}  Workers = {w1}
  MaxFaults = 1  MaxCrashes = 1
SPECIFICATION FairSpec
INVARIANTS TypeOK SentOnce
PROPERTIES EventuallyForwarded
CHECK_DEADLOCK FALSE
