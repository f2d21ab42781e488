CONSTANTS
  m1 = m1  m2 = m2  m3 = m3  m4 = m4
  Msgs = {m1, m2, m3, m4}
  Requests <- AllRequests
  Limit = 2
  MaxRuns = 2
  MaxFaults = 1
SPECIFICATION FairSpec
INVARIANTS TypeOK NilMeansAll 
PROPERTIES RunReturns
CHECK_DEADLOCK FALSE
