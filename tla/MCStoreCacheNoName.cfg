CONSTANTS
  j1 = j1  j2 = j2  i1 = i1  i2 = i2  n1 = n1  n2 = n2  a1 = a1  a2 = a2
  s1 = s1  s2 = s2  w1 = w1  w2 = w2
  Jobs = {j1, j2}
  Items = {i1, i2}
  ItemsOf <- Separate
  NoName = NoName
  AcOf <- Accounts
  Root = Root
  Dst <- OneStore
  Workers = {w1, w2}
  Setups <- Nameless
  MaxFaults = 0
  MaxCrashes = 0
SPECIFICATION Spec
PROPERTIES SkipMeansSaved
CHECK_DEADLOCK FALSE
