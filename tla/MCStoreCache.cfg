CONSTANTS
  j1 = j1  j2 = j2  i1 = i1  i2 = i2  n1 = n1  n2 = n2  a1 = a1  a2 = a2
  s1 = s1  s2 = s2  w1 = w1  w2 = w2
  Jobs = {j1, j2}
  Items = {i1, i2}
  ItemsOf <- Resubmitted
  NoName = NoName
  AcOf <- Accounts
  Root = Root
  Dst <- BothStores
  Workers = {w1, w2}
  Setups <- AllSetups
  MaxFaults = 1
  MaxCrashes = 1
SPECIFICATION FairSpec
INVARIANTS TypeOK CachedIsStored CopiesBounded
PROPERTIES HitMeansFound FedGetsStored
CHECK_DEADLOCK FALSE
