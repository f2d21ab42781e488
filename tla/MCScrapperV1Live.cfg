CONSTANTS
  t1 = t1  t2 = t2  i1 = i1  i2 = i2  i3 = i3  w1 = w1  w2 = w2  w3 = w3
  Tasks = {t1, t2}
  Items = {i1, i2}
  TaskOf <- OneEach
  NoItem = NoItem
  MaxLooks = 1
  Jobs <- TwoJobs
  Kinds = {"imgs", "vids", "msg"}
  TypeOf <- Images
  Subs = {s1}
  Workers = {w1, w2, w3}
  QueueOf <- ThreeQueues
  Cap = 1
  Afters = {"wait", "close"}
SPECIFICATION FairSpec
INVARIANTS CloseAfterFeeders
PROPERTIES CommandEnds ClosedDrains
CHECK_DEADLOCK FALSE
