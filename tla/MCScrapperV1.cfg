CONSTANTS
  t1 = t1  t2 = t2  i1 = i1  i2 = i2  i3 = i3  w1 = w1  w2 = w2  w3 = w3
  Tasks = {t1, t2}
  Items = {i1, i2, i3}
  TaskOf <- TwoAndOne
  NoItem = NoItem
  MaxLooks = 1
  Jobs <- TwoJobs
  Kinds = {"imgs", "vids", "msg"}
  TypeOf <- TwoImages
  Subs = {s1, s2}
  Workers = {w1, w2, w3}
  QueueOf <- ThreeQueues
  Cap = 2
  Afters = {"close"}
SPECIFICATION Spec
INVARIANTS TypeOK HeldOnce OrderKept RaceNeedsLaterJob NeverStuck
CHECK_DEADLOCK FALSE
