CONSTANTS
  t1 = t1  t2 = t2  i1 = i1  i2 = i2  i3 = i3
  Tasks = {t1, t2}
  Items = {i1, i2, i3}
  TaskOf <- TwoAndOne
  NoItem = NoItem
  MaxLooks = 1
SPECIFICATION Spec
INVARIANTS NoIncrementLost
CHECK_DEADLOCK FALSE
