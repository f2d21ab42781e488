CONSTANTS
  Beats = {b1, b2}
  Callers = {u1}
  MaxDrops = 2
  MaxFaults = 2
SPECIFICATION FairSpec
INVARIANTS TypeOK ClientsBounded CrashNeedsFailure
PROPERTIES DeadIsReplaced
CHECK_DEADLOCK FALSE
