CONSTANTS
  Procs = {p1, p2}  NoProc = NoProc
  MaxCodes = 3  MaxFaults = 2
SPECIFICATION Spec
INVARIANTS TypeOK HashIsNewest
PROPERTIES NewestCodeSignsIn
CHECK_DEADLOCK FALSE
