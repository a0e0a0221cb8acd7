SPECIFICATION Spec
CONSTANTS
  Procs = {p1, p2, p3}
  NData = 3
  Vals = {0}
  InitVal = 0
  MAXOPBLOCKS = 1
  LOGSIZE = 3
  nlog = 3
INVARIANTS NoPanic
