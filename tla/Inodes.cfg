SPECIFICATION Spec
CONSTANTS
  Procs = {p1, p2}
  NoProc = NoProc
  NInum = 4
  NINODE = 3
  Names = {"a", "b", "d"}
  MaxCalls = 3
  Tree <- TreeAD
  Calls <- CallsTree
INVARIANTS CacheExact LinksCover IlockOrdered
CHECK_DEADLOCK FALSE
SYMMETRY ProcSymmetry
