SPECIFICATION Spec
CONSTANTS
  Procs = {p1, p2}
  NoProc = NoProc
  NInum = 4
  NINODE = 3
  Names = {"a", "b", "d"}
  MaxCalls = 2
  Tree <- TreeAD
  Calls <- CallsCreate
INVARIANTS NoLockCycle
CHECK_DEADLOCK FALSE
