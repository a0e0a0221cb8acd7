SPECIFICATION Spec
CONSTANTS
  Procs = {p1, p2}
  NData = 2
  Vals = {0, 1}
  InitVal = 0
  MAXOPBLOCKS = 2
  LOGSIZE = 6
  nlog = 6
  Crowd = {q1, q2, q3}
  NCrowdData = 3
  CrowdLog = 2
INVARIANTS LogSafe
PROPERTIES AtomicGroups SleeperWoken
