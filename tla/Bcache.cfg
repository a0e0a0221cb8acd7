SPECIFICATION FairSpec
CONSTANTS
  Procs = {p1, p2}
  NBUF = 2
  Blocks = {k1, k2, k3}
  Faulty = {k1}
  Vals = {0, 1}
  NoProc = NoProc
  NoBlock = NoBlock
INVARIANTS BuffersSafe
PROPERTIES IsBlockStore SleepersWoken
