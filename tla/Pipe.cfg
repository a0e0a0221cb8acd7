SPECIFICATION FairSpec
CONSTANTS
  Writers = {w1}
  Readers = {r1, r2}
  Killable = {r1}
  Bytes = {0, 1}
  PIPESIZE = 2
  UINT = 4
  Sizes = {0, 1, 3}
  NoProc = NoProc
INVARIANTS PipeSafe
PROPERTIES IsFifo EofOnlyAtEnd EofSeen
CHECK_DEADLOCK FALSE
