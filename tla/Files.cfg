SPECIFICATION BothSpec
CONSTANTS
  p1 = p1
  p2 = p2
  NoProc = NoProc
  Users = {p1, p2}
  initproc = p1
  NFILE = 3
  NOFILE = 2
  NPipes = 1
  NBlocks = 5
  NDIRECT = 1
  BSIZE = 2
  MaxChunk = 3
  Sizes = {2, 4}
  Width = 3
INVARIANTS CountsExact ContentsExact
PROPERTIES AppendOnly
