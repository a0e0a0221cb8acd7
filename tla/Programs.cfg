CONSTANTS
  MemProcs = {m1, m2, m3}
  NPages = 18
  PGSIZE = 2
  UserTop = 8
  NPTENTRIES = 2
  Words = 8
  KERNBASE = 4
  IntSize = 2
  MAXARGS = 3
  MaxLine = 5
  MaxHijos = 2
  HeapTop = 10
  MinCore = 3
  MaxUnits = 4
  MAX_THREAD = 4
  NumExecs = 2
  MaxCreated = 5
  BufSize = 4
  MaxFile = 6
  MaxRe = 4
  MaxText = 3
  MemCells = 5
  Chars = 2
  WordBits = 8
  MaxFmt = 4
  BSIZE = 2
  NDIRECT = 2
  nmeta = 2
  FSSIZE = 18
  MaxFiles = 2
  LabThreads = {t1, t2}
  Loops = 3
  Size = 2
  BufItems = 5
  Procs = {p1, p2, p3}
  Vocabulary = {wa, wb}
  ITEMS = 2
  NoWord = NoWord
  NUM_PROCESOS = 2
  NUM_PAGINAS = 2
  NUM_MARCOS = 2
  MaxRefs = 6

SPECIFICATION ProgramsSpec

INVARIANTS
  UserMemoryOnly
  ShellsRight
  HeapExact
  FindsLines
  StringsRight
  ImageRight
  SharedIntact
  PagesRight

PROPERTIES
  CallsWhole
  RoundRobin
  ChildrenStop
  Delivered

CHECK_DEADLOCK FALSE
