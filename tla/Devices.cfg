SPECIFICATION DevicesSpec
CONSTANTS
  Readers = {p1, p2}
  Letters = {"a"}
  INPUT_BUF = 4
  UINT = 8
  Asked = {1, 2}
  Cpus = {c1, c2}
  cpu0 = c1
  Threads = {t1, t2}
  NoCpu = NoCpu
  NoThread = NoThread
  COLS = 2
  ROWS = 3
  MaxOut = 6
  Pressed = 3
SYMMETRY Symmetric
INVARIANTS InputReadable DevicesSafe
PROPERTIES IsTty
