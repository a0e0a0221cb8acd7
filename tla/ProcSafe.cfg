SPECIFICATION Spec
CONSTANTS
  NPROC = 3
  NCPU = 2
  MaxPid = 3
  MaxSleep = 0
  KillPids = {3}
  Calls = {"fork", "exit", "waitcall", "kill", "ppidcall"}
INVARIANTS
  StackSafe
  WaiterNotLost
  NoLeak
