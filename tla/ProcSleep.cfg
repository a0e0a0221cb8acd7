SPECIFICATION Spec
CONSTANTS
  NPROC = 3
  NCPU = 2
  MaxPid = 3
  MaxSleep = 2
  KillPids = {1, 3}
  Calls = {"sleepcall", "kill"}
INVARIANTS
  SchedChecks
  TickNotLost
