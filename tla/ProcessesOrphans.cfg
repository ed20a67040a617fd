CONSTANTS
  MAX_NUM_PROCESSES = 4
  NULL = NULL
  MaxTime = 1
  MaxPid = 4
  WaitPids = {0}
  SleepCycles = {1}
SPECIFICATION Spec
INVARIANT InitHearsOrphans
