CONSTANTS
  MAX_NUM_PROCESSES = 3
  NULL = NULL
  MaxTime = 1
  MaxPid = 4
  WaitPids = {0, 1, 2}
  SleepCycles = {1}
SPECIFICATION Spec
INVARIANT AwaitedIsChild
