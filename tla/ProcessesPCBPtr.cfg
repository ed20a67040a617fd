CONSTANTS
  MAX_NUM_PROCESSES = 2
  NULL = NULL
  MaxTime = 1
  MaxPid = 5
  WaitPids = {0}
  SleepCycles = {1}
SPECIFICATION Spec
INVARIANT SpawnFindsPCBPtr
