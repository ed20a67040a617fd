CONSTANTS
  MAX_NUM_PROCESSES = 2
  NULL = NULL
  MaxTime = 0
  MaxPid = 3
  WaitPids = {0}
  SleepCycles = {0}
SPECIFICATION TrapSpec
INVARIANTS
  TrapTypeOK
  SavedAgrees
PROPERTIES
  CallsReturnServedOnce
  AlarmIsHeard
VIEW MCView
