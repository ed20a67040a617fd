CONSTANTS
  MAX_NUM_PROCESSES = 3
  NULL = NULL
  MaxTime = 2
  MaxPid = 5
  WaitPids = {0, 1}
  SleepCycles = {0, 2}
SPECIFICATION FairSpec
INVARIANTS
  TypeOK
  Placement
  StatusAgrees
  PidsUnique
  Family
  PCBPtrsAccounted
  TimersMatchSleepers
  NeverOverdue
  NoLostWakeup
  OrphansGotSIGHUP
PROPERTIES
  ImplementsLifecycle
  WokenByAwaitedChild
  SleepIsHonoured
  BypassBound
  SleeperWakes
  ReadyRuns
VIEW MCView
