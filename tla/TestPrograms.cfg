CONSTANTS
  MAX_NUM_PROCESSES = 14
  NULL = NULL
  MaxTime = 10000
  MaxPid = 100
  WaitPids = {0}
  SleepCycles = {2}
  MAX_NUM_MESSAGEQUEUES = 10
  MAX_NUM_MESSAGES = 100
  MQCycles = 25
  MQIds = {0, 1, 2, 3, 4, 5, 6, 7, 8, 9}
  Types = {0}
  MsgSizes = {20}
  MaxMsgs = {7, 10}
  Modes = {}
  MsgLens = {5, 20}
  MaxMqd = 10
  MaxSends = 1000
  NumQueues = 10
  NumBurst = 5
  NumChildren = 3
  NumMessages = 10
  MaxMsg = 7
SPECIFICATION ProgramSpec
INVARIANTS
  Survives
  CleanShutdown
  CallsSucceed
PROPERTY Terminates
VIEW MCView
