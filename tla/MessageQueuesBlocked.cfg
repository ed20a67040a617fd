CONSTANTS
  MAX_NUM_PROCESSES = 2
  NULL = NULL
  MaxTime = 1
  MaxPid = 3
  WaitPids = {0}
  SleepCycles = {}
  MAX_NUM_MESSAGEQUEUES = 1
  MAX_NUM_MESSAGES = 2
  MQCycles = 1
  MQIds = {0}
  Types = {0}
  MsgSizes = {2}
  MaxMsgs = {1}
  Modes <- MCModes
  MsgLens = {1}
  MaxMqd = 2
  MaxSends = 2
SPECIFICATION MQSpec
PROPERTY BlockedCallFails
