CONSTANTS
  MAX_NUM_PROCESSES = 2
  NULL = NULL
  MaxTime = 0
  MaxPid = 2
  WaitPids = {0}
  SleepCycles = {0}
  MAX_NUM_RESOURCES = 2
  OpenArgs <- MCOpenArgs
  OpenModes <- MCModes
  MaxFd = 2
SPECIFICATION ResourcesSpec
INVARIANTS
  ResourcesTypeOK
  ResourcesAccounted
  OpenResourcesListed
  DescriptorsAccounted
PROPERTY FdsKeepTheirResource
VIEW MCView
