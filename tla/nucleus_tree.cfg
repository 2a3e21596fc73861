SPECIFICATION Spec
CONSTANTS
  MAXPROC = 4
  UserSem = {s1}
  Device = {d1}
  Clock = clock
  NULL = null
  Prio <- OnePrio
  Supported = {FALSE}
  MaxPid = 1
  SemMax = 1
  SoftMax = 2
  KillsIo = TRUE
  SharedIo = FALSE
INVARIANTS
  NoWaiterOnPositive
  TreeComplete
  SemdPool
PROPERTIES
  WakeFifo
