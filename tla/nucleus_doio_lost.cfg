SPECIFICATION Spec
CONSTANTS
  MAXPROC = 3
  UserSem = {s1}
  Device = {d1}
  Clock = clock
  NULL = null
  Prio <- OnePrio
  Supported = {TRUE, FALSE}
  MaxPid = 1
  SemMax = 1
  SoftMax = 3
  KillsIo = TRUE
  SharedIo = TRUE
PROPERTIES
  DoIOBlocks
