SPECIFICATION PartSpec
CONSTANTS
  MAXPROC = 3
  UserSem = {s1}
  Device = {d1}
  Clock = clock
  NULL = null
  Prio <- OnePrio
  Supported = {TRUE, FALSE}
  MaxPid = 1
  AlonePid = 2
  SemMax = 1
  SoftMax = 3
  KillsIo = FALSE
  SharedIo = TRUE
INVARIANTS
  StopsRightly
  YieldGivesWay
  AloneHasWaker
  OneListEach
  NoLostProcess
  SoftBlockExact
PROPERTIES
  SharedReadyRuns
  ClockWakes
  IoEnds
