SPECIFICATION Spec
CONSTANTS
  Inst = inst
  Pools = {{u1, u2}}
  Support = {s1, s2}
  ASID = {"sh", "bad"}
  SHELL_ASID = "sh"
  Script <- OneTrap
  Line = 1
  Room = 2
  TerminalTraps = TRUE
  None = none
INVARIANTS
  TerminalMutexes
CHECK_DEADLOCK FALSE
