SPECIFICATION FairSpec
CONSTANTS
  Inst = inst
  Pools = {{u1}, {u1, u2, u3}}
  Support = {s1, s2}
  ASID = {"sh", "fibeight", "echo", "fibeleven", "uname", "date", "sl", "calc", "bad"}
  SHELL_ASID = "sh"
  Script <- AllPrograms
  Line = 2
  Room = 2
  TerminalTraps = FALSE
  None = none
INVARIANTS
  Mutexes
  ShellAlone
  NobodyKilledWaiting
  OneProgramPerAsid
  Conserved
  NoPanic
PROPERTIES
  ServiceEnds
  ShutsDown
CHECK_DEADLOCK FALSE
