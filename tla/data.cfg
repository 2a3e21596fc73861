SPECIFICATION AllSpec
CONSTANTS
  Proc = {p1, p2}
  None = None
  Half = 2
  MaxClock = 6
  Pcb = {b1, b2, b3, b4}
  Queue = {free, ready1}
  Free = free
  Prio = {0, 1}
  Support = {s1, s2, s3, s4}
  Shell = shell
  Child = {c1, c2}
  Head_ = head
  KLOG_LINES = 3
  KLOG_LINE_SIZE = 3
  Strings <- Texts
  Numbers = {7, 26}
  MaxLog = 8
CHECK_DEADLOCK FALSE
INVARIANTS
  ChargedExactly
  FreeExact
  LastLines
PROPERTIES
  ImplementsQueues
