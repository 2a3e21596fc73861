SPECIFICATION FairSpec
CONSTANTS
  Client = {c1, c2}
  Device <- OneTerminal
  TxFails = TRUE
  MaxV = 2
PROPERTIES
  ErrorReported
