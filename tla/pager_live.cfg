SPECIFICATION FairSpec
CONSTANTS
  ASID = {a1, a2, a3}
  Page = {p1}
  Text <- NoText
  SWAP_POOL_SIZE = 1
  Data = {junk}
  Junk = junk
  NOPROC = noproc
  SwapPool = swapPool
  IoFails = TRUE
INVARIANTS
  SwapExclusive
  TlbCoherent
PROPERTIES
  FaultEnds
  ExitEnds
