SPECIFICATION Spec
SYMMETRY AsidSymmetry
CONSTANTS
  ASID = {a1, a2}
  Page = {p1, p2}
  Text = {p1}
  SWAP_POOL_SIZE = 2
  Data = {v1, junk}
  Junk = junk
  NOPROC = noproc
  SwapPool = swapPool
  IoFails = FALSE
INVARIANTS
  OnePageOneFrame
  NothingLeft
  FramesOwned
PROPERTIES
  ImplementsMemory
