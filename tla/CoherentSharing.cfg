SPECIFICATION Spec
CONSTANTS
  i1 = i1  d1 = d1  i2 = i2  d2 = d2  d3 = d3  m1 = m1  m2 = m2  a1 = a1  a2 = a2
  L1s <- MCTwo
  Llcs <- MCOneLlc
  CoreOf <- MCTwoCore
  LlcOf <- MCShared
  Addrs <- MCOneAddr
  Accessed <- MCAll
  Written <- MCAll
  L1Lines = 1
  LlcLines = 1
  Prefetching <- MCNoLlc
  Mesi = TRUE
  LostUpgradeReplies = {"EX_REP"}
INVARIANT SingleWriter
