SPECIFICATION Spec
CONSTANTS
  i1 = i1  d1 = d1  i2 = i2  d2 = d2  d3 = d3  m1 = m1  m2 = m2  a1 = a1  a2 = a2
  L1s <- MCSplit
  Llcs <- MCTwoLlcs
  CoreOf <- MCSplitCore
  LlcOf <- MCPrivate
  Addrs <- MCTwoAddrs
  Accessed <- MCCodeAndData
  Written <- MCData
  L1Lines = 1
  LlcLines = 1
  Prefetching <- MCOneLlc
  Mesi = TRUE
  LostUpgradeReplies = {"EX_REP"}
INVARIANTS TypeOK NoAssertionFails Inclusive LlcExclusive SingleWriter ReadsSeeLastWrite LastWriteSurvives EvictionUnderway
