SPECIFICATION FairSpec
CONSTANTS
  i1 = i1  d1 = d1  i2 = i2  d2 = d2  d3 = d3  m1 = m1  m2 = m2  a1 = a1  a2 = a2
  L1s <- MCThree
  Llcs <- MCTwoLlcs
  CoreOf <- MCThreeCore
  LlcOf <- MCMixed
  Addrs <- MCOneAddr
  Accessed <- MCAll
  Written <- MCAll
  L1Lines = 1
  LlcLines = 1
  Prefetching <- MCOneLlc
  Mesi = TRUE
  LostUpgradeReplies = {"EX_REP", "UPGRADE_DATA_REP"}
INVARIANTS OnlyLostUpgradesFail OneRequestPerLine WaitersListed LlcExclusive
PROPERTY MissesComplete
\* The simulator stops at the assertion about a lost upgrade.
CHECK_DEADLOCK FALSE
