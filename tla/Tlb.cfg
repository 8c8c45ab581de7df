SPECIFICATION FetchSpec
CONSTANTS
  itlb = itlb  dtlb = dtlb  stlb = stlb
  c1 = c1  c2 = c2  d1 = d1  d2 = d2  d3 = d3
  Tlbs <- MCTlbs
  NextLevel = stlb
  Associativity <- MCAssociativity
  Pages <- MCPages
  NoPage = NoPage
  ITlb = itlb
  DTlb = dtlb
  CodeBytes = 8
  BlockSize = 2
  BlocksPerPage = 2
  CodePage <- MCCodePage
  NoBlock = NoBlock
SYMMETRY PageSymmetry
INVARIANT FirstLevelUnique
INVARIANT SkippedPageHeld
INVARIANT StraightLineRead
PROPERTY ForgetsOnlyVictims
