SPECIFICATION Spec
CONSTANTS
  c1 = c1  c2 = c2  c3 = c3
  None = None
  Cores <- MCCores
  BlockSize = 2
  Sets = 2
  Accesses <- MCAccesses
  Prefetcher = TRUE
SYMMETRY CoreSymmetry
INVARIANTS NoCircularWait SplitExact
\* Two atomic operations over two lines each may stop each other.
CHECK_DEADLOCK FALSE
