SPECIFICATION NucaSpec
CONSTANTS
  a1 = a1  a2 = a2  a3 = a3  v1 = v1  v2 = v2
  Addrs <- MCAddrs
  Values <- MCValues
  Ways = 2
  NucaWays = 1
  MaxMessages = 2
  PrefetchOnPrefetchHit = TRUE
SYMMETRY Symmetry
INVARIANT CleanLinesMatchMemory
INVARIANT KeepsLastWrite
