SPECIFICATION PrefetchSpec
CONSTANTS
  c1 = c1  c2 = c2  a1 = a1  a2 = a2
  NoAddr = NoAddr
  Threads <- MCThreads
  Addrs <- MCAddrs
  MaxQueue = 1
  Interval = 1
  Degree = 3
  OnPrefetchHit = TRUE
  MaxTime = 3
SYMMETRY Interchangeable
INVARIANT QueueBounded
PROPERTIES WaitsAfterTraining PrefetchesSpaced
