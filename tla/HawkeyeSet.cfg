SPECIFICATION HistorySpec
CONSTANTS
  t1 = t1  t2 = t2  t3 = t3  e1 = e1  e2 = e2  e3 = e3
  Assoc = 2
  WindowFactor = 2
  Capacity = 1
  ByteSize = 8
  Averse = 1
  Fresh = 1
  Slots = 2
  MaxScore = 2
  Friendly = 0
  InitScore = 1
  Eips <- MCEips
  NoEip = NoEip
  Tags <- MCTags
  NoTag = NoTag
  Cores = 3
SYMMETRY Symmetry
INVARIANTS TypeOK PositionsDistinct OccupancyBounded TableConsistent FreeSlotsNeutral VictimAlwaysFound OccupancyIsLoad OccurrenceIsAge
PROPERTIES VerdictIsOptimal SlotsAreSticky ImplementsCacheSet
\* The simulation stops when no victim is found.
CHECK_DEADLOCK FALSE
