SPECIFICATION Spec
CONSTANTS
  t1 = t1  t2 = t2  t3 = t3  t4 = t4
  Assoc = 3
  WindowFactor = 1
  Capacity = 1
  ByteSize = 8
  Averse = 2
  Initial = 1
  Tags <- MCTags4
  NoTag = NoTag
  Cores = 4
SYMMETRY TagSymmetry4
INVARIANTS PositionsDistinct VictimAlwaysFound
\* The simulation stops when no victim is found.
CHECK_DEADLOCK FALSE
