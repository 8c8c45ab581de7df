SPECIFICATION Spec
CONSTANTS
  c1 = c1  c2 = c2  c3 = c3
  Nobody = Nobody
  Cores <- MCCores
  Counts <- MCCounts
  PerCore = 1
  Period = 3
  Limit = 4
SYMMETRY Symmetry
INVARIANTS HookNotEarly HookNotForgotten CountedOnce
\* The cores stop when they have executed Limit instructions.
CHECK_DEADLOCK FALSE
