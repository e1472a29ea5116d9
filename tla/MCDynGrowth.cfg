SPECIFICATION MCSpec
CONSTANTS
  MaxN = 3
  Weights = {1, 2}
  ByWeight = {2}
  Hierarchy <- MCHierarchy
  Distances <- MCDistances
  Results <- MCResults
  Imbalance = 50
  MaxCommands = 2
INVARIANT
  RefinementKeepsMapping
CHECK_DEADLOCK FALSE
