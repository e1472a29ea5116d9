SPECIFICATION MCSpec
CONSTANTS
  N = 6
  Graphs <- MCGraphs
  MaxWeight = 4
  v1 = v1
  v2 = v2
  v3 = v3
  v4 = v4
  v5 = v5
  v6 = v6
  Priorities = {1, 2, 3}
  UbNum = 103
  UbDen = 100
  FMLimit = 2
  MaxIter = 3
  Tries = 2
  Blocks = 3
  ImbNum = 120
  ImbDen = 100
  Slack = 2
  Passes = 3
SYMMETRY Symmetry
INVARIANTS
  MatchingSound
  TwinsButZero
  KeptInStep
PROPERTIES
  HeapIsMaxQueue
  FMKeepsPromise
  NoMoveMakesWorse
CHECK_DEADLOCK FALSE
