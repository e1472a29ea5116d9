SPECIFICATION MCSpec
CONSTANTS
  Vertex <- MCVertex
  Block <- MCBlock
  EdgeWeight <- MCEdgeWeight
  VertexWeight <- MCVertexWeight
  Lmax <- MCLmax
  NoEdge = NoEdge
  Hierarchy <- MCHierarchy
  Distances <- MCDistances
  D <- MCD
  Thread = {t1, t2}
  Kinds = {"labels", "fm", "flow"}
  SerialKinds = {"labels", "swap"}
  UseStatic = {TRUE, FALSE}
  LargeK = TRUE
  MaxIteration = 2
  MaxPasses = 2
  MaxRounds = 4
  MinThreshold = 2
  MinSteps = 1
  UseEdgeCut = TRUE
  AlphaBound = 4
  MaxLocal = 3
  Growth <- MCGrowth
  NoBlock = NoBlock
  Active <- MCBlock
  MaxInner = 3
INVARIANTS
  SearchKeepsPromise
  CutsKeepPromise
  StructuresCorrectBetweenPairs
  BarrierSound
  LoopComplete
PROPERTIES
  CostNeverRises
  MovesSound
  Ends
CHECK_DEADLOCK FALSE
