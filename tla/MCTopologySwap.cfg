SPECIFICATION MCSpec
CONSTANTS
  Vertex <- SwapVertex
  Block <- MCBlock
  EdgeWeight <- SwapEdgeWeight
  VertexWeight <- SwapVertexWeight
  Lmax <- SwapLmax
  NoEdge = NoEdge
  Hierarchy <- MCHierarchy
  Distances <- MCDistances
  D <- MCD
  Start <- SwapPartitions
  Thread = {t1}
  UseStatic = {TRUE}
  MaxIteration = 2
  MaxRounds = 4
  MinThreshold = 1
INVARIANTS
  InFlightDistanceThree
CHECK_DEADLOCK FALSE
