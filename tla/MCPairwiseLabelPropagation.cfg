SPECIFICATION MCSpec
CONSTANTS
  Vertex <- MCVertex
  Block <- MCBlock
  EdgeWeight <- MCEdgeWeight
  VertexWeight <- MCVertexWeight
  Lmax <- MCLmax
  NoEdge = NoEdge
  Hierarchy <- MCHierarchy
  Distances <- MCDistances
  D <- MCD
  Start <- MCPartitions
  Thread = {t1, t2}
  UseStatic = {TRUE, FALSE}
  MaxIteration = 2
  MaxRounds = 4
  MinThreshold = 1
INVARIANTS
  NoDataRace
  StructuresCorrectAtBarrier
PROPERTIES
  ImplementsMonotoneMoves
  Ends
CHECK_DEADLOCK FALSE
