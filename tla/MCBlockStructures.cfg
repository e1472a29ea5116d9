SPECIFICATION MCSpec
CONSTANTS
  Vertex <- MCVertex
  Block <- MCBlock
  EdgeWeight <- MCEdgeWeight
  VertexWeight <- MCVertexWeight
  Lmax <- MCLmax
  NoEdge = NoEdge
  Hierarchy <- MCHierarchy
  Distances <- MCDistances
  D <- MCD
  MaxSweeps = 2
  Threads = 3
INVARIANTS
  StructuresFollowLevel
  CoarseGraphExact
PROPERTIES
  ImplementsMonotoneMoves
CHECK_DEADLOCK FALSE
