SPECIFICATION Spec
CONSTANTS
  Vertex <- MCVertex
  Block <- MCBlock
  EdgeWeight <- MCEdgeWeight
  VertexWeight <- MCVertexWeight
  P <- MCP
  MaxW = 3
  Thread = {t1, t2}
  MaxRounds = 2
  MinMoved = 1
  Threads = 2
  NoVertex = NoVertex
SYMMETRY MCThreads
INVARIANTS
  ClustersFit
  CountersAddUp
  RemapIsDense
CHECK_DEADLOCK FALSE
