SPECIFICATION MCSpec
CONSTANTS
  Vertex <- MCVertex
  Block <- MCBlock
  EdgeWeight <- MCEdgeWeight
  VertexWeight <- MCVertexWeight
  P <- MCP
  MaxW = 2
  Thread = {t1, t2, t3}
  NoVertex = NoVertex
SYMMETRY MCThreads
INVARIANTS
  MergedOnce
  NoClaimLeftBehind
  SolvedHeaviest
  PathMatchingSound
CHECK_DEADLOCK FALSE
