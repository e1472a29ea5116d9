SPECIFICATION MCSpec
CONSTANTS
  N = 3
  Costs = {0, 1, 3}
  Infinity = 1000
  k1 = k1
  k2 = k2
  k3 = k3
  k4 = k4
  k5 = k5
  Priorities = {1, 2}
  MinCapacity = 4
  MaxIteration = 2
  Limits = {3, 5}
  Average = 3
  ExactLimit = 2
  Vertex <- HeavyVertex
  Block <- HeavyBlocks
  EdgeWeight <- HeavyEdgeWeight
  VertexWeight <- HeavyVertexWeight
  P <- HeavyP
  MaxW = 4
SYMMETRY Symmetry
INVARIANTS
  AssignmentOptimal
  OraclesAgree
  FlowsAndClosuresSound
  PassedOverWereTaken
PROPERTIES
  ImplementsMaxQueue
CHECK_DEADLOCK FALSE
