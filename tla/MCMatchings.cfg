SPECIFICATION MCSpec
CONSTANTS
  Blocks <- MCBlocks
  Host <- MCHost
  Actives <- MCActives
  ListOf <- MCListOf
  Rounds = 3
INVARIANTS
  BatchesDistanceThree
  CallMaximalDistanceThree
  RoundComplete
PROPERTIES
  RoundEnds
CHECK_DEADLOCK FALSE
