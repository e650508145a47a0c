\* MCForwardLadder
SPECIFICATION Spec
CONSTANTS
  Margin = 2
  Perfect = 160
  MinMatchScore = 60
  Epsilon = 1
  Tolerance = 2
  Layers <- MCLayers
  Queries <- MCQueries
CHECK_DEADLOCK FALSE
INVARIANTS
  BestRungWins
  OrderIrrelevant
  AmbiguityIsReal
  GapSettles
