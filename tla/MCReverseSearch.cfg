\* Pairs of address points, pairs of centerlines, and some of each.
CONSTANTS
  Margin = 1
  Radius = 5
  Layers <- MCLayers
  Inputs <- MCInputs
SPECIFICATION Spec
INVARIANTS
  NearestForAPoint
  ContainedComeFirst
  OrderIrrelevant
  AnswerGeocodesBack
CHECK_DEADLOCK FALSE
