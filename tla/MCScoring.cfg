\* MCScoring
SPECIFICATION Spec
CONSTANTS
  Margin = 2
  Expansions <- MCExpansions
  Word <- MCWord
  Absent <- None
  Clean <- MCClean
  Whole = 120
  MismatchCap = 18
  Similarity <- MCSimilarity
  NameQualifies <- MCNameQualifies
  TownQualifies <- MCTownQualifies
  Grain = 12
  MinPopulation = 2
  Layers <- MCLayers
  Queries <- MCQueries
CHECK_DEADLOCK FALSE
INVARIANTS
  TypeOK
  PerfectOnlyIfAgreed
  ConstantFieldsSilent
  QualifyingSideWins
  DrawingIrrelevant
  AssertedScoredWherePlaced
  GateFollowsReport
