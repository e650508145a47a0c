SPECIFICATION Spec
CONSTANTS
  Ids <- MCIds
  Calls <- MCCalls
  Settings <- MCSettings
  Engines <- MCEngines
INVARIANTS
  FirstLocationConverted
  SiblingsAgree
  EveryInputLogged
  DiscardDisclosed
  WireOrderIrrelevant
  NothingElseLost
