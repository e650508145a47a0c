\* One dialog over both transports, whose subscriber may move.
CONSTANTS
  Calls      = {c1}
  Contacts   = {a, b}
  Transports = {"UDP", "TCP"}
  GrantsFetch = TRUE
  MaxState   = 1
  MaxTags    = 2
  MaxTasks   = 2
SPECIFICATION Spec
INVARIANTS ContextLostOnlyInRace NotifiedWhereAccepted
CHECK_DEADLOCK FALSE
