\* One dialog over TCP.
CONSTANTS
  Calls      = {c1}
  Contacts   = {a}
  Transports = {"TCP"}
  GrantsFetch = FALSE
  MaxState   = 0
  MaxTags    = 4
  MaxTasks   = 3
SPECIFICATION Spec
INVARIANT ContextForLiveSubscription
CHECK_DEADLOCK FALSE
