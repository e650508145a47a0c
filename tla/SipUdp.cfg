\* Two dialogs over UDP.
CONSTANTS
  Calls      = {c1, c2}
  Contacts   = {a}
  Transports = {"UDP"}
  GrantsFetch = TRUE
  MaxState   = 1
  MaxTags    = 3
  MaxTasks   = 2
SPECIFICATION LiveSpec
PROPERTIES DialogKeepsTag NewsInOrder NothingNewAfterEnd SubscribersLearnState
CHECK_DEADLOCK FALSE
