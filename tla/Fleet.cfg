\* Two workers; the second of three GeoPackages cannot be loaded.
CONSTANTS
  Worker     = {w1, w2}
  Nobody     = Nobody
  MaxVersion = 3
  Bad        = {2}
  MaxDeaths  = 2
  MaxReports = 1
SPECIFICATION LiveSpec
INVARIANT NoSplitListeners
PROPERTIES ListenersComeBack ProblemsAreFiled
CHECK_DEADLOCK FALSE
