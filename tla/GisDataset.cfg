\* Two GeoPackage versions, one restart, reads of the centerlines may raise.
\* The watcher thread keeps running.
CONSTANTS
  MaxVersion  = 2
  MaxRestarts = 1
  Unreliable  = {"rcl"}
  Watches     = TRUE
SPECIFICATION LiveSpec
INVARIANTS QuietConversionCoherent StaleOnlyIfSkipped DownOnlyBeforeFirstLoad
PROPERTIES LayersNeverRegress ImplementsStore ReadyReturns ChangeArrives
CHECK_DEADLOCK FALSE
