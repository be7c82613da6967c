SPECIFICATION Spec
CONSTANTS
  MaxCalls = 4
  MAX_ATTEMPTS = 1
  MaxText = 3
  Path <- MCPath
  Heard <- MCHeard
  MaxDrops = 2
INVARIANTS OneLiveSocket StatusTracks ChecksOffThePast CleanMeansStored
PROPERTIES GoesQuiet
CHECK_DEADLOCK FALSE
