CONSTANTS
  Tracks <- FlushedTracks
  W = 16
  mMinimum = 0
  FlushRaces = TRUE
  AckWhileHolding = FALSE
  Timeouts = {"ZERO"}
SPECIFICATION Spec
PROPERTIES
  ImplementsFifo
