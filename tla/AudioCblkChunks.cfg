CONSTANTS
  Tracks <- ChunkTracks
  W = 16
  mMinimum = 0
  FlushRaces = FALSE
  AckWhileHolding = FALSE
  Timeouts = {"INFINITE", "FINITE"}
SPECIFICATION CallSpec
PROPERTIES
  ObtainReturns
