CONSTANTS
  Tracks <- CalledTracks
  W = 8
  mMinimum = 0
  FlushRaces = FALSE
  AckWhileHolding = FALSE
  Timeouts = {"INFINITE", "FINITE"}
SPECIFICATION CallSpec
PROPERTIES
  WaitsAreCut
  ObtainReturns
