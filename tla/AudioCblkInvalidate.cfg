CONSTANTS
  Tracks <- InvalidTracks
  W = 8
  mMinimum = 0
  FlushRaces = FALSE
  AckWhileHolding = FALSE
  Timeouts = {"ZERO", "INFINITE", "FINITE"}
SPECIFICATION CallSpec
PROPERTIES
  InvalidReturns
