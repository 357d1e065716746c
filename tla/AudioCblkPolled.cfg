CONSTANTS
  Tracks <- PolledTracks
  W = 16
  mMinimum = 0
  FlushRaces = FALSE
  AckWhileHolding = FALSE
  Timeouts = {"ZERO"}
SPECIFICATION Spec
INVARIANTS
  PeekApproximates
