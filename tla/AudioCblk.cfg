CONSTANTS
  Tracks <- SafetyTracks
  W = 16
  mMinimum = 0
  FlushRaces = FALSE
  AckWhileHolding = FALSE
  Timeouts = {"ZERO"}
SPECIFICATION Spec
INVARIANTS
  TypeOK
  NeverCorrupt
  ReadsFrames
PROPERTIES
  ImplementsFifo
  FlushIsExact
