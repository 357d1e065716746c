CONSTANTS
  kN = 4
  Value = {v1, v2}
  Nothing = Nothing
SPECIFICATION MutatorSpec
INVARIANTS
  TypeOK
  AckedMeansCurrent
  CleanMeansPublished
PROPERTIES
  ReadableIsStable
  ImplementsChannel
  PublishedIsSeen
  PushReturns
