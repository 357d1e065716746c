CONSTANTS
  Commands <- MCCommands
  MaxDelay = 2
  MaxPending <- MCMaxPending
SPECIFICATION Spec
INVARIANTS
  TypeOK
  LastSentWins
  WokenInTime
PROPERTIES
  CallersReturn
CHECK_DEADLOCK FALSE
