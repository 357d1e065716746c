CONSTANTS
  Word = {w1, w2}
  W = 16
  MAX_TRIES = 3
  MaxPushes = 10
SPECIFICATION PollSpec
INVARIANTS
  TypeOK
  AckNeverLies
PROPERTIES
  ImplementsLatestValue
  PollFinds
CHECK_DEADLOCK FALSE
