CONSTANTS
  mFrameCount = 2
  MIN_LOOP = 1
  W = 8
  Loops <- MCLoops
  MaxUnread = 2
  KeepsBuffer = FALSE
SPECIFICATION Spec
INVARIANTS
  TypeOK
  NeverAborts
  IllusionIsKept
PROPERTIES
  LastCallWins
