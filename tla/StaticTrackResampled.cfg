CONSTANTS
  mFrameCount = 2
  MIN_LOOP = 1
  W = 8
  Loops <- MCLoops
  MaxUnread = 2
  KeepsBuffer = TRUE
SPECIFICATION Spec
INVARIANTS
  NeverAborts
