CONSTANTS
  t1 = t1
  t2 = t2
  Nothing = Nothing
  NoTrack = NoTrack
  Track <- MCTrack
  FastIndex = {1}
  mFastIndex <- MCIndex
  MaxCold = 2
  MaxGen = 5
  MaySuspend = FALSE
  MayRefuse = TRUE
  MayDawdle = FALSE
SPECIFICATION FairSpec
PROPERTIES
  BothComeBack
CHECK_DEADLOCK FALSE
