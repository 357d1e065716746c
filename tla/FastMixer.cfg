CONSTANTS
  t1 = t1
  t2 = t2
  Nothing = Nothing
  NoTrack = NoTrack
  Track <- MCTrack
  FastIndex = {1}
  mFastIndex <- MCIndex
  MaxCold = 2
  MaxGen = 5
  MaySuspend = TRUE
  MayRefuse = FALSE
  MayDawdle = TRUE
SPECIFICATION Spec
INVARIANTS
  TypeOK
  HalHasOneUser
  MixesCurrentTracks
  NoMixAfterRelease
  StandbyIsQuiet
CHECK_DEADLOCK FALSE
