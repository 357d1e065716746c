CONSTANTS
  mMaxFrames = 2
  W = 4
  S = 3
  MaxCount = 3
  ReadTimes = {0}
SPECIFICATION FairSpec
PROPERTIES
  CountsWhatWaits
