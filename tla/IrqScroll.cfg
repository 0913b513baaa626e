SPECIFICATION FairSpec
CONSTANTS
  FB = 0
  Tv <- MCTv
  Deepest = 1
  WIDTH = 1024
  HEIGHT = 768
  STEP = 4
INVARIANTS
  PictureInMemory
PROPERTIES
  NoHalfSetting
  Smooth
  SecondScreenDrawn
