SPECIFICATION FairSpec
CONSTANTS
  Duration <- SmallDurations
  ReadDuration = 3
  Word = 64
  SetsBy <- Settings
  MaxSets = 2
  MaxAge = 12
  MaxQueue = 2
INVARIANT TypeOK
PROPERTIES OnlyIdleDropped IdleEnds ImplementsSessionTimer
CHECK_DEADLOCK FALSE
