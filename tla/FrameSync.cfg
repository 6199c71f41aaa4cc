SPECIFICATION FairSpec
CONSTANTS
  Frames <- FourFrames
  Types = {1, 2, 3}
  Need <- NeedOf
  Noise = {0, 4}
  MaxWire = 3
  MaxFaults = 1
INVARIANT TypeOK
PROPERTY FramesAreLinked
PROPERTY GetsInStep
CHECK_DEADLOCK FALSE
