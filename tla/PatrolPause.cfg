SPECIFICATION FairSpec
CONSTANTS
  Commands = {"LengthTest"}
  Threshold = 1
  MaxRays = 0
  MayShutDown = FALSE
PROPERTY PauseStops
