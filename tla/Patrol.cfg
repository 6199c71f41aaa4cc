SPECIFICATION FairSpec
CONSTANTS
  Commands = {"Triangle"}
  Threshold = 1
  MaxRays = 1
  MayShutDown = FALSE
INVARIANT DeadIsStopped
INVARIANT NotMovingIsStopped
INVARIANT OneLateMove
PROPERTY JoyYields
PROPERTY PauseStops
