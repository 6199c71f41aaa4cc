SPECIFICATION FairSpec
CONSTANTS
  Starts <- ShortTurns
  MaxNodes = 3
  Formats = {"normal", "capsule", "dense", "hq"}
  MaxSent = 7
  MaxFaults = 1
  MaxServed = 1
INVARIANTS TypeOK ScansAreWhole SignalMeansScan NoThreadLeft
PROPERTIES NewerEachTime CallsReturn
CHECK_DEADLOCK FALSE
