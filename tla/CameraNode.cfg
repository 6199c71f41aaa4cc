SPECIFICATION FairSpec
CONSTANTS
  Streams = {"INFRA1", "COLOR"}
  Setups <- ThreeCameras
  MaxQueue = 1
  MaxWatchers = 2
  MaxViewers = 1
INVARIANTS TypeOK RunsAsWatched MemorySafe DiesOnlyOf
PROPERTY CallsEnd
CHECK_DEADLOCK FALSE
