SPECIFICATION FairSpec
CONSTANTS
  None = None
  Nodes = {p, q}
  Devices = {d}
  AtFirst = {d}
  Wants <- AcceptAll
  MaxBoots = 3
  MaxTroubles = 2
INVARIANTS OpensAlone DrivesOwnCamera ConnectedMeansNode
PROPERTIES NodeGoes NodeComes
CHECK_DEADLOCK FALSE
