SPECIFICATION FairSpec
CONSTANTS
  Points = {a, b}
  None = None
  MayFail = TRUE
  MaxInFlight = 1
  MaxCancels = 1
CHECK_DEADLOCK FALSE
INVARIANT TypeOK
INVARIANT Consistent
INVARIANT TriedTwice
PROPERTY SuccessGoesOn
