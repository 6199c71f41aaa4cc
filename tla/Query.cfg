SPECIFICATION FairSpec
CONSTANTS
  Kinds = {"servo", "arm", "pid", "offset", "car_type", "version", "akm"}
  Servos = {1}
  MaxAsk = 3
  PollBudget = 2
INVARIANTS TypeOK AnswersCurrent AkmNotOlderThanSet VersionKnown AkmNeverPlaceholder
PROPERTIES CarTypeOnce GetterReturns
