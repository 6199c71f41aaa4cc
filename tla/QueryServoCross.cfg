SPECIFICATION Spec
CONSTANTS
  Kinds = {"servo"}
  Servos = {1,2}
  MaxAsk = 3
  PollBudget = 1
INVARIANT ServoAngleOwn
