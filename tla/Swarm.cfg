SPECIFICATION FairSpec
CONSTANTS
  p1 = p1
  p2 = p2
  p3 = p3
  m1 = m1
  m2 = m2
  Positions = {p1, p2, p3}
  Maps = {m1, m2}
  Fitness <- TwoMaps
  Corner = p1
  N = 3
  NInherited = 2
  MaxIter = 1
  NoAnswer = NoAnswer
INVARIANT LeaderLeads
INVARIANT NoWorse
PROPERTY PlanReturns
PROPERTY AnswersBestOfSeen
