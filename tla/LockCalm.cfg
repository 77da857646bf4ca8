SPECIFICATION FairSpec
CONSTANTS
  p1 = p1
  p2 = p2
  p3 = p3
  Proc = {p1, p2, p3}
  NoProc = NoProc
  SlowCreate = FALSE
  Suspends = FALSE
  StepsDown = FALSE
  PromotionFails = FALSE
  MaxCrashes = 0
INVARIANTS
  OneLeader
PROPERTIES
  EveryoneServed
CHECK_DEADLOCK FALSE
