SPECIFICATION FairSpec
CONSTANTS
  p1 = p1
  p2 = p2
  Proc = {p1, p2}
  NoProc = NoProc
  SlowCreate = TRUE
  Suspends = TRUE
  StepsDown = TRUE
  PromotionFails = FALSE
  MaxCrashes = 1
PROPERTIES
  LoserAbdicates
  LeaderElected
CHECK_DEADLOCK FALSE
