SPECIFICATION Spec
CONSTANTS
  p1 = p1
  p2 = p2
  Proc = {p1, p2}
  NoProc = NoProc
  SlowCreate = TRUE
  Suspends = FALSE
  StepsDown = FALSE
  PromotionFails = FALSE
  MaxCrashes = 0
SYMMETRY Symmetry
INVARIANTS
  OneLeader
CHECK_DEADLOCK FALSE
