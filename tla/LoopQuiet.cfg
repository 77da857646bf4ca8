SPECIFICATION FairSpec
CONSTANTS
  s1 = s1
  s2 = s2
  s3 = s3
  t1 = t1
  t2 = t2
  Session = {s1, s2, s3}
  NoSession = NoSession
  Tick = {t1, t2}
  NoTick = NoTick
  Messages <- MCMessages
  MaxIter = 3
  MinAudits = 1
  MaxRetries = 2
  MaxStalls = 2
  Audit = FALSE
  Worktree = TRUE
  SlowCalls = FALSE
  Interrupts <- MCShutdown
  MaxQueue = 2
  MaxErrors = 1
  MaxRecover = 1
PROPERTIES
  LoopEnds
  KeepsContract
CHECK_DEADLOCK FALSE
