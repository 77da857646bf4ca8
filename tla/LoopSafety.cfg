SPECIFICATION Spec
CONSTANTS
  s1 = s1
  s2 = s2
  s3 = s3
  t1 = t1
  t2 = t2
  Session = {s1, s2, s3}
  NoSession = NoSession
  Tick = {t1, t2}
  NoTick = NoTick
  Messages <- MCBriefMessages
  MaxIter = 2
  MinAudits = 1
  MaxRetries = 2
  MaxStalls = 2
  Audit = TRUE
  Worktree = TRUE
  SlowCalls = TRUE
  Interrupts <- MCAllInterrupts
  MaxQueue = 2
  MaxErrors = 1
  MaxRecover = 1
SYMMETRY Symmetry
INVARIANTS
  OnlyCurrentSessionDrives
  IterationBound
PROPERTIES
  IterationNeverDrops
CHECK_DEADLOCK FALSE
