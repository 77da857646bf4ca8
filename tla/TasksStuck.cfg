SPECIFICATION FairSpec
CONSTANTS
  b1 = b1
  b2 = b2
  c1 = c1
  m1 = m1
  m2 = m2
  Task = {b1, b2}
  Poll = {c1}
  Model = {m1, m2}
  ModelOf <- MCModelOf
  MaxConcurrent = 2
  PerModelLimit = 1
  Modes <- MCFull
  MaxSessions = 2
  MaxContinues = 0
  MaxRestarts = 0
PROPERTIES
  RunningEnds
CHECK_DEADLOCK FALSE
