SPECIFICATION FairSpec
CONSTANTS
  b1 = b1
  b2 = b2
  c1 = c1
  c2 = c2
  m1 = m1
  m2 = m2
  Task = {b1, b2}
  Poll = {c1}
  Model = {m1, m2}
  ModelOf <- MCModelOf
  MaxConcurrent = 1
  PerModelLimit = 1
  Modes <- MCAllModes
  MaxSessions = 2
  MaxContinues = 1
  MaxRestarts = 1
INVARIANTS
  PendingIsPolled
PROPERTIES
  
  PendingLeaves
CHECK_DEADLOCK FALSE
