SPECIFICATION Spec
CONSTANTS
  Thread = {t1, t2}
  Handle = {h1, h2, h3}
  h1 = h1
  h2 = h2
  h3 = h3
  Block = {b1, b2, b3}
  Null = Null
  UsageBit <- MCUsageBit
  HandleUsage <- MCHandleUsage
  LockUsages <- MCLockUsages
  MaxLocks = 2
  Intact = TRUE
  Fb = FALSE
SYMMETRY Symmetry
INVARIANTS
  SerialTableRight
  SerialMapsRight
  
CHECK_DEADLOCK FALSE
