SPECIFICATION Spec
CONSTANTS
  Thread = {t1, t2, t3}
  Block = {b1, b2, b3}
  Null = Null
  Intact = TRUE
  MaxFails = 2
SYMMETRY Symmetry
INVARIANTS
  SerialInitSound
  CorruptNeedsFailure
PROPERTIES
  StaysReady
CHECK_DEADLOCK FALSE
