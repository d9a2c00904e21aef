SPECIFICATION Spec
CONSTANTS
  Thread = {t1, t2}
  Block = {b1, b2, b3, b4, b5}
  Null = Null
  Scalars <- MCScalars
  Payloads <- MCPayloads
  MaxValue = 1
  MaxPayload = 2
  MaxSize = 1
  ReadTypes <- MCRead
  WriteTypes <- MCWritten
SYMMETRY Symmetry
INVARIANTS
  PointersOwn
  CopiesLive
  SerialGetsRight
CHECK_DEADLOCK FALSE
