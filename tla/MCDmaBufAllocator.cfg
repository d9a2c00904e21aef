SPECIFICATION FairSpec
CONSTANTS
  Thread = {t1, t2}
  Fd = {f1, f2, f3}
  NoFd = NoFd
  Mem = {m1, m2, m3}
  NoMem = NoMem
  Requests <- MCLines
  Int32 = 256
INVARIANTS
  OpenAccounted
  RepliesDistinct
  CompleteOrFailed
PROPERTIES
  RequestsAnswered
