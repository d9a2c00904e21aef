SPECIFICATION FairSpec
CONSTANTS
  Thread = {t1, t2}
  MaxFd = 10
  MaxBo = 4
  MaxBuf = 8
  Fd <- MCFd
  Bo <- MCBo
  Buf <- MCBuf
  NoFd = NoFd
  NoBuf = NoBuf
  NoBo = NoBo
  UsageBit <- MCUsageBit
  SwRead = {"sw_read"}
  SwWrite = {"sw_write"}
  Pick <- Lowest
  Counts = {2}
  Fails = {"bo", "entry"}
  FdReserve = 10
INVARIANTS
  KeyNamesBo
  NoDanglingBuffer
  NoOrphanBo
  NothingManagedWhenIdle
  RepliesDistinct
  CompleteOrFailed
PROPERTIES
  RequestsAnswered
CHECK_DEADLOCK FALSE
