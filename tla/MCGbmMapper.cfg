SPECIFICATION Spec
CONSTANTS
  Thread = {t1, t2}
  Handle = {h1, h2, h3}
  Fd = {f1, f2, f3, f4}
  Bo = {o1, o2, o3}
  b1 = b1
  b2 = b2
  Buf <- MCBuf
  NoFd = NoFd
  NoBuf = NoBuf
  NoBo = NoBo
  NoHandle = NoHandle
  UsageBit <- MCUsageBit
  SwRead = {"sw_read"}
  SwWrite = {"sw_write"}
  Pick <- AnyOf
  HwFb = "hw_fb"
  HwTexture = "hw_texture"
  BufUsage <- MCBufUsage
  LockUsages <- MCLockUsages
  MaxLocks = 2
  SharedCalls = FALSE
SYMMETRY Symmetry
INVARIANTS
  TypeOK
  KeysUnique
  KeyNamesBo
  NoDanglingBuffer
  NoOrphanBo
  LockBook
PROPERTIES
  ImplementsLeases
CHECK_DEADLOCK FALSE
