SPECIFICATION TableSpec
CONSTANTS
  Caller = {t1}
  Elt = {e1, e2, e3, e4}
  Table = {T1}
  Nil = Nil
  k1 = k1
  k2 = k2
  k3 = k3
  k4 = k4
  Key = {k1, k2, k3, k4}
  Hash <- MCHash
  InitialBuckets = 1
  Thresh = 2
  MaxBuckets = 4
  Overlap = FALSE
SYMMETRY Symmetry
INVARIANTS
  FsckPasses
PROPERTIES
  ImplementsTable
CHECK_DEADLOCK FALSE
