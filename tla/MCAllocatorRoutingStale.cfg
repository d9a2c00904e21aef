SPECIFICATION Spec
CONSTANTS
  Thread = {t1}
  Id = {i1, i2}
  NoObj = NoObj
  NoDesc = NoDesc
  Desc <- MCDesc
SYMMETRY Symmetry
INVARIANTS
  OnlyLinearBlob
