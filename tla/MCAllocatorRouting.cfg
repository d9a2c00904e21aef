SPECIFICATION Spec
CONSTANTS
  Thread = {t1, t2}
  Id = {i1, i2, i3}
  NoObj = NoObj
  NoDesc = NoDesc
  Desc <- MCDesc
SYMMETRY Symmetry
INVARIANTS
  YesMeansYes
  NeverWithoutBackend
  SupporterAnswers
  NoMeansNo
