SPECIFICATION Spec
CONSTANTS
  Thread = {t1, t2}
  Handle = {img1, img2, line1, line2, sheet}
  img1 = img1
  img2 = img2
  line1 = line1
  line2 = line2
  sheet = sheet
  NoHandle = NoHandle
  Content <- MCContent
SYMMETRY Symmetry
INVARIANTS
  SerialCallsAgree
  NewIsUnmanaged
  
CHECK_DEADLOCK FALSE
