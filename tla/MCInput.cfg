CONSTANTS
  Texts = {t1, t2, big}
  TooLong = {big}
  MaxPastes = 2
  MaxCopies = 1
  None = None
  Tabs = {w1, w2}
  Buttons = {left}
  Fingers = {f1, f2}
  Cap = 1
  MaxClick = 2
  MaxEvents = 4
  MaxTabOps = 2
SYMMETRY Symmetry
SPECIFICATION Spec
INVARIANTS
  PageAgrees
  NoEcho
  OnePerGesture
CHECK_DEADLOCK FALSE
