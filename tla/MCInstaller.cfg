SPECIFICATION Spec
CONSTANTS
  old = old
  new = new
  x = x
  y = y
  Checkouts = {old, new}
  Edits = {e}
  Texts = {x, y}
  Settings = {w}
  Tools = {t, u}
  Absent = Absent
  Torn = Torn
  Cut = Cut
  Start = Start
  End = End
  Wrapper = Wrapper
  Elsewhere = Elsewhere
  MaxRuns = 3
  MaxEdits = 2
INVARIANTS
  TypeOK
  SectionsUnique
  SuccessInstalls
PROPERTIES
  EditsKept
  TextKept
SYMMETRY Symmetry
CHECK_DEADLOCK FALSE
