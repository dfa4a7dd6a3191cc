SPECIFICATION Spec
CONSTANTS
  p = p
  q = q
  Proc = {p, q}
  Commands = {build, test}
  Nobody = Nobody
  None = None
  NoFile = NoFile
  Torn = Torn
  MaxEvents = 3
INVARIANTS
  TypeOK
  AckedIngested
  PairObserved
SYMMETRY Symmetry
CHECK_DEADLOCK FALSE
