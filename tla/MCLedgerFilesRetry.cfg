SPECIFICATION Spec
CONSTANTS
  p = p
  q = q
  Procs = {p, q}
  None = None
  CheckpointInterval = 2
  Keyings = {TRUE}
  Longs = {FALSE}
  MaxVersion = 2
  MaxRot = 0
INVARIANTS
  AckedSurvives
SYMMETRY Symmetry
