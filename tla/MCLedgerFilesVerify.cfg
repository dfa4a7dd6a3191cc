SPECIFICATION Spec
CONSTANTS
  p = p
  q = q
  Procs = {p, q}
  None = None
  CheckpointInterval = 2
  Keyings = {FALSE}
  Longs = {FALSE}
  MaxVersion = 3
  MaxRot = 0
INVARIANTS
  ErrorMeansDamage
SYMMETRY Symmetry
