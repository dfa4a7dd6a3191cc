SPECIFICATION Spec
CONSTANTS
  p = p
  q = q
  Procs = {p, q}
  None = None
  CheckpointInterval = 2
  Keyings = {TRUE, FALSE}
  Longs = {TRUE, FALSE}
  MaxVersion = 3
  MaxRot = 1
INVARIANTS
  TypeOK
  LedgerReadable
  ReadsCurrent
PROPERTIES
  VerifiedIntact
  Durable
SYMMETRY Symmetry
