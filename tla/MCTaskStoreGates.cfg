SPECIFICATION Spec
CONSTANTS
  a = a
  b = b
  p = p
  q = q
  g = g
  h = h
  c1 = c1
  c2 = c2
  Ids = {a, b}
  KeyedIds = {a}
  Goals = {g, h}
  NoCriteria = NoCriteria
  Criteria = {NoCriteria, c1, c2}
  MaxVersion = 3
  None = None
  Procs = {p, q}
  CheckpointInterval = 3
  Requests <- MCRequests
INVARIANTS
  TypeOK
  WorkingCopy
  StatusJustified
  AckedDurable
PROPERTIES
  ExpectedVersionReplaced
  Atomic
SYMMETRY Symmetry
