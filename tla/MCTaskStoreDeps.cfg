SPECIFICATION FairSpec
CONSTANTS
  a = a
  b = b
  c = c
  p = p
  q = q
  g = g
  c1 = c1
  Ids = {a, b, c}
  KeyedIds = {}
  Goals = {g}
  NoCriteria = NoCriteria
  Criteria = {NoCriteria, c1}
  MaxVersion = 2
  None = None
  Procs = {p, q}
  CheckpointInterval = 3
  Requests <- MCRequests
INVARIANTS
  DepsAcyclic
  ReferencesResolve
PROPERTIES
  Atomic
  CallsReturn
