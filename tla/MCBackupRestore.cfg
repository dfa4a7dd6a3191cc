SPECIFICATION Spec
CONSTANTS
  a = a
  b = b
  c = c
  Workspaces = {a, b, c}
  Ids = {1, 2}
  None = None
  LiveSource = FALSE
  MaxVersion = 2
  MaxCommits = 6
  MaxBackups = 2
  MaxJobs = 1
INVARIANTS
  TypeOK
  DepsAcyclic
  GapsAbove
  ArrivesWhole
PROPERTIES
  NothingOverwritten
  SuccessIsComplete
  BackupIsSnapshot
SYMMETRY Symmetry
CHECK_DEADLOCK FALSE
