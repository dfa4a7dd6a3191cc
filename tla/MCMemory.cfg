SPECIFICATION Spec
CONSTANTS
  a = a
  b = b
  c = c
  Kinds = {a, b, c}
  Near <- PairNear
  Confs <- Clients
  MaxImportance = 3
  Trigger = 1
  Floor = 2
  MaxRestorations = 2
  MaxRetrievals = 1
  Refused = Refused
  MaxRefused = 2
  Nothing = Nothing
  Missing = Missing
  Closed = Closed
INVARIANTS
  TypeOK
  EachEventOnce
  Bounded
  FingerprintOwn
  ChatInStep
  TranscriptWhole
PROPERTIES
  StormSafe
  LossOnlyWhenFull
  ActsAsPool
SYMMETRY Symmetry
CHECK_DEADLOCK FALSE
