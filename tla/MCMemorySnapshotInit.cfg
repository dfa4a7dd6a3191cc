SPECIFICATION Spec
CONSTANTS
  p = p
  q = q
  Proc = {p, q}
  Commands = {build, test}
  Nobody = Nobody
  None = None
  NoFile = NoFile
  Torn = Torn
  MaxEvents = 3
PROPERTY InitKeepsSnapshot
CHECK_DEADLOCK FALSE
