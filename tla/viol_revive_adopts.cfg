\* A killed mirrored agent is revived into owned custody.
SPECIFICATION Spec
CONSTANTS
  Cli = {c1, c2}
  None = None
  MaxQueue = 1
  MaxOps = 2
  MaxRestart = 1
CHECK_DEADLOCK FALSE
PROPERTY AdoptionIsExplicit
