\* A paused agent is borrowed by a terminal and comes back unpaused.
SPECIFICATION Spec
CONSTANTS
  Cli = {c1, c2}
  None = None
  MaxQueue = 1
  MaxOps = 2
  MaxRestart = 1
CHECK_DEADLOCK FALSE
PROPERTY PausedUntilUnpaused
