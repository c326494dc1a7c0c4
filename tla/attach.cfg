\* Two attach commands against one agent; under fairness.
SPECIFICATION FairSpec
CONSTANTS
  Cli = {c1, c2}
  None = None
  MaxQueue = 1
  MaxOps = 2
  MaxRestart = 1
CHECK_DEADLOCK FALSE
INVARIANTS
  ResetIsAlone
PROPERTIES
  OneWriter
  LeaseEnds
  QueueResumes
