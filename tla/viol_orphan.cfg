SPECIFICATION RoundsSpec
CONSTANTS
  a = a
  b = b
  stale = stale
  Agent = {a, b}
  Stale = stale
  MaxRound = 2
  MaxOps = 2
  MaxCrash = 1
  Acts = {"consume"}
INVARIANTS
  NoOrphanedParticipant
CHECK_DEADLOCK FALSE
