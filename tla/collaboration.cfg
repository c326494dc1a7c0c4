SPECIFICATION RoundsFairSpec
CONSTANTS
  a = a
  b = b
  stale = stale
  Agent = {a, b}
  Stale = stale
  MaxRound = 2
  MaxOps = 2
  MaxCrash = 1
  Acts = {"kill", "fail", "revive", "remove", "release", "redeliver", "delete", "consume", "brake", "rollback", "wait"}
INVARIANTS
  OwedAnswersAreComing
PROPERTIES
  GroupIsABarrier
  RoundsEnd
CHECK_DEADLOCK FALSE
