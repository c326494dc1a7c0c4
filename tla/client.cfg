SPECIFICATION ClientFairSpec
CONSTANTS
  Entity = {"msg", "sched", "mem"}
  Kind <- KindOf
  Commits <- AllCommits
  HistoryLimit = 0
  MaxSeq = 2
  MaxGen = 2
  MaxLate = 1
  Intent = {i1, i2}
  i1 = i1
  i2 = i2
  MaxQueued = 1
  MaxSockets = 3
  MaxSwaps = 2
  MaxResends = 1
INVARIANTS NeverPostedTwice RowsTellTheTruth
PROPERTIES CatchesUp SubmissionsSettle
CHECK_DEADLOCK FALSE
