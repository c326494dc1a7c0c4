SPECIFICATION ClientSpec
CONSTANTS
  Entity = {"msg", "sched", "mem"}
  Kind <- KindOf
  Commits <- UnlabelledCommits
  HistoryLimit = 0
  MaxSeq = 2
  MaxGen = 2
  MaxLate = 1
  Intent = {i1, i2}
  i1 = i1
  i2 = i2
  MaxQueued = 1
  MaxSockets = 1
  MaxSwaps = 0
  MaxResends = 0
INVARIANTS CursorSkipsNothing
CHECK_DEADLOCK FALSE
