SPECIFICATION Spec
CONSTANTS
  a = a
  b = b
  rowsN = 2
  runsN = 5
  Agent = {a}
  Delivery <- Rows
  Run <- RunIds
  To <- ToOne
  Class <- AllDirect
  Direct = 0
  NoRun = 0
  Nobody = nobody
  Ceiling = 2
  Pid = {a}
  ArgvPayload = {}
  Steers = {}
  BrokenStart = {a}
  Brakes = FALSE
  FaultyCommit = FALSE
  Acts = {"pause", "unpause", "remove", "release"}
  Asking = {}
  Graceful = TRUE
  MaxRestart = 3
  MaxOps = 2
INVARIANTS
  AttemptsBounded
