SPECIFICATION Spec
CONSTANTS
  a = a
  b = b
  rowsN = 1
  runsN = 3
  Agent = {a}
  Delivery <- Rows
  Run <- RunIds
  To <- ToOne
  Class <- AllDirect
  Direct = 0
  NoRun = 0
  Nobody = nobody
  Ceiling = 2
  Pid = {a}
  ArgvPayload = {}
  Steers = {}
  BrokenStart = {}
  Brakes = FALSE
  FaultyCommit = FALSE
  Acts <- AllActs
  Asking = {a}
  Graceful = TRUE
  MaxRestart = 0
  MaxOps = 1
PROPERTIES
  DeadUntilRevived
