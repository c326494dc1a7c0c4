SPECIFICATION Spec
CONSTANTS
  a = a
  b = b
  rowsN = 2
  runsN = 6
  Agent = {a, b}
  Delivery <- Rows
  Run <- RunIds
  To <- ToTwo
  Class <- AllDirect
  Direct = 0
  NoRun = 0
  Nobody = nobody
  Ceiling = 2
  Pid = {a}
  ArgvPayload = {}
  Steers = {}
  BrokenStart = {}
  Brakes = TRUE
  FaultyCommit = FALSE
  Acts = {"release"}
  Asking = {a, b}
  Graceful = TRUE
  MaxRestart = 1
  MaxOps = 1
PROPERTIES
  ReleaseIsHonoured
