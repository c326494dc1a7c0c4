SPECIFICATION Spec
CONSTANTS
  a = a
  b = b
  rowsN = 2
  runsN = 5
  Agent = {a, b}
  Delivery <- Rows
  Run <- RunIds
  To <- ToTwo
  Class <- AllDirect
  Direct = 0
  NoRun = 0
  Nobody = nobody
  Ceiling = 2
  Pid = {a}
  ArgvPayload = {}
  Steers = {}
  BrokenStart = {}
  Brakes = FALSE
  FaultyCommit = FALSE
  Acts <- AllActs
  Asking = {a, b}
  Graceful = FALSE
  MaxRestart = 2
  MaxOps = 0
INVARIANTS
  ExactlyOnceOrHeld
