SPECIFICATION FairSpec
CONSTANTS
  a = a
  b = b
  rowsN = 2
  runsN = 5
  Agent = {a}
  Delivery <- Rows
  Run <- RunIds
  To <- ToOne
  Class <- AllDirect
  Direct = 0
  NoRun = 0
  Nobody = nobody
  Ceiling = 2
  Pid = {a}
  ArgvPayload = {a}
  Steers = {a}
  BrokenStart = {}
  Brakes = FALSE
  FaultyCommit = FALSE
  Acts <- AllActs
  Asking = {a}
  Graceful = TRUE
  MaxRestart = 0
  MaxOps = 1
PROPERTIES
  QueueDrains
  PumpReturns
