SPECIFICATION FairSpec
CONSTANTS
  a = a
  b = b
  rowsN = 2
  runsN = 4
  Agent = {a}
  Delivery <- Rows
  Run <- RunIds
  To <- ToOne
  Class <- AllDirect
  Direct = 0
  NoRun = 0
  Nobody = nobody
  Ceiling = 2
  Pid = {a}
  ArgvPayload = {}
  Steers = {}
  BrokenStart = {}
  Brakes = FALSE
  FaultyCommit = FALSE
  Acts <- AllActs
  Asking = {a}
  Graceful = TRUE
  MaxRestart = 1
  MaxOps = 0
PROPERTIES
  QueueDrains
