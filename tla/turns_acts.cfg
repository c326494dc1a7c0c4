SPECIFICATION Spec
CONSTANTS
  a = a
  b = b
  rowsN = 2
  runsN = 5
  Agent = {a}
  Delivery <- Rows
  Run <- RunIds
  To <- ToOne
  Class <- SecondGrouped
  Direct = 0
  NoRun = 0
  Nobody = nobody
  Ceiling = 2
  Pid = {a}
  ArgvPayload = {}
  Steers = {}
  BrokenStart = {}
  Brakes = FALSE
  FaultyCommit = TRUE
  Acts = {"stop", "kill", "revive", "remove", "delete"}
  Asking = {a}
  Graceful = TRUE
  MaxRestart = 1
  MaxOps = 1
INVARIANTS
  OneTurnPerMember
  ExactlyOnceOrHeld
  NoStrandedDelivery
  NoPhantomRun
PROPERTIES
  StopIsTerminal
