SPECIFICATION RelaySpec
CONSTANTS
  d = d
  e = e
  p = p
  q = q
  n = n
  Device = {d}
  Newcomer = {e}
  ConnId = {1, 2}
  MaxClients = 2
  MaxFaults = 0
  MaxPackets = 0
  MaxRevokes = 1
  Browser = {p}
  Neighbour = {n}
  MaxClaims = 2
  MaxTries = 2
  MaxChurn = 2
  MayTear = FALSE
INVARIANTS PairedKeysAlwaysAgree
CHECK_DEADLOCK FALSE
