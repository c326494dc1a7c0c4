SPECIFICATION RelaySpec
CONSTANTS
  d = d
  e = e
  p = p
  q = q
  n = n
  Device = {d}
  Newcomer = {e}
  ConnId = {1, 2}
  MaxClients = 2
  MaxFaults = 0
  MaxPackets = 0
  MaxRevokes = 1
  Browser = {p}
  Neighbour = {n}
  MaxClaims = 1
  MaxTries = 1
  MaxChurn = 1
  MayTear = FALSE
INVARIANTS RevokedAreAlwaysDropped
CHECK_DEADLOCK FALSE
