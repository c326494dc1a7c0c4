SPECIFICATION RelayFairSpec
CONSTANTS
  d = d
  e = e
  p = p
  q = q
  n = n
  Device = {d}
  Newcomer = {e}
  ConnId = {1, 2, 3}
  MaxClients = 2
  MaxFaults = 2
  MaxPackets = 1
  MaxRevokes = 1
  Browser = {p, q}
  Neighbour = {n}
  MaxClaims = 3
  MaxTries = 2
  MaxChurn = 2
  MayTear = TRUE
INVARIANTS SessionsAreWhole RevokedAreDropped GrantIsSpentOnce PairedKeysAgree
PROPERTIES EveryoneJoins
CHECK_DEADLOCK FALSE
