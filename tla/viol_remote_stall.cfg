SPECIFICATION LinkFairSpec
CONSTANTS
  w = w
  h = h
  Stream = {w, h}
  KindOf <- SocketAndRequest
  Window = 1
  HttpCap = 2
  Mixes <- EachAndBoth
  Final = 2
  Transient = {}
  MaxCut = 0
  MaxHome = 1
  MaxResident = 1
  MaxFail = 1
  MaxRelease = 1
PROPERTIES RestartedTurnsEnd
CHECK_DEADLOCK FALSE
