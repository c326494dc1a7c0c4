SPECIFICATION LinkFairSpec
CONSTANTS
  w = w
  h = h
  Stream = {w, h}
  KindOf <- SocketAndRequest
  Window = 1
  HttpCap = 2
  Mixes <- EachAndBoth
  Final = 2
  Transient = {}
  MaxCut = 1
  MaxHome = 1
  MaxResident = 1
  MaxFail = 1
  MaxRelease = 1
INVARIANTS CreditIsConserved BodiesAreWhole StartedOnce JournalIsPrefix
PROPERTIES Flows RemoteTurnsEnd AcksDrain
CHECK_DEADLOCK FALSE
