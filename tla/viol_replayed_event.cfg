SPECIFICATION LinkSpec
CONSTANTS
  w = w
  h = h
  Stream = {w, h}
  KindOf <- SocketAndRequest
  Window = 1
  HttpCap = 2
  Mixes <- EachAndBoth
  Final = 2
  Transient = {1}
  MaxCut = 0
  MaxHome = 1
  MaxResident = 1
  MaxFail = 1
  MaxRelease = 1
INVARIANTS JournalIsPrefix
CHECK_DEADLOCK FALSE
