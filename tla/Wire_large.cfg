SPECIFICATION Spec
CONSTANTS
  Conns = {1}
  PAGSIZE = 2
  MsgSizes = {1, 2}
  FileSizes = {}
  SockBuf = 100
  OpenFails = FALSE
  MaxSent <- SendTwo
  MaxBeats <- NoBeats
INVARIANTS
  CommandWhole
