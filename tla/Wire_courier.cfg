SPECIFICATION FairSpec
CONSTANTS
  Conns = {1}
  PAGSIZE = 2
  MsgSizes = {0, 1}
  FileSizes = {1, 2, 3}
  SockBuf = 100
  OpenFails = FALSE
  MaxSent <- SendThree
  MaxBeats <- BeatOnOne
PROPERTIES
  ImplementsCourier
