\* Short sends, a shared upload path, heartbeats and opens that fail.
SPECIFICATION Spec
CONSTANTS
  Conns = {1, 2}
  PAGSIZE = 2
  MsgSizes = {1}
  FileSizes = {2}
  SockBuf = 4
  OpenFails = TRUE
  MaxSent <- SendTwoAndOne
  MaxBeats <- BeatOnOne
INVARIANTS TypeOK FileWhole ExecutedInOrder
