\* The build for systems other than Windows.
SPECIFICATION FairSpec
CONSTANTS
  THREAD_NUMB = 2
  Fds = {1, 2}
  NotifyIsSocket = FALSE
  NotifyCap = 8
  MaxAssign = 1
  MaxGive = 0
  MaxSend = 0
  MaxAsk = 0
  MaxCalls = 0
PROPERTIES ConnServed
