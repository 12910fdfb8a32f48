\* Channels that never fill: everything dealt is taken, every lesson arrives.
SPECIFICATION FairSpec
CONSTANTS
  THREAD_NUMB = 2
  Fds = {1, 2}
  NotifyIsSocket = TRUE
  NotifyCap = 8
  MaxAssign = 1
  MaxGive = 1
  MaxSend = 0
  MaxAsk = 0
  MaxCalls = 1
PROPERTIES ImplementsHandOff LessonReaches
