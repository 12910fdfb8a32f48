\* Connections dealt, closed and their descriptors reused over channels that
\* overflow, while the application gives a lesson, sends a file or asks for the
\* devices.
SPECIFICATION Spec
CONSTANTS
  THREAD_NUMB = 2
  Fds = {1, 2}
  NotifyIsSocket = TRUE
  NotifyCap = 2
  MaxAssign = 2
  MaxGive = 1
  MaxSend = 1
  MaxAsk = 1
  MaxCalls = 1
INVARIANTS TypeOK Balanced WakeupsMatchQueue FdOwnedOnce ConvergedLesson FileReaches
PROPERTIES DeviceListComplete
