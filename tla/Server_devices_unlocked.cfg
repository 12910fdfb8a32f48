\* GetConnectDevice without data_mtx.
SPECIFICATION Spec
CONSTANTS
  THREAD_NUMB = 2
  Fds = {1, 2}
  NotifyIsSocket = TRUE
  NotifyCap = 8
  MaxAssign = 2
  MaxGive = 0
  MaxSend = 0
  MaxAsk = 1
  MaxCalls = 1
INVARIANTS DeviceListSafe
