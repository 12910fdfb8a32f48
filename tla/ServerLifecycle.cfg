SPECIFICATION Spec
CONSTANTS
  THREAD_NUMB = 2
  IsWin32 = TRUE
  MayFail = {"base", "channel", "bind"}
  MaxConns = 3
INVARIANTS
  TypeOK
  SafeWhileUp
  CleanEnd
  SafeStop
CHECK_DEADLOCK FALSE
