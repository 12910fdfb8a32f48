\* Any three operations by two threads, on a database that refuses and drops
\* connections.
SPECIFICATION RegSpec
CONSTANTS
  Callers = {1, 2}
  Ops = {"Connect", "excuteSql", "Display", "IsExistData", "close"}
  DbFails = TRUE
  DbDrops = TRUE
  Ips = {ip1, ip2}
  Numbers = {1}
  Names = {n1, n2}
  Paths = {1, 2}
  Backslashed = {2}
  MaxJobs = 3
SYMMETRY RowSymmetry
INVARIANTS RegTypeOK OwnResult CheckHolds
PROPERTIES QuietForGood WorkDone
