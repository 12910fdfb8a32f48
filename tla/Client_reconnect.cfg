\* A connection that breaks while TryConnect or InitSystem ends.
SPECIFICATION FairSpec
CONSTANTS
  FaultSets = {{}}
  MaxPackages = 1
  MaxRequests = 1
  MaxConns = 2
  MaxPushes = 0
  MaxLessons = 0
PROPERTIES Reconnects
