SPECIFICATION Spec
CONSTANTS
  Callers = {1, 2}
  Ops = {"excuteSql", "Display"}
  DbFails = FALSE
  DbDrops = FALSE
INVARIANTS
  StatementsRun
