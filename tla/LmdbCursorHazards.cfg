SPECIFICATION CursorSpec
CONSTANTS
  Keys = {1, 2}
  Vals = {x1}
  NoVal = NoVal
  MaxRoot = 2
  SchemaVals = {0}
  TransTypes = {"optimistic", "noupgrade", "serialise"}
  DefaultType = "optimistic"
  CounterMod = 4
  Conns = {c1}
  ReadonlyConns = {}
  NoConn = NoConn
  MaxCommits = 1
  MaxDepth = 1
  MaxFaults = 1
  Habits = {"retryBusy", "pragma", "rollbackTo"}
  Slots = {s1}
  CursorHabits = {"endOpen", "gap", "seekPast", "rowless"}
INVARIANTS
  LockMatchesTxn
