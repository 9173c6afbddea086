SPECIFICATION Spec
CONSTANTS
  Keys = {k1}
  Vals = {x1}
  NoVal = NoVal
  MaxRoot = 2
  SchemaVals = {0}
  TransTypes = {"optimistic"}
  DefaultType = "optimistic"
  CounterMod = 4
  Conns = {c1, c2}
  ReadonlyConns = {}
  NoConn = NoConn
  MaxCommits = 1
  MaxDepth = 0
  MaxFaults = 0
  Habits = {"retryBusy"}
INVARIANTS
  NoLostUpdate
