SPECIFICATION Spec
CONSTANTS
  Keys = {k1}
  Vals = {x1}
  NoVal = NoVal
  MaxRoot = 3
  SchemaVals = {0}
  TransTypes = {"optimistic"}
  DefaultType = "optimistic"
  CounterMod = 4
  Conns = {c1}
  ReadonlyConns = {}
  NoConn = NoConn
  MaxCommits = 1
  MaxDepth = 3
  MaxFaults = 1
  Habits = {}
SYMMETRY Symmetry
INVARIANTS
  SeesItsTransaction
  FreshRoot
PROPERTIES
  CommitPublishesTxn
