SPECIFICATION Spec
CONSTANTS
  Keys = {k1}
  Vals = {x1}
  NoVal = NoVal
  MaxRoot = 3
  SchemaVals = {0}
  TransTypes = {"optimistic", "noupgrade", "serialise"}
  DefaultType = "optimistic"
  CounterMod = 4
  Conns = {c1, c2}
  ReadonlyConns = {}
  NoConn = NoConn
  MaxCommits = 2
  MaxDepth = 0
  MaxFaults = 0
  Habits = {}
SYMMETRY Symmetry
INVARIANTS
  TypeOK
  NoLostUpdate
  NoDanglingTxn
  NothingLeftOver
  LockMatchesTxn
  TxnStaysOpen
PROPERTIES
  CounterTracksData
  ImplementsStore
