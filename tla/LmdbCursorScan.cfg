SPECIFICATION CursorSpec
CONSTANTS
  Keys = {1, 2}
  Vals = {x1}
  NoVal = NoVal
  MaxRoot = 2
  SchemaVals = {0}
  TransTypes = {"optimistic"}
  DefaultType = "optimistic"
  CounterMod = 4
  Conns = {c1}
  ReadonlyConns = {}
  NoConn = NoConn
  MaxCommits = 1
  MaxDepth = 1
  MaxFaults = 0
  Habits = {}
  Slots = {s1, s2}
  CursorHabits = {}
SYMMETRY SlotSymmetry
INVARIANTS
  NextIsNeighbour
  OnItsRow
  NoDeadCursor
