SPECIFICATION BdbCursorSpec
CONSTANTS
  Slots = {s1, s2}
  Keys = {1, 2, 3}
  Vals = {x, big}
  NoVal = NoVal
  Oversize = {big}
  BufRows = 2
  Habits = {}
SYMMETRY BdbSlotSymmetry
INVARIANTS
  BdbCursorTypeOK
  ReadsItsRow
  NoNullDbc
PROPERTIES
  SeekFinds
  StepIsNeighbour
  DeletesItsRow
