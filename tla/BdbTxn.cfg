SPECIFICATION BdbSpec
CONSTANTS
  c1 = c1
  c2 = c2
  Conns = {c1, c2}
  TxConns = {c1}
  Tables = {m, t}
  Master = m
  Vals = {0, 1}
  Empty = 0
  Absent = Absent
  MaxReaders <- TwoAndOne
  MaxSavepoint = 1
  MaxCalls <- LongAndShort
  MaxFaults = 1
INVARIANTS
  BdbTypeOK
  KeepsItsWrites
  ReadsHold
  SavepointsHaveTxns
  DeletedExist
  SchemaLockHeld
  BdbNothingLeftOver
PROPERTIES
  CommitIsDurable
