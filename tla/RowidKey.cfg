SPECIFICATION RowidSpec
CONSTANTS
  Base = 2
  Width = 4
  FixedRowid = FALSE
  Rowids <- SmallRowids
INVARIANTS
  NewRowidIsFresh
PROPERTIES
  ScanAscends
