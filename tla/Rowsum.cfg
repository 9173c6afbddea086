SPECIFICATION RowsumSpec
CONSTANTS
  Entries = {row1, index1}
  IndexEntries = {index1}
  Hashes = {sha3}
  OtherHash = other
  FirstCols = 1
  MaxCols = 2
INVARIANTS
  RowsReadable
  
