\* A scan over a file of up to two pages of two slots; two record contents.
\* The process stops when an assertion of the record file fails.
SPECIFICATION ScanSpec
CONSTANTS
  d1 = d1
  d2 = d2
  Data = {d1, d2}
  NoRecord = NoRecord
  RecordNum = 2
  MaxPages = 2
SYMMETRY Symmetry
INVARIANTS
  ScanTypeOK
  ScanComplete
  ReturnsInOrder
CHECK_DEADLOCK FALSE
