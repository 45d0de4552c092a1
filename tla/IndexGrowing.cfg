\* Ten entries inserted in any order, the first of them of a null value.
\* The process stops when an operation never returns or all are inserted.
SPECIFICATION SpecGrowing
CONSTANTS
  Entries = {1, 2, 3, 4, 5, 6, 7, 8, 9, 10}
  NullEntries = {1}
  FloatData <- MCFloatData
  MaxInt = 5
  RIDs = {1, 2}
  EntryLimit = 3
  MaxNode = 14
INVARIANTS
  ItemsComparable
  RowsFound
  LeavesInOrder
  ScansFind
  FloatScansFind
  NullScansFind
CHECK_DEADLOCK FALSE
