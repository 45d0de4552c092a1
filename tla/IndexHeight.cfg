SPECIFICATION SpecGrowing
CONSTANTS
  Entries = {1, 2, 3, 4, 5, 6, 7, 8, 9}
  EntryLimit = 3
  MaxNode = 12
INVARIANT OperationsReturn
CHECK_DEADLOCK FALSE
