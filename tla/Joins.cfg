\* Joins of two or three tables of up to three rows.  Differences of -3, 2
\* and 3 wrap around.
SPECIFICATION Spec
CONSTANTS
  Values <- MCValues
  IntLimit = 2
  MaxRows = 3
  MaxTables = 3
INVARIANTS
  TypeOK
  MergeFindsMatches
  ProductFindsAll
  NoTupleTwice
PROPERTY Ends
CHECK_DEADLOCK FALSE
