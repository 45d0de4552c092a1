SPECIFICATION Spec
CONSTANTS
  d1 = d1
  Data = {d1}
  NoRecord = NoRecord
  RecordNum = 2
  MaxPages = 3
INVARIANT FreeListHeadHasRoom
CHECK_DEADLOCK FALSE
