\* A file of up to three pages of two slots; two record contents.
\* The process stops when an assertion fails or a call never returns.
SPECIFICATION Spec
CONSTANTS
  d1 = d1
  d2 = d2
  Data = {d1, d2}
  NoRecord = NoRecord
  RecordNum = 2
  MaxPages = 3
SYMMETRY Symmetry
INVARIANTS
  TypeOK
  CountMatchesBitmap
  LinksInsideFile
PROPERTIES
  ImplementsRecordStore
  CallsMatchStore
CHECK_DEADLOCK FALSE
