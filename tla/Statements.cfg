\* One table of two attributes, of which the first may be null, two
\* records and up to two indexes in its life.
\* The program stops after undefined behaviour.
SPECIFICATION Spec
CONSTANTS
  Tables = {t}
  Columns = {1, 2}
  FieldLists <- MCFieldLists
  WhereClauses <- MCWhereClauses
  Values = {0, 1}
  MaxInt = 1
  NoRecord = NoRecord
  RIDs = {1, 2}
  MaxIndexes = 2
INVARIANTS
  TypeOK
  CreatedIsStored
  IndexFilesNamed
  IndexesMatchRecords
  SelectsAgree
PROPERTIES
  ImplementsTableStore
  StatementsMatchStore
VIEW SeenLater
CHECK_DEADLOCK FALSE
