\* A record file of up to two pages and an index of up to three, two frames,
\* two page contents.  Four file ids in two words of the map of free ids; a failed
\* open can use up one of them, and the two files two others.
SPECIFICATION Spec
CONSTANTS
  table = table
  index = index
  v1 = v1
  v2 = v2
  Files = {table, index}
  RecordFiles = {table}
  NoFile = NoFile
  NumWords = 2
  WordBits = 2
  MaxLost = 1
  PageIds <- MCPageIds
  MaxPageNum <- MCMaxPageNum
  Content = {v1, v2}
  Absent = Absent
  Cap = 2
  NoKey <- MCNoKey
SYMMETRY Symmetry
INVARIANTS
  TypeOK
  BufferCoherent
  IdsDistinguishFiles
  AllocatedPagesNotCached
PROPERTIES
  ImplementsPageStore
  ClosingWritesAll
  CallsMatchPages
CHECK_DEADLOCK FALSE
