SPECIFICATION SpecAtLimit
CONSTANTS
  table = table
  index = index
  v1 = v1
  v2 = v2
  Files = {table, index}
  RecordFiles = {table}
  NoFile = NoFile
  NumWords = 2
  WordBits = 2
  MaxLost = 4
  PageIds <- MCPageIds
  MaxPageNum <- MCMaxPageNum
  Content = {v1}
  Absent = Absent
  Cap = 2
  NoKey <- MCNoKey
INVARIANT IdsDistinguishFiles
CHECK_DEADLOCK FALSE
