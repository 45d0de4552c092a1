\* Seven entries in nodes of up to three items and an index file of up to
\* nine pages: trees of up to three levels.
\* The process stops when an operation aborts or never returns.
SPECIFICATION Spec
CONSTANTS
  Entries = {1, 2, 3, 4, 5, 6, 7}
  EntryLimit = 3
  MaxNode = 9
INVARIANTS
  TypeOK
  PagesAccounted
  LeafChainMatchesTree
  Balanced
  LeavesHoldRows
CHECK_DEADLOCK FALSE
