SPECIFICATION Spec
CONSTANTS
  Entries = {1, 2, 3, 4, 5, 6, 7, 8, 9}
  EntryLimit = 3
  MaxNode = 12
INVARIANT ItemsAreLeast
CHECK_DEADLOCK FALSE
