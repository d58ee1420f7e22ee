\* One document, one watch, two versions, a storage that may settle late.
SPECIFICATION FairSpec
CONSTANTS
  Docs = {d}
  Watchers = {w}
  Versions = {1, 2}
  AsyncStorage = TRUE
  JobBound = 3
  CloseBound = 1
INVARIANTS
  AnsweredInOrder
  StorageClosedLast
  CacheCoherent
  WatchFollows
PROPERTIES
  LineDrains
CHECK_DEADLOCK FALSE
