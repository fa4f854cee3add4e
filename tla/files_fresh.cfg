SPECIFICATION FairSpec
CONSTANTS
  a = a
  Files = {a}
  NumWorkers = 2
  MaxVersion = 3
  NoFile = NoFile
  NoMap = NoMap
INVARIANTS
  FileCacheInv
  ChangesAreDetected
  LocalMapsAgree
PROPERTIES
  NeverBackwards
  FilesBecomeFresh
CHECK_DEADLOCK FALSE
