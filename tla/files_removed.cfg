SPECIFICATION FairSpec
CONSTANTS
  a = a
  Files = {a}
  NumWorkers = 1
  MaxVersion = 2
  NoFile = NoFile
  NoMap = NoMap
PROPERTY RemovedFilesVanish
CHECK_DEADLOCK FALSE
