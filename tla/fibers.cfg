SPECIFICATION FairSpec
CONSTANTS
  Funcs = {r1, r2, r3, r4}
  MaxFibers = 4
  NoFunc = NoFunc
  NoCache = NoCache
INVARIANTS
  TypeOK
  WaitingMeansCached
  RunsOnce
  NothingActiveAtReset
PROPERTY WorkAndStopEnd
CHECK_DEADLOCK FALSE
