SPECIFICATION Spec
CONSTANTS
  Threads = {t1, t2}
  Measuring = {t1}
  Times <- HalfNanoseconds
  Unit = 2
  NumOfBins = 2
  BinSize = 4
  Every = 2
  Keep = 2
  MaxUpdates = 3
  NoThread = NoThread
  NoUpdate = NoUpdate
  Names = {n1}
  Handlers = {h1}
  MaxMetrics = 2
  Wrap = 4
  MaxCalls = 2
INVARIANTS
  MetricsInv
  NothingLost
  HistogramsMatchSamples
PROPERTY EventuallyAggregated
CHECK_DEADLOCK FALSE
